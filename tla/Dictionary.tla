----------------------------- MODULE Dictionary -----------------------------
(***************************************************************************)
(* The singleton of server/src/Dictionary.cpp under its real callers: each *)
(* worker thread runs one set or get at a time, statement by statement,    *)
(* while the main thread may still be inside enableBloomFilter.            *)
(***************************************************************************)
EXTENDS BloomFilter, Integers, FiniteSets

CONSTANTS
    Worker, Value,
    MAX_DICT_SIZE,
    bloomRequested,  \* the -b option of main
    StartupRace,     \* can a request be served before start() returns?
    NoThread         \* m_mtx is free

NOT_FOUND == "NOT_FOUND"
EmptyString == ""

ASSUME DictionaryAssumption ==
    /\ IsFiniteSet(Worker) /\ NoThread \notin Worker
    /\ IsFiniteSet(Key)
    /\ MAX_DICT_SIZE \in Nat \ {0}
    /\ bloomRequested \in BOOLEAN /\ StartupRace \in BOOLEAN
    /\ NOT_FOUND \notin Value /\ EmptyString \notin Value

VARIABLES
    m_dict,                \* the unordered_map: a function on the keys set
    m_bloomFilterEnabled,
    m_bloomFilter,         \* FALSE while the pointer is null
    bit_table_,            \* the filter it points to
    m_mtx,                 \* the thread that holds the mutex, or NoThread
    mainPc,                \* where the main thread is in enableBloomFilter
    pc, key, val, ret,     \* the call each worker is in: next statement,
                           \* argument, argument or out parameter, result
    crashed                \* the process died on a null m_bloomFilter

frame == <<pc, key, val, ret>>
bloom == <<m_bloomFilterEnabled, m_bloomFilter, bit_table_>>
dictVars == <<m_dict, bloom, m_mtx, mainPc, frame, crashed>>

SetPc == {"set_check", "set_lock", "set_insert", "set_store"}
GetPc == {"get_lock", "get_find", "get_contains"}
PC == SetPc \cup GetPc \cup {"idle", "set_returned", "get_returned"}

\* A frame that holds no call.
NoKey == "no_key"

DictInit ==
    /\ m_dict = [k \in {} |-> k]
    /\ m_bloomFilterEnabled = FALSE
    /\ m_bloomFilter = FALSE
    /\ bit_table_ = EmptyTable
    /\ m_mtx = NoThread
    /\ mainPc = "enable"
    /\ pc = [w \in Worker |-> "idle"]
    /\ key = [w \in Worker |-> NoKey]
    /\ val = [w \in Worker |-> EmptyString]
    /\ ret = [w \in Worker |-> FALSE]
    /\ crashed = FALSE

Goto(w, l) == pc' = [pc EXCEPT ![w] = l]
Size == Cardinality(DOMAIN m_dict)
-----------------------------------------------------------------------------
(* The main thread, at the end of TcpServer::start.  It holds no lock, and *)
(* the flag is on before the filter exists.                                *)

EnableBloomFilter ==
    /\ mainPc = "enable"
    /\ m_bloomFilterEnabled' = bloomRequested
    /\ mainPc' = IF bloomRequested THEN "init_filter" ELSE "done"
    /\ UNCHANGED <<m_dict, m_bloomFilter, bit_table_, m_mtx, frame, crashed>>

\* Faulty variant: the filter is not made.
InitBloomFilters_NoFilter ==
    /\ mainPc = "init_filter" /\ mainPc' = "done"
    /\ UNCHANGED <<m_dict, bloom, m_mtx, frame, crashed>>

InitBloomFilters ==
    /\ mainPc = "init_filter"
    /\ m_bloomFilter' = TRUE
    /\ bit_table_' = EmptyTable
    /\ mainPc' = "done"
    /\ UNCHANGED <<m_dict, m_bloomFilterEnabled, m_mtx, frame, crashed>>
-----------------------------------------------------------------------------
(* Entry to set and get, and the return to the request handler.            *)

Enter(w, l, k, v) ==
    /\ pc[w] = "idle"
    /\ StartupRace \/ mainPc = "done"
    /\ Goto(w, l)
    /\ key' = [key EXCEPT ![w] = k]
    /\ val' = [val EXCEPT ![w] = v]
    /\ UNCHANGED <<m_dict, bloom, m_mtx, mainPc, ret, crashed>>

SetCall(w, k, v) == Enter(w, "set_check", k, v)
GetCall(w, k) == Enter(w, "get_lock", k, EmptyString)

Return(w) ==
    /\ pc[w] \in {"set_returned", "get_returned"}
    /\ Goto(w, "idle")
    /\ key' = [key EXCEPT ![w] = NoKey]
    /\ val' = [val EXCEPT ![w] = EmptyString]
    /\ ret' = [ret EXCEPT ![w] = FALSE]
    /\ UNCHANGED <<m_dict, bloom, m_mtx, mainPc, crashed>>
-----------------------------------------------------------------------------
(* set: the size is read before the lock is taken.                         *)

\* Faulty variant: off by one.
SetCheck_OffByOne(w) ==
    /\ pc[w] = "set_check"
    /\ IF Size > MAX_DICT_SIZE
       THEN Goto(w, "set_returned") /\ ret' = [ret EXCEPT ![w] = FALSE]
       ELSE Goto(w, "set_lock") /\ UNCHANGED ret
    /\ UNCHANGED <<m_dict, bloom, m_mtx, mainPc, key, val, crashed>>

SetCheck(w) ==
    /\ pc[w] = "set_check"
    /\ IF Size >= MAX_DICT_SIZE
       THEN Goto(w, "set_returned") /\ ret' = [ret EXCEPT ![w] = FALSE]
       ELSE Goto(w, "set_lock") /\ UNCHANGED ret
    /\ UNCHANGED <<m_dict, bloom, m_mtx, mainPc, key, val, crashed>>

\* Taking the lock and the test of m_bloomFilterEnabled after it.
Lock(w, from, enabled, disabled) ==
    /\ pc[w] = from
    /\ m_mtx = NoThread
    /\ m_mtx' = w
    /\ Goto(w, IF m_bloomFilterEnabled THEN enabled ELSE disabled)
    /\ UNCHANGED <<m_dict, bloom, mainPc, key, val, ret, crashed>>

SetLock(w) == Lock(w, "set_lock", "set_insert", "set_store")
GetLock(w) == Lock(w, "get_lock", "get_contains", "get_find")

\* m_bloomFilter-> on a null pointer ends the process.
NullDereference(w) ==
    /\ pc[w] \in {"set_insert", "get_contains"}
    /\ ~m_bloomFilter
    /\ crashed' = TRUE
    /\ UNCHANGED <<m_dict, bloom, m_mtx, mainPc, frame>>

SetInsert(w) ==
    /\ pc[w] = "set_insert"
    /\ m_bloomFilter
    /\ bit_table_' = insert(bit_table_, key[w])
    /\ Goto(w, "set_store")
    /\ UNCHANGED <<m_dict, m_bloomFilterEnabled, m_bloomFilter, m_mtx, mainPc, key, val, ret, crashed>>

\* Faulty variants: unordered_map::insert, which does not overwrite; and a
\* path that leaves the mutex locked.
SetStore_KeepsOld(w) ==
    /\ pc[w] = "set_store"
    /\ m_dict' = [k \in DOMAIN m_dict \cup {key[w]} |->
                    IF k \in DOMAIN m_dict THEN m_dict[k] ELSE val[w]]
    /\ ret' = [ret EXCEPT ![w] = TRUE]
    /\ m_mtx' = NoThread
    /\ Goto(w, "set_returned")
    /\ UNCHANGED <<bloom, mainPc, key, val, crashed>>

SetStore_NoUnlock(w) ==
    /\ pc[w] = "set_store"
    /\ m_dict' = [k \in DOMAIN m_dict \cup {key[w]} |->
                    IF k = key[w] THEN val[w] ELSE m_dict[k]]
    /\ ret' = [ret EXCEPT ![w] = TRUE]
    /\ Goto(w, "set_returned")
    /\ UNCHANGED <<bloom, m_mtx, mainPc, key, val, crashed>>

SetStore(w) ==
    /\ pc[w] = "set_store"
    /\ m_dict' = [k \in DOMAIN m_dict \cup {key[w]} |->
                    IF k = key[w] THEN val[w] ELSE m_dict[k]]
    /\ ret' = [ret EXCEPT ![w] = TRUE]
    /\ m_mtx' = NoThread
    /\ Goto(w, "set_returned")
    /\ UNCHANGED <<bloom, mainPc, key, val, crashed>>
-----------------------------------------------------------------------------
(* get: the rest of the call, under the lock to its end.                   *)

GetReturn(w, v, r) ==
    /\ val' = [val EXCEPT ![w] = v]
    /\ ret' = [ret EXCEPT ![w] = r]
    /\ m_mtx' = NoThread
    /\ Goto(w, "get_returned")
    /\ UNCHANGED <<m_dict, bloom, mainPc, key, crashed>>

\* Without the filter: true and the value, or false and NOT_FOUND.
GetFind(w) ==
    /\ pc[w] = "get_find"
    /\ IF key[w] \in DOMAIN m_dict THEN GetReturn(w, m_dict[key[w]], TRUE)
                                   ELSE GetReturn(w, NOT_FOUND, FALSE)

\* Faulty variant: m_dict[key] without find, which inserts a false positive.
GetContains_Inserts(w) ==
    /\ pc[w] = "get_contains"
    /\ m_bloomFilter
    /\ contains(bit_table_, key[w])
    /\ m_dict' = [k \in DOMAIN m_dict \cup {key[w]} |->
                    IF k \in DOMAIN m_dict THEN m_dict[k] ELSE EmptyString]
    /\ val' = [val EXCEPT ![w] = m_dict'[key[w]]]
    /\ ret' = [ret EXCEPT ![w] = FALSE]
    /\ m_mtx' = NoThread
    /\ Goto(w, "get_returned")
    /\ UNCHANGED <<bloom, mainPc, key, crashed>>

\* With the filter the result is false on every path, and a false positive
\* leaves the caller's empty string in the out parameter.
GetContains(w) ==
    /\ pc[w] = "get_contains"
    /\ m_bloomFilter
    /\ IF contains(bit_table_, key[w])
       THEN GetReturn(w, IF key[w] \in DOMAIN m_dict THEN m_dict[key[w]] ELSE val[w], FALSE)
       ELSE GetReturn(w, NOT_FOUND, FALSE)
-----------------------------------------------------------------------------
MainStep == EnableBloomFilter \/ InitBloomFilters

\* A worker inside a call.
CallStep(w) ==
    \/ SetCheck(w) \/ SetLock(w) \/ SetInsert(w) \/ SetStore(w)
    \/ GetLock(w) \/ GetFind(w) \/ GetContains(w)
    \/ NullDereference(w)

DictNext ==
    /\ ~crashed
    /\ \/ MainStep
       \/ \E w \in Worker :
            \/ \E k \in Key, v \in Value : SetCall(w, k, v)
            \/ \E k \in Key : GetCall(w, k)
            \/ CallStep(w)
            \/ Return(w)

DictSpec == DictInit /\ [][DictNext]_dictVars

\* A started call is not abandoned, and main goes on: the threads are only
\* preempted.  Nothing is assumed of who gets a contended mutex.
DictFairness ==
    /\ WF_dictVars(~crashed /\ MainStep)
    /\ \A w \in Worker : WF_dictVars(~crashed /\ (CallStep(w) \/ Return(w)))

FairDictSpec == DictSpec /\ DictFairness
-----------------------------------------------------------------------------
\* Every variable keeps its type; m_dict is a map from keys to values.
DictTypeOK ==
    /\ DOMAIN m_dict \subseteq Key
    /\ m_dict \in [DOMAIN m_dict -> Value]
    /\ m_bloomFilterEnabled \in BOOLEAN
    /\ m_bloomFilter \in BOOLEAN
    /\ bit_table_ \subseteq Bit
    /\ m_mtx \in Worker \cup {NoThread}
    /\ mainPc \in {"enable", "init_filter", "done"}
    /\ pc \in [Worker -> PC]
    /\ key \in [Worker -> Key \cup {NoKey}]
    /\ val \in [Worker -> Value \cup {NOT_FOUND, EmptyString}]
    /\ ret \in [Worker -> BOOLEAN]
    /\ crashed \in BOOLEAN

\* Dictionary::set reads the size before it locks, so MAX_DICT_SIZE can be
\* overrun - but by no more than the SETs that can be between the two.
SizeBounded == Size <= MAX_DICT_SIZE + Cardinality(Worker) - 1

\* The filter never rules out a key that the map holds: set inserts into the
\* filter before it stores, under the lock get also takes.
NoFalseNegative ==
    m_bloomFilterEnabled /\ m_bloomFilter =>
        \A k \in DOMAIN m_dict : contains(bit_table_, k)

\* get's result is true exactly when it found the key, as its comment says.
GetTellsSuccess ==
    \A w \in Worker : pc[w] = "get_returned" => (ret[w] <=> val[w] \in Value)

\* The threads share one map: a get about to consult the filter for a key that
\* any set has stored gets past it.
GetFindsStored ==
    \A w \in Worker :
        pc[w] = "get_contains" /\ m_bloomFilter /\ key[w] \in DOMAIN m_dict
            => contains(bit_table_, key[w])

\* The null filter is met only in the window of enableBloomFilter in which
\* the flag is on and the filter is not made yet.
CrashOnlyInStartup == crashed => StartupRace /\ mainPc = "init_filter"

\* A thread that has taken the mutex gives it back, on every path out of set
\* and get, unless the process dies on the null filter.
MutexReleased == \A w \in Worker : m_mtx = w ~> m_mtx # w \/ crashed

\* What the store sees of a worker: the call it is in, and its answer.
CallOf(w) ==
    IF pc[w] = "idle" THEN [op |-> "none"]
    ELSE IF pc[w] \in SetPc \cup {"set_returned"}
         THEN [op |-> "set", key |-> key[w], val |-> val[w]]
         ELSE [op |-> "get", key |-> key[w]]
AnswerOf(w) ==
    IF pc[w] = "set_returned" THEN IF ret[w] THEN "stored" ELSE "refused"
    ELSE IF pc[w] = "get_returned" THEN val[w] ELSE "no_answer"

Store == INSTANCE KeyValueStore WITH
    Client <- Worker,
    Miss <- {NOT_FOUND, EmptyString},
    Capacity <- MAX_DICT_SIZE,
    Slack <- Cardinality(Worker) - 1,
    store <- m_dict,
    request <- [w \in Worker |-> CallOf(w)],
    answer <- [w \in Worker |-> AnswerOf(w)]

\* The shared dictionary is linearizable: with or without the filter, set and
\* get implement the atomic store, reading a GET's answer from its out
\* parameter.
ImplementsStore == Store!Spec
=============================================================================
