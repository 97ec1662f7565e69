------------------------ MODULE RequestHandlerProofs ------------------------
(***************************************************************************)
(* Proofs about RequestHandler, for any number of workers, keys and        *)
(* counted GETs: it only uses the dictionary as the dictionary may be      *)
(* used, so that all that is proved of Dictionary holds here; the counters *)
(* lose no GET; a STAT reply is off by no more than the other workers; and *)
(* reason is filled for misses only when the filter is off.                *)
(***************************************************************************)
EXTENDS RequestHandler, StoreProofs

-----------------------------------------------------------------------------
(* The dictionary in the handlers.                                         *)

\* Every step of a handler is a step of the dictionary or none.
LEMMA HandlerStep == [Next]_vars => [DictNext]_dictVars
<1> SUFFICES ASSUME [Next]_vars
             PROVE  DictNext \/ UNCHANGED dictVars
  OBVIOUS
<1>1. CASE UNCHANGED vars
  BY <1>1 DEF vars
<1>2. CASE ~crashed /\ InMain
  BY <1>2 DEF InMain, DictNext
<1>3. ASSUME ~crashed, NEW w \in Worker, NEW k \in Key, HandleGet(w, k)
      PROVE  DictNext
  BY <1>3 DEF HandleGet, DictNext
<1>4. ASSUME ~crashed, NEW w \in Worker, NEW k \in Key, NEW v \in Value, HandleSet(w, k, v)
      PROVE  DictNext
  BY <1>4 DEF HandleSet, DictNext
<1>5. ASSUME ~crashed, NEW w \in Worker, InDictionary(w) \/ FinishGet(w) \/ FinishSet(w)
      PROVE  DictNext
  BY <1>5 DEF InDictionary, FinishGet, FinishSet, DictNext
<1>6. ASSUME NEW w \in Worker, HandleStat(w) \/ StatSucc(w) \/ StatFail(w) \/ SendResponse(w)
      PROVE  UNCHANGED dictVars
  BY <1>6 DEF HandleStat, StatSucc, StatFail, SendResponse
<1> QED
  BY <1>1, <1>2, <1>3, <1>4, <1>5, <1>6 DEF Next, Proceed

\* The handlers use the dictionary as its callers in DictSpec do.
THEOREM HandlersUseDictionary == Spec => DictSpec
BY HandlerStep, PTL DEF Spec, Init, DictSpec

\* In the composition with the handlers and their counters, too, the
\* dictionary is the atomic store.
THEOREM HandlersUseStore ==
    ASSUME ~StartupRace, Store!NoAnswer \notin Value
    PROVE  Spec => ImplementsStore
BY HandlersUseDictionary, StoreCorrect, PTL

-----------------------------------------------------------------------------
(* The counters.                                                           *)

CounterTypes ==
    /\ m_numGetReq \in Nat /\ m_numGetReqSucc \in Nat /\ m_numGetReqFail \in Nat
    /\ hpc \in [Worker -> {"idle", "get", "set", "stat_succ", "stat_fail", "send"}]

CounterInv == CounterTypes /\ GetsAccounted

\* The GETs in progress can be counted.
LEMMA FiniteGets ==
    /\ IsFiniteSet(GetsInProgress)
    /\ Cardinality(GetsInProgress) \in Nat
<1>1. GetsInProgress \subseteq Worker
  BY DEF GetsInProgress
<1> QED
  BY <1>1, FS_Subset, FS_CardinalityType, DictionaryAssumption

\* Nothing is counted and no GET in progress at first.
LEMMA CounterInit == Init => CounterInv
<1> SUFFICES ASSUME Init PROVE CounterInv
  OBVIOUS
<1>1. GetsInProgress = {}
  BY DEF Init, GetsInProgress
<1> QED
  BY <1>1, FS_EmptySet DEF Init, StatsInit, CounterInv, CounterTypes, GetsAccounted

\* A GET is in progress from the step that counts it as a request to the one
\* that counts its outcome.
LEMMA CounterStep == CounterInv /\ [Next]_vars => CounterInv'
<1> SUFFICES ASSUME CounterInv, [Next]_vars
             PROVE  CounterInv'
  OBVIOUS
<1> USE DEF CounterInv, CounterTypes
<1>1. ASSUME NEW w \in Worker, NEW k, HandleGet(w, k)
      PROVE  CounterInv'
  <2>1. w \notin GetsInProgress /\ GetsInProgress' = GetsInProgress \cup {w}
    BY <1>1 DEF HandleGet, Handler, GetsInProgress
  <2>2. Cardinality(GetsInProgress)' = Cardinality(GetsInProgress) + 1
    BY <2>1, FiniteGets, FS_AddElement
  <2> QED
    BY <1>1, <2>2, FiniteGets DEF HandleGet, Handler, incrGetReq, GetsAccounted
<1>2. ASSUME NEW w \in Worker, FinishGet(w)
      PROVE  CounterInv'
  <2>1. w \in GetsInProgress /\ GetsInProgress' = GetsInProgress \ {w}
    BY <1>2 DEF FinishGet, Handler, GetsInProgress
  <2>2. Cardinality(GetsInProgress)' = Cardinality(GetsInProgress) - 1
    BY <2>1, FiniteGets, FS_RemoveElement
  <2> QED
    BY <1>2, <2>2, FiniteGets
    DEF FinishGet, Handler, incrGetReqSucc, incrGetReqFail, GetsAccounted
<1>3. ASSUME NEW w \in Worker, NEW k, NEW v,
             HandleSet(w, k, v) \/ FinishSet(w) \/ HandleStat(w) \/ StatSucc(w) \/ StatFail(w)
             \/ SendResponse(w)
      PROVE  CounterInv'
  <2>1. UNCHANGED statVars /\ \E from, to \in {"idle", "set", "stat_succ", "stat_fail", "send"} :
            Handler(w, from, to)
    BY <1>3 DEF HandleSet, FinishSet, HandleStat, StatSucc, StatFail, SendResponse
  <2>2. GetsInProgress' = GetsInProgress
    BY <2>1 DEF Handler, GetsInProgress
  <2> QED
    BY <2>1, <2>2 DEF Handler, statVars, GetsAccounted
<1>4. CASE UNCHANGED <<statVars, hpc>>
  BY <1>4 DEF statVars, GetsAccounted, GetsInProgress
<1> QED
  BY <1>1, <1>2, <1>3, <1>4
  DEF Next, Proceed, InMain, InDictionary, handlerVars, vars

\* Every GET counted as a request is counted as a success or a failure or its
\* handler still runs, however the increments of the workers interleave.
THEOREM GetsAccountedCorrect == Spec => []GetsAccounted
<1>1. CounterInv => GetsAccounted
  BY DEF CounterInv
<1> QED
  BY <1>1, CounterInit, CounterStep, PTL DEF Spec

-----------------------------------------------------------------------------
(* The replies.                                                            *)

\* A number narrowed to an int32 is one.
LEMMA ToWireType ==
    ASSUME NEW n \in Nat
    PROVE  ToWire(n) \in Int
<1> DEFINE width == 2 * (INT_MAX + 1)
<1>1. width \in Nat \ {0}
  BY HandlerAssumption
<1> HIDE DEF width
<1>2. n % width \in Int
  BY <1>1
<1> QED
  BY <1>1, <1>2 DEF ToWire, width

StatReply == [type : {"STAT"}, req : Int, succ : Int, fail : Int]

InStat(w) ==
    hpc[w] \in {"stat_succ", "stat_fail"} \/ (hpc[w] = "send" /\ reply[w].type = "STAT")

Others == Cardinality(Worker) - 1

\* What a STAT reply says while it is filled in: the requests were read first,
\* and what has been counted since can only be in the outcomes.
AfterRequests(w) ==
    \E req \in 0 .. m_numGetReq :
        reply[w].req = ToWire(req) /\ req <= m_numGetReqSucc + m_numGetReqFail + Others

AfterSuccesses(w) ==
    \E req \in 0 .. m_numGetReq, succ \in 0 .. m_numGetReqSucc :
        /\ reply[w].req = ToWire(req) /\ reply[w].succ = ToWire(succ)
        /\ req <= succ + m_numGetReqFail + Others

AfterFailures(w) ==
    \E req \in 0 .. m_numGetReq, succ \in 0 .. m_numGetReqSucc, fail \in 0 .. m_numGetReqFail :
        /\ reply[w].req = ToWire(req) /\ reply[w].succ = ToWire(succ) /\ reply[w].fail = ToWire(fail)
        /\ req <= succ + fail + Others

\* The inductive invariant of one worker's reply.
StatInvOf(w) ==
    /\ InStat(w) => reply[w] \in StatReply
    /\ hpc[w] = "stat_succ" => AfterRequests(w)
    /\ hpc[w] = "stat_fail" => AfterSuccesses(w)
    /\ hpc[w] = "send" /\ reply[w].type = "STAT" => AfterFailures(w)

StatInv ==
    /\ reply = [w \in Worker |-> reply[w]]
    /\ \A w \in Worker : StatInvOf(w)

\* The counters only grow.
LEMMA CountersGrow ==
    ASSUME CounterInv, [Next]_vars
    PROVE  /\ m_numGetReq' >= m_numGetReq
           /\ m_numGetReqSucc' >= m_numGetReqSucc
           /\ m_numGetReqFail' >= m_numGetReqFail
<1> DEFINE Grow == /\ m_numGetReq' >= m_numGetReq
                   /\ m_numGetReqSucc' >= m_numGetReqSucc
                   /\ m_numGetReqFail' >= m_numGetReqFail
<1> USE DEF CounterInv, CounterTypes
<1>1. ASSUME NEW w \in Worker, NEW k \in Key, HandleGet(w, k)
      PROVE  Grow
  BY <1>1 DEF HandleGet, incrGetReq
<1>2. ASSUME NEW w \in Worker, FinishGet(w)
      PROVE  Grow
  BY <1>2 DEF FinishGet, incrGetReqSucc, incrGetReqFail
<1>3. CASE UNCHANGED statVars
  BY <1>3 DEF statVars
<1>4. ASSUME NEW w \in Worker, NEW k, NEW v,
             HandleSet(w, k, v) \/ FinishSet(w) \/ HandleStat(w) \/ StatSucc(w) \/ StatFail(w)
             \/ SendResponse(w) \/ InDictionary(w)
      PROVE  Grow
  <2>1. UNCHANGED statVars
    BY <1>4 DEF HandleSet, FinishSet, HandleStat, StatSucc, StatFail, SendResponse,
                InDictionary
  <2> QED
    BY <1>3, <2>1
<1>5. CASE UNCHANGED vars \/ InMain
  BY <1>3, <1>5 DEF vars, InMain
<1>6. CASE Next
  BY <1>1, <1>2, <1>4, <1>5, <1>6 DEF Next, Proceed
<1> QED
  BY <1>5, <1>6

\* Outcomes that go up keep a bound on the requests.
LEMMA MoreFails ==
    ASSUME NEW req \in Int, NEW succ \in Int, NEW fail \in Int, NEW more \in Int, NEW others \in Int,
           req <= succ + fail + others, fail <= more
    PROVE  req <= succ + more + others
OBVIOUS

\* A worker that does nothing keeps its invariant while the counters grow.
LEMMA StatOfOthers ==
    ASSUME CounterInv, CounterInv', [Next]_vars, NEW u \in Worker, StatInvOf(u),
           hpc'[u] = hpc[u], reply'[u] = reply[u]
    PROVE  StatInvOf(u)'
<1> DEFINE n == m_numGetReq
           s == m_numGetReqSucc
           f == m_numGetReqFail
<1>1. /\ n \in Nat /\ s \in Nat /\ f \in Nat /\ n' \in Nat /\ s' \in Nat /\ f' \in Nat
      /\ n' >= n /\ s' >= s /\ f' >= f
  BY CountersGrow DEF CounterInv, CounterTypes
<1>2. Others \in Int
  BY FS_CardinalityType, DictionaryAssumption DEF Others
<1>3. ASSUME AfterRequests(u)
      PROVE  AfterRequests(u)'
  <2>1. PICK req \in 0 .. n : reply[u].req = ToWire(req) /\ req <= s + f + Others
    BY <1>3 DEF AfterRequests
  <2>2. req \in 0 .. n'
    BY <1>1
  <2>3. req \in Nat /\ req <= s + f + Others
    BY <1>1, <2>1
  <2>4. req <= s' + f' + Others
    BY <1>1, <1>2, <2>3
  <2> QED
    BY <2>1, <2>2, <2>4 DEF AfterRequests
<1>4. ASSUME AfterSuccesses(u)
      PROVE  AfterSuccesses(u)'
  <2>1. PICK req \in 0 .. n, succ \in 0 .. s :
            reply[u].req = ToWire(req) /\ reply[u].succ = ToWire(succ) /\ req <= succ + f + Others
    BY <1>4 DEF AfterSuccesses
  <2>2. req \in 0 .. n' /\ succ \in 0 .. s'
    BY <1>1
  <2>3. req \in Nat /\ succ \in Nat /\ req <= succ + f + Others
    BY <1>1, <2>1
  <2>4. succ \in Int /\ req \in Int /\ f \in Int /\ f' \in Int /\ f <= f'
    BY <1>1, <2>3
  <2>5. req <= succ + f' + Others
    BY <1>2, <2>3, <2>4, MoreFails, Zenon
  <2> QED
    BY <2>1, <2>2, <2>5 DEF AfterSuccesses
<1>5. ASSUME AfterFailures(u)
      PROVE  AfterFailures(u)'
  <2>1. PICK req \in 0 .. n, succ \in 0 .. s, fail \in 0 .. f :
            /\ reply[u].req = ToWire(req) /\ reply[u].succ = ToWire(succ)
            /\ reply[u].fail = ToWire(fail) /\ req <= succ + fail + Others
    BY <1>5 DEF AfterFailures
  <2>2. req \in 0 .. n' /\ succ \in 0 .. s' /\ fail \in 0 .. f'
    BY <1>1, <2>1
  <2> QED
    BY <2>1, <2>2 DEF AfterFailures
<1> QED
  BY <1>3, <1>4, <1>5 DEF StatInvOf, InStat

\* The worker that is asked for the numbers has no GET in progress itself.
LEMMA GetsOfOthers ==
    ASSUME NEW w \in Worker, hpc[w] = "idle"
    PROVE  Cardinality(GetsInProgress) <= Cardinality(Worker) - 1
<1>1. w \notin GetsInProgress /\ GetsInProgress \cup {w} \subseteq Worker
  BY DEF GetsInProgress
<1>2. Cardinality(GetsInProgress \cup {w}) = Cardinality(GetsInProgress) + 1
  BY <1>1, FiniteGets, FS_AddElement
<1>3. /\ Cardinality(GetsInProgress \cup {w}) <= Cardinality(Worker)
      /\ Cardinality(Worker) \in Nat
  BY <1>1, FS_Subset, FS_CardinalityType, DictionaryAssumption
<1> QED
  BY <1>2, <1>3, FiniteGets

\* Only the worker of a step changes its handler and its reply.
LEMMA OneHandler ==
    ASSUME StatInv, CounterInv, CounterInv', [Next]_vars, NEW w \in Worker, NEW h, NEW r,
           hpc' = [hpc EXCEPT ![w] = h], reply' = [reply EXCEPT ![w] = r], StatInvOf(w)'
    PROVE  StatInv'
<1>1. \A u \in Worker : u # w => StatInvOf(u)'
  BY StatOfOthers DEF StatInv, CounterInv, CounterTypes
<1>2. reply' = [u \in Worker |-> reply'[u]]
  BY DEF StatInv
<1> QED
  BY <1>1, <1>2 DEF StatInv

\* The steps of a worker that is not filling in a STAT reply afterwards.
LEMMA NotInStat ==
    ASSUME NEW w \in Worker, ~InStat(w)'
    PROVE  StatInvOf(w)'
BY DEF InStat, StatInvOf

\* The three reads of handleStatRequest, one lemma each.
LEMMA HandleStatStep ==
    ASSUME StatInv, CounterInv, CounterInv', [Next]_vars, NEW w \in Worker, HandleStat(w)
    PROVE  StatInv'
<1> DEFINE r == [type |-> "STAT", req |-> ToWire(m_numGetReq), succ |-> 0, fail |-> 0]
<1>1. /\ hpc[w] = "idle" /\ hpc' = [hpc EXCEPT ![w] = "stat_succ"]
      /\ reply' = [reply EXCEPT ![w] = r] /\ UNCHANGED statVars
  BY DEF HandleStat, Handler, Reply
<1>2. hpc'[w] = "stat_succ" /\ reply'[w] = r
  BY <1>1 DEF StatInv, CounterInv, CounterTypes
<1>3. r \in StatReply
  BY ToWireType DEF CounterInv, CounterTypes, StatReply
<1>4. /\ m_numGetReq \in 0 .. m_numGetReq
      /\ m_numGetReq <= m_numGetReqSucc + m_numGetReqFail + Others
  BY <1>1, GetsOfOthers, FiniteGets, FS_CardinalityType, DictionaryAssumption
  DEF CounterInv, CounterTypes, GetsAccounted, Others
<1>5. AfterRequests(w)'
  BY <1>1, <1>2, <1>4 DEF AfterRequests, statVars
<1>6. StatInvOf(w)'
  BY <1>2, <1>3, <1>5 DEF StatInvOf
<1> QED
  BY <1>1, <1>6, OneHandler

LEMMA StatSuccStep ==
    ASSUME StatInv, CounterInv, CounterInv', [Next]_vars, NEW w \in Worker, StatSucc(w)
    PROVE  StatInv'
<1> DEFINE r == [reply[w] EXCEPT !.succ = ToWire(m_numGetReqSucc)]
<1>1. /\ hpc[w] = "stat_succ" /\ hpc' = [hpc EXCEPT ![w] = "stat_fail"]
      /\ reply' = [reply EXCEPT ![w] = r] /\ UNCHANGED statVars
  BY DEF StatSucc, Handler
<1>2. hpc'[w] = "stat_fail" /\ reply'[w] = r
  BY <1>1 DEF StatInv, CounterInv, CounterTypes
<1>3. reply[w] \in StatReply /\ AfterRequests(w)
  BY <1>1 DEF StatInv, StatInvOf, InStat
<1>4. ToWire(m_numGetReqSucc) \in Int
  BY ToWireType DEF CounterInv, CounterTypes
<1>5. r \in StatReply /\ r.req = reply[w].req /\ r.succ = ToWire(m_numGetReqSucc)
  BY <1>3, <1>4 DEF StatReply
<1> HIDE DEF r
<1>6. PICK req \in 0 .. m_numGetReq :
          reply[w].req = ToWire(req) /\ req <= m_numGetReqSucc + m_numGetReqFail + Others
  BY <1>3 DEF AfterRequests
<1>7. m_numGetReqSucc \in 0 .. m_numGetReqSucc
  BY DEF CounterInv, CounterTypes
<1>8. AfterSuccesses(w)'
  BY <1>1, <1>2, <1>5, <1>6, <1>7 DEF AfterSuccesses, statVars
<1>9. StatInvOf(w)'
  BY <1>2, <1>5, <1>8 DEF StatInvOf
<1> QED
  BY <1>1, <1>9, OneHandler DEF r

LEMMA StatFailStep ==
    ASSUME StatInv, CounterInv, CounterInv', [Next]_vars, NEW w \in Worker, StatFail(w)
    PROVE  StatInv'
<1> DEFINE r == [reply[w] EXCEPT !.fail = ToWire(m_numGetReqFail)]
<1>1. /\ hpc[w] = "stat_fail" /\ hpc' = [hpc EXCEPT ![w] = "send"]
      /\ reply' = [reply EXCEPT ![w] = r] /\ UNCHANGED statVars
  BY DEF StatFail, Handler
<1>2. hpc'[w] = "send" /\ reply'[w] = r
  BY <1>1 DEF StatInv, CounterInv, CounterTypes
<1>3. reply[w] \in StatReply /\ AfterSuccesses(w)
  BY <1>1 DEF StatInv, StatInvOf, InStat
<1>4. ToWire(m_numGetReqFail) \in Int
  BY ToWireType DEF CounterInv, CounterTypes
<1>5. /\ r \in StatReply /\ r.req = reply[w].req /\ r.succ = reply[w].succ
      /\ r.fail = ToWire(m_numGetReqFail)
  BY <1>3, <1>4 DEF StatReply
<1> HIDE DEF r
<1>6. PICK req \in 0 .. m_numGetReq, succ \in 0 .. m_numGetReqSucc :
          /\ reply[w].req = ToWire(req) /\ reply[w].succ = ToWire(succ)
          /\ req <= succ + m_numGetReqFail + Others
  BY <1>3 DEF AfterSuccesses
<1>7. m_numGetReqFail \in 0 .. m_numGetReqFail
  BY DEF CounterInv, CounterTypes
<1>8. AfterFailures(w)'
  BY <1>1, <1>2, <1>5, <1>6, <1>7 DEF AfterFailures, statVars
<1>9. StatInvOf(w)'
  BY <1>2, <1>5, <1>8 DEF StatInvOf
<1> QED
  BY <1>1, <1>9, OneHandler DEF r

\* StatInv survives every step.
LEMMA StatStep == StatInv /\ CounterInv /\ CounterInv' /\ [Next]_vars => StatInv'
<1> SUFFICES ASSUME StatInv, CounterInv, CounterInv', [Next]_vars
             PROVE  StatInv'
  OBVIOUS
<1>1. ASSUME NEW w \in Worker, HandleStat(w) \/ StatSucc(w) \/ StatFail(w)
      PROVE  StatInv'
  BY <1>1, HandleStatStep, StatSuccStep, StatFailStep
<1>2. ASSUME NEW w \in Worker, NEW k, NEW v, HandleGet(w, k) \/ HandleSet(w, k, v)
      PROVE  StatInv'
  <2>1. PICK h \in {"get", "set"} : hpc' = [hpc EXCEPT ![w] = h]
    BY <1>2 DEF HandleGet, HandleSet, Handler
  <2>2. reply' = reply /\ reply' = [reply EXCEPT ![w] = reply[w]]
    BY <1>2 DEF HandleGet, HandleSet, StatInv
  <2>3. ~InStat(w)'
    BY <2>1 DEF InStat, CounterInv, CounterTypes
  <2> QED
    BY <2>1, <2>2, <2>3, NotInStat, OneHandler
<1>3. ASSUME NEW w \in Worker, FinishGet(w) \/ FinishSet(w) \/ SendResponse(w)
      PROVE  StatInv'
  <2>1. PICK h \in {"send", "idle"} : hpc' = [hpc EXCEPT ![w] = h]
    BY <1>3 DEF FinishGet, FinishSet, SendResponse, Handler
  <2> DEFINE Other(r) == reply' = [reply EXCEPT ![w] = r] /\ r.type # "STAT"
  <2>2. \E r : Other(r)
    <3>1. ASSUME NEW f, GetReply(w, f)
          PROVE  Other([type |-> "GET", field |-> f, text |-> val[w]])
      BY <3>1 DEF GetReply, Reply
    <3>2. CASE FinishSet(w)
      <4>1. Other([type |-> "SET", field |-> IF ret[w] THEN "value" ELSE "reason"])
        BY <3>2 DEF FinishSet, Reply
      <4> QED
        BY <4>1
    <3>3. CASE SendResponse(w)
      <4>1. Other(NoReply)
        BY <3>3 DEF SendResponse, Reply, NoReply
      <4> QED
        BY <4>1
    <3> HIDE DEF Other
    <3> QED
      BY <1>3, <3>1, <3>2, <3>3 DEF FinishGet
  <2>3. PICK r : Other(r)
    BY <2>2
  <2>4. ~InStat(w)'
    BY <2>1, <2>3 DEF InStat, StatInv, CounterInv, CounterTypes
  <2> QED
    BY <2>1, <2>3, <2>4, NotInStat, OneHandler
<1>4. CASE UNCHANGED <<hpc, reply>>
  BY <1>4, StatOfOthers DEF StatInv
<1> QED
  BY <1>1, <1>2, <1>3, <1>4 DEF Next, Proceed, InMain, InDictionary, handlerVars, vars

\* A STAT reply is three reads in three moments of counters that other workers
\* increment.  As the requests are read first they exceed the outcomes by the
\* GETs of the other workers at most, and the outcomes exceed them only by GETs
\* begun since; so it is of the counts, for any width they are narrowed to.
THEOREM StatReportCorrect == Spec => []StatReportSound
<1>1. Init => StatInv
  BY DEF Init, StatInv, StatInvOf, InStat, NoReply
<1>2. StatInv /\ CounterInv => StatReportSound
  <2> SUFFICES ASSUME StatInv, CounterInv, NEW w \in Worker, hpc[w] = "send", reply[w].type = "STAT"
               PROVE  \E req \in 0 .. m_numGetReq, succ \in 0 .. m_numGetReqSucc,
                         fail \in 0 .. m_numGetReqFail :
                        /\ reply[w] = [type |-> "STAT", req |-> ToWire(req), succ |-> ToWire(succ),
                                       fail |-> ToWire(fail)]
                        /\ req <= succ + fail + Cardinality(Worker) - 1
                        /\ succ + fail - req <= m_numGetReq - req
    BY DEF StatReportSound
  <2>1. reply[w] \in StatReply /\ AfterFailures(w)
    BY DEF StatInv, StatInvOf, InStat
  <2>2. PICK req \in 0 .. m_numGetReq, succ \in 0 .. m_numGetReqSucc, fail \in 0 .. m_numGetReqFail :
            /\ reply[w].req = ToWire(req) /\ reply[w].succ = ToWire(succ)
            /\ reply[w].fail = ToWire(fail)
            /\ req <= succ + fail + Others
    BY <2>1 DEF AfterFailures
  <2>3. reply[w] = [type |-> "STAT", req |-> ToWire(req), succ |-> ToWire(succ), fail |-> ToWire(fail)]
    BY <2>1, <2>2 DEF StatReply
  <2>4. Cardinality(Worker) \in Nat /\ m_numGetReqSucc + m_numGetReqFail <= m_numGetReq
    BY FiniteGets, FS_CardinalityType, DictionaryAssumption DEF CounterInv, CounterTypes, GetsAccounted
  <2>5. /\ req <= succ + fail + Cardinality(Worker) - 1
        /\ succ + fail - req <= m_numGetReq - req
    BY <2>2, <2>4 DEF Others, CounterInv, CounterTypes
  <2> QED
    BY <2>2, <2>3, <2>5
<1> QED
  BY <1>1, <1>2, CounterInit, CounterStep, StatStep, PTL DEF Spec

\* Only FinishGet makes a GET reply, and the field it chooses is that of the
\* dictionary's answer.
LEMMA ReasonStep ==
    GetTellsSuccess /\ StatInv /\ ReasonOnlyOnMiss /\ [Next]_vars => ReasonOnlyOnMiss'
<1> SUFFICES ASSUME GetTellsSuccess, StatInv, ReasonOnlyOnMiss, [Next]_vars
             PROVE  ReasonOnlyOnMiss'
  OBVIOUS
<1> DEFINE Right(r) == r.type = "GET" => (r.field = "value" <=> r.text \in Value)
<1>1. ASSUME NEW w \in Worker, NEW r, reply' = [reply EXCEPT ![w] = r], Right(r)
      PROVE  ReasonOnlyOnMiss'
  BY <1>1 DEF StatInv, ReasonOnlyOnMiss
<1>2. ASSUME NEW w \in Worker, FinishGet(w)
      PROVE  ReasonOnlyOnMiss'
  <2>1. ret[w] <=> val[w] \in Value
    BY <1>2 DEF FinishGet, GetTellsSuccess
  <2>2. CASE ret[w]
    <3>1. reply' = [reply EXCEPT ![w] = [type |-> "GET", field |-> "value", text |-> val[w]]]
      BY <1>2, <2>2 DEF FinishGet, GetReply, Reply
    <3> QED
      BY <1>1, <2>1, <2>2, <3>1
  <2>3. CASE ~ret[w]
    <3>1. reply' = [reply EXCEPT ![w] = [type |-> "GET", field |-> "reason", text |-> val[w]]]
      BY <1>2, <2>3 DEF FinishGet, GetReply, Reply
    <3> QED
      BY <1>1, <2>1, <2>3, <3>1
  <2> QED
    BY <2>2, <2>3
<1>3. ASSUME NEW w \in Worker, FinishSet(w) \/ HandleStat(w) \/ SendResponse(w)
      PROVE  ReasonOnlyOnMiss'
  <2>1. CASE FinishSet(w)
    <3> DEFINE r == [type |-> "SET", field |-> IF ret[w] THEN "value" ELSE "reason"]
    <3>1. reply' = [reply EXCEPT ![w] = r]
      BY <2>1 DEF FinishSet, Reply
    <3>2. Right(r)
      OBVIOUS
    <3> QED
      BY <1>1, <3>1, <3>2
  <2>2. CASE HandleStat(w)
    <3> DEFINE r == [type |-> "STAT", req |-> ToWire(m_numGetReq), succ |-> 0, fail |-> 0]
    <3>1. reply' = [reply EXCEPT ![w] = r]
      BY <2>2 DEF HandleStat, Reply
    <3>2. Right(r)
      OBVIOUS
    <3> QED
      BY <1>1, <3>1, <3>2
  <2>3. CASE SendResponse(w)
    BY <1>1, <2>3 DEF SendResponse, Reply, NoReply
  <2> QED
    BY <1>3, <2>1, <2>2, <2>3
<1>4. ASSUME NEW w \in Worker, StatSucc(w) \/ StatFail(w)
      PROVE  ReasonOnlyOnMiss'
  <2>1. reply[w] \in StatReply
    BY <1>4 DEF StatSucc, StatFail, Handler, StatInv, StatInvOf, InStat
  <2>2. CASE StatSucc(w)
    <3>1. reply' = [reply EXCEPT ![w] = [reply[w] EXCEPT !.succ = ToWire(m_numGetReqSucc)]]
      BY <2>2 DEF StatSucc
    <3> QED
      BY <1>1, <2>1, <3>1 DEF StatReply
  <2>3. CASE StatFail(w)
    <3>1. reply' = [reply EXCEPT ![w] = [reply[w] EXCEPT !.fail = ToWire(m_numGetReqFail)]]
      BY <2>3 DEF StatFail
    <3> QED
      BY <1>1, <2>1, <3>1 DEF StatReply
  <2> QED
    BY <1>4, <2>2, <2>3
<1>5. CASE UNCHANGED reply
  BY <1>5 DEF ReasonOnlyOnMiss
<1> QED
  BY <1>2, <1>3, <1>4, <1>5
  DEF Next, Proceed, HandleGet, HandleSet, InMain, InDictionary, handlerVars, vars

\* Without the filter a client that looks at value sees every key that is
\* there, and reason is filled for misses only, as the comment in
\* handleGetRequest says.
THEOREM ReasonCorrect ==
    ASSUME ~bloomRequested
    PROVE  Spec => []ReasonOnlyOnMiss
<1>1. Init => StatInv /\ ReasonOnlyOnMiss
  BY DEF Init, StatInv, StatInvOf, InStat, NoReply, ReasonOnlyOnMiss
<1>2. Spec => []GetTellsSuccess
  BY HandlersUseDictionary, GetTellsSuccessCorrect, PTL
<1> QED
  BY <1>1, <1>2, CounterInit, CounterStep, StatStep, ReasonStep, PTL DEF Spec
=============================================================================
