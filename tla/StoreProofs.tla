---------------------------- MODULE StoreProofs ----------------------------
(***************************************************************************)
(* The dictionary is linearizable: a proof, for any number of workers,     *)
(* keys, hashes and capacity, that set and get with their separate size    *)
(* check, lock, filter and map steps implement the atomic KeyValueStore.   *)
(* A SET takes effect when it stores, or when the check refuses it; a GET  *)
(* when it looks, under the mutex.                                         *)
(***************************************************************************)
EXTENDS DictionaryProofs

calls == [w \in Worker |-> CallOf(w)]
answers == [w \in Worker |-> AnswerOf(w)]

\* get is called with an empty out parameter and touches it last.
OutParamInv == \A w \in Worker : pc[w] \in GetPc => val[w] = EmptyString

\* All that the refinement needs to know of a state.
StoreInv == SizeInv /\ StartupInv /\ FilterInv /\ OutParamInv

-----------------------------------------------------------------------------
(* What the store sees of a step of one worker.                            *)

\* The frames of the other workers stay as they are.
OnlyFrameOf(w) ==
    \A u \in Worker \ {w} :
        pc'[u] = pc[u] /\ key'[u] = key[u] /\ val'[u] = val[u] /\ ret'[u] = ret[u]

\* A step of one worker changes one call and one answer at most.
LEMMA OneCall ==
    ASSUME NEW w \in Worker, OnlyFrameOf(w)
    PROVE  /\ calls' = [calls EXCEPT ![w] = CallOf(w)']
           /\ answers' = [answers EXCEPT ![w] = AnswerOf(w)']
<1>1. \A u \in Worker \ {w} : CallOf(u)' = CallOf(u) /\ AnswerOf(u)' = AnswerOf(u)
  BY DEF OnlyFrameOf, CallOf, AnswerOf
<1> QED
  BY <1>1 DEF calls, answers

\* A step that changes none of the four is none of the store's.
LEMMA SameCalls ==
    ASSUME UNCHANGED frame
    PROVE  UNCHANGED <<calls, answers>>
BY DEF frame, calls, answers, CallOf, AnswerOf

\* The instance counts as the dictionary does.
LEMMA SameCardinality ==
    ASSUME NEW S
    PROVE  Store!Cardinality(S) = Cardinality(S)
BY DEF Store!Cardinality, Cardinality

\* A call that begins is one of the store.
LEMMA CallIsCall ==
    ASSUME TypeInv, NEW w \in Worker, NEW r \in Store!Request,
           pc[w] = "idle", OnlyFrameOf(w), UNCHANGED m_dict,
           CallOf(w)' = r, AnswerOf(w)' = AnswerOf(w)
    PROVE  Store!Next
<1>1. calls' = [calls EXCEPT ![w] = r] /\ answers' = answers
  BY OneCall DEF answers
<1>2. calls[w] = Store!Idle
  BY DEF calls, CallOf, Store!Idle
<1>3. Store!Call(w, r)
  BY <1>1, <1>2 DEF Store!Call, calls, answers
<1> QED
  BY <1>3 DEF Store!Next

\* So is one that returns.
LEMMA ReturnIsReturn ==
    ASSUME TypeInv, Store!NoAnswer \notin Value, NEW w \in Worker, Return(w)
    PROVE  Store!Next
<1>1. OnlyFrameOf(w) /\ pc'[w] = "idle"
  BY DEF Return, Goto, OnlyFrameOf, TypeInv, DictTypeOK
<1>2. AnswerOf(w) # Store!NoAnswer
  BY DEF Return, AnswerOf, Store!NoAnswer, TypeInv, DictTypeOK, NOT_FOUND, EmptyString
<1>3. CallOf(w)' = Store!Idle /\ AnswerOf(w)' = Store!NoAnswer
  BY <1>1 DEF CallOf, AnswerOf, Store!Idle, Store!NoAnswer
<1>4. /\ calls' = [calls EXCEPT ![w] = Store!Idle]
      /\ answers' = [answers EXCEPT ![w] = Store!NoAnswer]
  BY <1>1, <1>3, OneCall
<1>5. m_dict' = m_dict /\ answers[w] # Store!NoAnswer
  BY <1>2 DEF Return, answers
<1>6. Store!Return(w)
  BY <1>4, <1>5 DEF Store!Return, calls, answers
<1> QED
  BY <1>6 DEF Store!Next

\* A step that decides the answer of a call.
LEMMA AnswerIsAnswer ==
    ASSUME NEW w \in Worker, OnlyFrameOf(w), CallOf(w)' = CallOf(w)
    PROVE  Store!Answer(w, AnswerOf(w)')
<1>1. calls' = calls /\ answers' = [answers EXCEPT ![w] = AnswerOf(w)']
  BY OneCall DEF calls
<1> QED
  BY <1>1 DEF Store!Answer, calls, answers

-----------------------------------------------------------------------------
(* The invariant.                                                          *)

\* The out parameter of a get stays empty until it returns.
LEMMA OutParamStep == TypeInv /\ OutParamInv /\ [DictNext]_dictVars => OutParamInv'
<1> SUFFICES ASSUME TypeInv, OutParamInv, [DictNext]_dictVars
             PROVE  OutParamInv'
  OBVIOUS
<1> USE DEF TypeInv, DictTypeOK, OutParamInv, GetPc
<1>1. ASSUME NEW w \in Worker, NEW k, NEW v, SetCall(w, k, v) \/ GetCall(w, k)
      PROVE  OutParamInv'
  BY <1>1 DEF SetCall, GetCall, Enter, Goto
<1>2. ASSUME NEW w \in Worker, SetCheck(w) \/ SetLock(w) \/ SetInsert(w) \/ SetStore(w)
      PROVE  OutParamInv'
  BY <1>2 DEF SetCheck, SetLock, Lock, SetInsert, SetStore, Goto
<1>3. ASSUME NEW w \in Worker, GetLock(w)
      PROVE  OutParamInv'
  BY <1>3 DEF GetLock, Lock, Goto
<1>4. ASSUME NEW w \in Worker, NEW v, NEW r, GetReturn(w, v, r)
      PROVE  OutParamInv'
  BY <1>4 DEF GetReturn, Goto
<1>5. ASSUME NEW w \in Worker, Return(w)
      PROVE  OutParamInv'
  BY <1>5 DEF Return, Goto
<1>6. CASE UNCHANGED frame
  BY <1>6 DEF frame
<1> QED
  BY <1>1, <1>2, <1>3, <1>4, <1>5, <1>6
  DEF DictNext, MainStep, EnableBloomFilter, InitBloomFilters, CallStep, GetFind, GetContains,
      NullDereference, dictVars, frame

\* The invariants of DictionaryProofs and the out parameter, together.
LEMMA StoreInvariant ==
    ASSUME ~StartupRace
    PROVE  DictSpec => []StoreInv
<1>1. DictInit => StoreInv
  BY SizeInit, StartupInit DEF StoreInv, FilterInv, OutParamInv, DictInit, GetPc
<1>2. StoreInv /\ [DictNext]_dictVars => StoreInv'
  BY SizeStep, StartupStep, FilterStep, OutParamStep DEF StoreInv, SizeInv
<1> QED
  BY <1>1, <1>2, PTL DEF DictSpec

-----------------------------------------------------------------------------
(* The steps.                                                              *)

\* The check begins to answer only when it refuses, and the map is full then.
LEMMA SetCheckIsRefuse ==
    ASSUME StoreInv, NEW w \in Worker, SetCheck(w)
    PROVE  Store!Next \/ UNCHANGED Store!vars
<1>1. OnlyFrameOf(w) /\ CallOf(w)' = CallOf(w) /\ m_dict' = m_dict
  BY DEF SetCheck, Goto, OnlyFrameOf, CallOf, SetPc, StoreInv, SizeInv, TypeInv, DictTypeOK
<1>2. calls[w].op = "set" /\ answers[w] = Store!NoAnswer
  BY DEF SetCheck, calls, answers, CallOf, AnswerOf, Store!NoAnswer, SetPc
<1>3. CASE Size >= MAX_DICT_SIZE
  <2>1. pc'[w] = "set_returned" /\ ret'[w] = FALSE
    BY <1>3 DEF SetCheck, Goto, StoreInv, SizeInv, TypeInv, DictTypeOK
  <2>2. AnswerOf(w)' = "refused"
    BY <2>1 DEF AnswerOf
  <2>3. Store!Answer(w, "refused")
    BY <1>1, <2>2, AnswerIsAnswer
  <2>4. Store!Refuse(w)
    BY <1>1, <1>2, <1>3, <2>3, SameCardinality DEF Store!Refuse, Store!Pending, calls, answers, Size
  <2> QED
    BY <2>4 DEF Store!Next
<1>4. CASE ~(Size >= MAX_DICT_SIZE)
  <2>1. pc'[w] = "set_lock"
    BY <1>4 DEF SetCheck, Goto, StoreInv, SizeInv, TypeInv, DictTypeOK
  <2>2. AnswerOf(w)' = AnswerOf(w)
    BY <2>1 DEF SetCheck, AnswerOf
  <2>3. UNCHANGED <<calls, answers>>
    BY <1>1, <2>2, OneCall DEF calls, answers
  <2> QED
    BY <1>1, <2>3 DEF Store!vars, calls, answers
<1> QED
  BY <1>3, <1>4

\* Taking the mutex and inserting into the filter are not seen.
LEMMA LockIsStutter ==
    ASSUME StoreInv, NEW w \in Worker, SetLock(w) \/ GetLock(w) \/ SetInsert(w)
    PROVE  UNCHANGED Store!vars
<1>1. OnlyFrameOf(w) /\ m_dict' = m_dict
  BY DEF SetLock, GetLock, SetInsert, Lock, Goto, OnlyFrameOf, StoreInv, SizeInv, TypeInv, DictTypeOK
<1>2. /\ (pc[w] \in SetPc /\ pc'[w] \in SetPc) \/ (pc[w] \in GetPc /\ pc'[w] \in GetPc)
      /\ key' = key /\ val' = val
  BY DEF SetLock, GetLock, SetInsert, Lock, Goto, SetPc, GetPc, StoreInv, SizeInv, TypeInv, DictTypeOK
<1>3. CallOf(w)' = CallOf(w) /\ AnswerOf(w)' = AnswerOf(w)
  BY <1>2 DEF CallOf, AnswerOf, SetPc, GetPc
<1>4. UNCHANGED <<calls, answers>>
  BY <1>1, <1>3, OneCall DEF calls, answers
<1> QED
  BY <1>1, <1>4 DEF Store!vars, calls, answers

\* The bound on the size leaves room for the key of every set that passed the
\* check.
LEMMA SetStoreIsStore ==
    ASSUME StoreInv, NEW w \in Worker, SetStore(w)
    PROVE  Store!Next
<1> DEFINE k == key[w]
<1>1. /\ OnlyFrameOf(w) /\ CallOf(w)' = CallOf(w)
      /\ pc'[w] = "set_returned" /\ ret'[w] = TRUE
  BY DEF SetStore, Goto, OnlyFrameOf, CallOf, SetPc, StoreInv, SizeInv, TypeInv, DictTypeOK
<1>2. AnswerOf(w)' = "stored"
  BY <1>1 DEF AnswerOf
<1>3. Store!Answer(w, "stored")
  BY <1>1, <1>2, AnswerIsAnswer
<1>4. calls[w] = [op |-> "set", key |-> k, val |-> val[w]] /\ answers[w] = Store!NoAnswer
  BY DEF SetStore, calls, answers, CallOf, AnswerOf, SetPc, Store!NoAnswer
<1>5. Cardinality(DOMAIN m_dict \cup {k}) <= MAX_DICT_SIZE + (Cardinality(Worker) - 1)
  <2>1. Cardinality(Committed) >= 1
    <3>1. w \in Committed
      BY DEF SetStore, Committed
    <3>2. Cardinality(Committed) # 0 /\ Cardinality(Committed) \in Nat
      BY <3>1, FiniteSizes, FS_EmptySet DEF StoreInv, SizeInv
    <3> QED
      BY <3>2
  <2>2. /\ Cardinality(DOMAIN m_dict \cup {k}) \in {Size, Size + 1}
        /\ Size \in Nat /\ Cardinality(Committed) \in Nat /\ Cardinality(Worker) \in Nat
    BY FiniteSizes, FS_AddElement DEF StoreInv, SizeInv, Size
  <2>3. Size + Cardinality(Committed) <= MAX_DICT_SIZE + Cardinality(Worker) - 1
    BY DEF StoreInv, SizeInv, BoundInv
  <2> QED
    BY <2>1, <2>2, <2>3, DictionaryAssumption
<1>6. m_dict' = [j \in DOMAIN m_dict \cup {k} |-> IF j = k THEN val[w] ELSE m_dict[j]]
  BY DEF SetStore
<1>7. Store!Store(w)
  BY <1>3, <1>4, <1>5, <1>6, SameCardinality DEF Store!Store, Store!Pending, calls, answers
<1> QED
  BY <1>7 DEF Store!Next

\* A get that returns has found what the map held in that moment; the filter
\* answers for the map because it has no false negatives.
LEMMA GetIsFind ==
    ASSUME StoreInv, NEW w \in Worker, GetFind(w) \/ GetContains(w)
    PROVE  Store!Next
<1> DEFINE k == key[w]
<1> DEFINE Right(v) == IF k \in DOMAIN m_dict THEN v = m_dict[k] ELSE v \in {NOT_FOUND, EmptyString}
<1>1. \E v : Right(v) /\ \E r : GetReturn(w, v, r)
  <2>1. CASE GetFind(w)
    <3>1. CASE k \in DOMAIN m_dict
      <4>1. GetReturn(w, m_dict[k], TRUE)
        BY <2>1, <3>1 DEF GetFind
      <4> QED
        BY <3>1, <4>1
    <3>2. CASE k \notin DOMAIN m_dict
      <4>1. GetReturn(w, NOT_FOUND, FALSE)
        BY <2>1, <3>2 DEF GetFind
      <4> QED
        BY <3>2, <4>1
    <3> QED
      BY <3>1, <3>2
  <2>2. CASE GetContains(w)
    <3>1. m_bloomFilter /\ m_bloomFilterEnabled /\ val[w] = EmptyString
      BY <2>2 DEF GetContains, StoreInv, StartupInv, UsesFilter, OutParamInv, GetPc
    <3>2. CASE k \in DOMAIN m_dict
      <4>1. contains(bit_table_, k)
        BY <3>1, <3>2 DEF StoreInv, FilterInv
      <4>2. GetReturn(w, m_dict[k], FALSE)
        BY <2>2, <3>2, <4>1 DEF GetContains
      <4> QED
        BY <3>2, <4>2
    <3>3. CASE k \notin DOMAIN m_dict
      <4>1. GetReturn(w, EmptyString, FALSE) \/ GetReturn(w, NOT_FOUND, FALSE)
        BY <2>2, <3>1, <3>3 DEF GetContains
      <4> QED
        BY <3>3, <4>1
    <3> QED
      BY <3>2, <3>3
  <2> QED
    BY <2>1, <2>2
<1> PICK v : Right(v) /\ \E r : GetReturn(w, v, r)
  BY <1>1
<1>2. pc[w] \in {"get_find", "get_contains"}
  BY DEF GetFind, GetContains
<1>3. /\ OnlyFrameOf(w) /\ m_dict' = m_dict /\ key' = key
      /\ pc'[w] = "get_returned" /\ val'[w] = v
  BY DEF GetReturn, Goto, OnlyFrameOf, StoreInv, SizeInv, TypeInv, DictTypeOK
<1>4. CallOf(w) = [op |-> "get", key |-> k] /\ CallOf(w)' = CallOf(w)
  BY <1>2, <1>3 DEF CallOf, SetPc
<1>5. AnswerOf(w) = Store!NoAnswer /\ AnswerOf(w)' = v
  BY <1>2, <1>3 DEF AnswerOf, Store!NoAnswer
<1>6. Store!Answer(w, v)
  BY <1>3, <1>4, <1>5, AnswerIsAnswer
<1>7. calls[w] = [op |-> "get", key |-> k] /\ answers[w] = Store!NoAnswer
  BY <1>4, <1>5 DEF calls, answers
<1>8. CASE k \in DOMAIN m_dict
  <2>1. Store!Answer(w, m_dict[k])
    BY <1>6, <1>8
  <2>2. Store!Find(w)
    BY <1>3, <1>7, <1>8, <2>1 DEF Store!Find, Store!Pending, calls, answers
  <2> QED
    BY <2>2 DEF Store!Next
<1>9. CASE k \notin DOMAIN m_dict
  <2>1. v \in {NOT_FOUND, EmptyString}
    BY <1>9
  <2>2. Store!Find(w)
    BY <1>3, <1>6, <1>7, <1>9, <2>1 DEF Store!Find, Store!Pending, calls, answers
  <2> QED
    BY <2>2 DEF Store!Next
<1> QED
  BY <1>8, <1>9

\* Every step of the dictionary is a step of the store or none.
LEMMA StoreStep ==
    ASSUME Store!NoAnswer \notin Value
    PROVE  StoreInv /\ [DictNext]_dictVars => [Store!Next]_Store!vars
<1> SUFFICES ASSUME StoreInv, [DictNext]_dictVars
             PROVE  Store!Next \/ UNCHANGED Store!vars
  OBVIOUS
<1>1. ASSUME NEW w \in Worker, NEW k \in Key, NEW v \in Value, SetCall(w, k, v)
      PROVE  Store!Next
  <2> DEFINE r == [op |-> "set", key |-> k, val |-> v]
  <2>1. /\ pc[w] = "idle" /\ OnlyFrameOf(w) /\ m_dict' = m_dict
        /\ pc'[w] = "set_check" /\ key'[w] = k /\ val'[w] = v
    BY <1>1 DEF SetCall, Enter, Goto, OnlyFrameOf, StoreInv, SizeInv, TypeInv, DictTypeOK
  <2>2. CallOf(w)' = r /\ AnswerOf(w)' = AnswerOf(w)
    BY <2>1 DEF CallOf, AnswerOf, SetPc
  <2>3. r \in Store!Request
    BY DEF Store!Request
  <2> QED
    BY <2>1, <2>2, <2>3, CallIsCall DEF StoreInv, SizeInv
<1>2. ASSUME NEW w \in Worker, NEW k \in Key, GetCall(w, k)
      PROVE  Store!Next
  <2> DEFINE r == [op |-> "get", key |-> k]
  <2>1. /\ pc[w] = "idle" /\ OnlyFrameOf(w) /\ m_dict' = m_dict
        /\ pc'[w] = "get_lock" /\ key'[w] = k
    BY <1>2 DEF GetCall, Enter, Goto, OnlyFrameOf, StoreInv, SizeInv, TypeInv, DictTypeOK
  <2>2. CallOf(w)' = r /\ AnswerOf(w)' = AnswerOf(w)
    BY <2>1 DEF CallOf, AnswerOf, SetPc
  <2>3. r \in Store!Request
    BY DEF Store!Request
  <2> QED
    BY <2>1, <2>2, <2>3, CallIsCall DEF StoreInv, SizeInv
<1>3. ASSUME NEW w \in Worker, Return(w)
      PROVE  Store!Next
  BY <1>3, ReturnIsReturn DEF StoreInv, SizeInv
<1>4. ASSUME NEW w \in Worker, CallStep(w), ~NullDereference(w)
      PROVE  Store!Next \/ UNCHANGED Store!vars
  BY <1>4, SetCheckIsRefuse, LockIsStutter, SetStoreIsStore, GetIsFind DEF CallStep
<1>5. CASE UNCHANGED <<m_dict, frame>>
  <2>1. UNCHANGED <<calls, answers>>
    BY <1>5, SameCalls
  <2> QED
    BY <1>5, <2>1 DEF Store!vars, calls, answers
<1> QED
  BY <1>1, <1>2, <1>3, <1>4, <1>5
  DEF DictNext, MainStep, EnableBloomFilter, InitBloomFilters, NullDereference, dictVars

\* Set and get are linearizable whatever the interleaving of their steps, with
\* or without the filter, when no request is served before start() returns.
\* (The mark for a call without an answer is not one of the values.)
THEOREM StoreCorrect ==
    ASSUME ~StartupRace, Store!NoAnswer \notin Value
    PROVE  DictSpec => ImplementsStore
<1>1. DictInit => Store!Init
  <2> SUFFICES ASSUME DictInit PROVE Store!Init
    OBVIOUS
  <2>1. \A w \in Worker : CallOf(w) = Store!Idle /\ AnswerOf(w) = Store!NoAnswer
    BY DEF DictInit, CallOf, AnswerOf, Store!Idle, Store!NoAnswer
  <2> QED
    BY <2>1 DEF DictInit, Store!Init
<1> QED
  BY <1>1, StoreInvariant, StoreStep, PTL DEF DictSpec, ImplementsStore, Store!Spec
=============================================================================
