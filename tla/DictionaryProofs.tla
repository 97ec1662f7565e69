-------------------------- MODULE DictionaryProofs --------------------------
(***************************************************************************)
(* Proofs about Dictionary, for any number of workers, keys, hashes and    *)
(* capacity: types, the bound on the size that the unlocked check leaves,  *)
(* where the process can meet the null filter, and that the filter has no  *)
(* false negatives when it is in place before the first request.           *)
(***************************************************************************)
EXTENDS Dictionary, FiniteSetTheorems, TLAPS

\* What a running call knows of its own frame.
FrameOK ==
    \A w \in Worker :
        /\ pc[w] # "idle" => key[w] \in Key
        /\ pc[w] \in SetPc => val[w] \in Value

TypeInv == DictTypeOK /\ FrameOK

-----------------------------------------------------------------------------
(* The bloom filter.                                                       *)

\* A bit index computed from a hash is a bit of the table: insert and
\* contains never leave bit_table_.
LEMMA BitInTable ==
    ASSUME NEW hash \in Nat
    PROVE  BitOf(hash) \in Bit
<1> DEFINE i == hash % table_size_
<1>1. table_size_ \in Nat /\ table_size_ > 0 /\ table_size_ % 8 = 0
  BY BloomAssumption DEF WholeBytes, bits_per_char
<1>2. i \in 0 .. table_size_ - 1
  BY <1>1
<1>3. PICK n \in Nat : table_size_ = 8 * n
  BY <1>1
<1>4. i \div 8 \in 0 .. table_size_ \div 8 - 1
  BY <1>2, <1>3
<1>5. i % 8 \in 0 .. 7
  BY <1>2
<1> QED
  BY <1>4, <1>5 DEF BitOf, Bit, bits_per_char

\* The same for all the bits of a key.
LEMMA BitsInTable ==
    ASSUME NEW k \in Key
    PROVE  BitsOf(k) \subseteq Bit
<1>1. \A s \in Salt : hash_ap(k, s) \in Nat
  BY BloomAssumption DEF hash_ap
<1> QED
  BY <1>1, BitInTable DEF BitsOf

\* insert: the key is contained afterwards, and so is whatever was before.
LEMMA InsertContains ==
    ASSUME NEW table, NEW k, NEW j
    PROVE  /\ contains(insert(table, k), k)
           /\ contains(table, j) => contains(insert(table, k), j)
BY DEF contains, insert

-----------------------------------------------------------------------------
(* Types.                                                                  *)

\* Initially the types are right.
LEMMA TypeInit == DictInit => TypeInv
BY DEF DictInit, TypeInv, DictTypeOK, FrameOK, EmptyTable, PC, SetPc, GetPc, Bit

\* What a get can find or answer is a value, NOT_FOUND or its empty string.
LEMMA GetAnswers ==
    ASSUME TypeInv, NEW w \in Worker
    PROVE  /\ key[w] \in DOMAIN m_dict => m_dict[key[w]] \in Value
           /\ val[w] \in Value \cup {NOT_FOUND, EmptyString}
BY DEF TypeInv, DictTypeOK

\* A get returns with whatever it answers.
LEMMA GetReturnType ==
    ASSUME TypeInv, NEW w \in Worker, pc[w] \in {"get_find", "get_contains"},
           NEW v \in Value \cup {NOT_FOUND, EmptyString}, NEW r \in BOOLEAN, GetReturn(w, v, r)
    PROVE  TypeInv'
<1> USE DEF TypeInv
<1>1. DictTypeOK'
  <2>1. /\ val' \in [Worker -> Value \cup {NOT_FOUND, EmptyString}]
        /\ ret' \in [Worker -> BOOLEAN]
        /\ pc' \in [Worker -> PC]
    BY DEF GetReturn, Goto, DictTypeOK, PC
  <2>2. m_mtx' \in Worker \cup {NoThread}
    BY DEF GetReturn
  <2> QED
    BY <2>1, <2>2 DEF GetReturn, DictTypeOK, bloom
<1>2. FrameOK'
  <2>1. /\ \A u \in Worker : u # w => pc'[u] = pc[u] /\ val'[u] = val[u]
        /\ pc'[w] = "get_returned" /\ key' = key
    BY DEF GetReturn, Goto, DictTypeOK
  <2>2. "get_returned" \notin SetPc /\ pc[w] # "idle"
    BY DEF SetPc
  <2> QED
    BY <2>1, <2>2 DEF FrameOK
<1> QED
  BY <1>1, <1>2

\* Every step keeps them.
LEMMA TypeStep == TypeInv /\ [DictNext]_dictVars => TypeInv'
<1> SUFFICES ASSUME TypeInv, [DictNext]_dictVars
             PROVE  TypeInv'
  OBVIOUS
<1> USE DEF TypeInv, DictTypeOK, FrameOK, PC, SetPc, GetPc
<1>1. CASE EnableBloomFilter
  BY <1>1, DictionaryAssumption DEF EnableBloomFilter, frame
<1>2. CASE InitBloomFilters
  BY <1>2 DEF InitBloomFilters, frame, EmptyTable
<1>3. ASSUME NEW w \in Worker, NEW k \in Key, NEW v \in Value, SetCall(w, k, v)
      PROVE  TypeInv'
  BY <1>3 DEF SetCall, Enter, Goto, bloom
<1>4. ASSUME NEW w \in Worker, NEW k \in Key, GetCall(w, k)
      PROVE  TypeInv'
  BY <1>4 DEF GetCall, Enter, Goto, bloom
<1>5. ASSUME NEW w \in Worker, Return(w)
      PROVE  TypeInv'
  BY <1>5 DEF Return, Goto, bloom
<1>6. ASSUME NEW w \in Worker, SetCheck(w)
      PROVE  TypeInv'
  BY <1>6 DEF SetCheck, Goto, bloom
<1>7. ASSUME NEW w \in Worker, SetLock(w) \/ GetLock(w)
      PROVE  TypeInv'
  BY <1>7 DEF SetLock, GetLock, Lock, Goto, bloom
<1>8. ASSUME NEW w \in Worker, SetInsert(w)
      PROVE  TypeInv'
  <2>1. BitsOf(key[w]) \subseteq Bit
    BY <1>8, BitsInTable DEF SetInsert
  <2> QED
    BY <1>8, <2>1 DEF SetInsert, insert, Goto
<1>9. ASSUME NEW w \in Worker, SetStore(w)
      PROVE  TypeInv'
  <2>1. key[w] \in Key /\ val[w] \in Value
    BY <1>9 DEF SetStore
  <2>2. /\ DOMAIN m_dict' \subseteq Key
        /\ m_dict' \in [DOMAIN m_dict' -> Value]
    BY <1>9, <2>1 DEF SetStore
  <2> QED
    BY <1>9, <2>2 DEF SetStore, Goto, bloom
<1>10. ASSUME NEW w \in Worker, GetFind(w)
       PROVE  TypeInv'
  BY <1>10, GetReturnType, GetAnswers DEF GetFind
<1>11. ASSUME NEW w \in Worker, GetContains(w)
       PROVE  TypeInv'
  BY <1>11, GetReturnType, GetAnswers DEF GetContains
<1>12. ASSUME NEW w \in Worker, NullDereference(w)
       PROVE  TypeInv'
  BY <1>12 DEF NullDereference, frame, bloom
<1>13. CASE UNCHANGED dictVars
  BY <1>13 DEF dictVars, frame, bloom
<1> QED
  BY <1>1, <1>2, <1>3, <1>4, <1>5, <1>6, <1>7, <1>8, <1>9, <1>10, <1>11, <1>12, <1>13
  DEF DictNext, MainStep, CallStep

\* m_dict stays a map from keys to values, the filter inside its table, and
\* every call in a state that set and get can be in.
THEOREM DictTypeCorrect == DictSpec => []DictTypeOK
<1>1. DictSpec => []TypeInv
  BY TypeInit, TypeStep, PTL DEF DictSpec
<1>2. TypeInv => DictTypeOK
  BY DEF TypeInv
<1> QED
  BY <1>1, <1>2, PTL

-----------------------------------------------------------------------------
(* The size.  A set that has passed the check and has not stored yet will  *)
(* add at most one key, so these count as if they had stored already.      *)

Committed == {w \in Worker : pc[w] \in {"set_lock", "set_insert", "set_store"}}

BoundInv == Size + Cardinality(Committed) <= MAX_DICT_SIZE + Cardinality(Worker) - 1

SizeInv == TypeInv /\ BoundInv

\* The two cardinalities are natural numbers.
LEMMA FiniteSizes ==
    ASSUME TypeInv
    PROVE  /\ IsFiniteSet(DOMAIN m_dict) /\ Size \in Nat
           /\ IsFiniteSet(Committed) /\ Cardinality(Committed) \in Nat
           /\ Cardinality(Worker) \in Nat
           /\ Cardinality(Committed) <= Cardinality(Worker)
<1>1. IsFiniteSet(DOMAIN m_dict) /\ Size \in Nat
  BY FS_Subset, FS_CardinalityType, DictionaryAssumption DEF TypeInv, DictTypeOK, Size
<1>2. Committed \subseteq Worker
  BY DEF Committed
<1> QED
  BY <1>1, <1>2, FS_Subset, FS_CardinalityType, DictionaryAssumption

\* An empty map is within the bound.
LEMMA SizeInit == DictInit => SizeInv
<1> SUFFICES ASSUME DictInit PROVE BoundInv
  BY TypeInit DEF SizeInv
<1>1. DOMAIN m_dict = {} /\ Committed = {}
  BY DEF DictInit, Committed
<1>2. Size = 0 /\ Cardinality(Committed) = 0
  BY <1>1, FS_EmptySet DEF Size
<1>3. Cardinality(Worker) \in Nat /\ MAX_DICT_SIZE \in Nat \ {0}
  BY FS_CardinalityType, DictionaryAssumption
<1> QED
  BY <1>2, <1>3 DEF BoundInv

\* Only the check commits a worker, and it sees the map not full; a store
\* adds a key and uncommits its worker.
LEMMA SizeStep == SizeInv /\ [DictNext]_dictVars => SizeInv'
<1> SUFFICES ASSUME SizeInv, [DictNext]_dictVars
             PROVE  BoundInv'
  BY TypeStep DEF SizeInv
<1> USE DEF SizeInv
<1>1. MAX_DICT_SIZE \in Nat \ {0}
  BY DictionaryAssumption
<1>2. CASE UNCHANGED m_dict /\ Committed' = Committed
  BY <1>2 DEF BoundInv, Size
<1>3. ASSUME NEW w \in Worker, SetCheck(w)
      PROVE  BoundInv'
  <2>1. CASE Size >= MAX_DICT_SIZE
    <3>1. Committed' = Committed
      BY <1>3, <2>1 DEF SetCheck, Committed, Goto, TypeInv, DictTypeOK
    <3> QED
      BY <1>2, <1>3, <3>1 DEF SetCheck
  <2>2. CASE Size < MAX_DICT_SIZE
    <3>1. Cardinality(Committed)' <= Cardinality(Worker) /\ Cardinality(Committed)' \in Nat
      <4>1. Committed' \subseteq Worker
        BY DEF Committed
      <4> QED
        BY <4>1, FS_Subset, FS_CardinalityType, DictionaryAssumption
    <3>2. Size' = Size
      BY <1>3 DEF SetCheck, Size
    <3> QED
      BY <1>1, <2>2, <3>1, <3>2, FiniteSizes DEF BoundInv
  <2> QED
    BY <1>1, <2>1, <2>2, FiniteSizes
<1>4. ASSUME NEW w \in Worker, SetStore(w)
      PROVE  BoundInv'
  <2>1. DOMAIN m_dict' = DOMAIN m_dict \cup {key[w]}
    BY <1>4 DEF SetStore
  <2>2. Size' \in Nat /\ Size' <= Size + 1
    <3>1. /\ IsFiniteSet(DOMAIN m_dict) /\ Cardinality(DOMAIN m_dict) \in Nat
          /\ Cardinality(DOMAIN m_dict \cup {key[w]}) \in
                {Cardinality(DOMAIN m_dict), Cardinality(DOMAIN m_dict) + 1}
      BY FiniteSizes, FS_AddElement DEF Size
    <3> QED
      BY <2>1, <3>1 DEF Size
  <2>3. w \in Committed /\ Committed' = Committed \ {w}
    BY <1>4 DEF SetStore, Committed, Goto, TypeInv, DictTypeOK
  <2>4. Cardinality(Committed)' = Cardinality(Committed) - 1
    BY <2>3, FiniteSizes, FS_RemoveElement
  <2> QED
    BY <1>1, <2>2, <2>4, FiniteSizes DEF BoundInv
<1>5. ASSUME NEW w \in Worker, SetLock(w) \/ SetInsert(w)
      PROVE  BoundInv'
  <2>1. Committed' = Committed
    BY <1>5 DEF SetLock, Lock, SetInsert, Committed, Goto, TypeInv, DictTypeOK
  <2> QED
    BY <1>2, <1>5, <2>1 DEF SetLock, Lock, SetInsert
<1>6. ASSUME NEW w \in Worker, GetLock(w) \/ GetFind(w) \/ GetContains(w) \/ Return(w)
      PROVE  BoundInv'
  <2>1. Committed' = Committed
    BY <1>6 DEF GetLock, Lock, GetFind, GetContains, GetReturn, Return, Committed, Goto,
                TypeInv, DictTypeOK
  <2> QED
    BY <1>2, <1>6, <2>1 DEF GetLock, Lock, GetFind, GetContains, GetReturn, Return
<1>7. ASSUME NEW w \in Worker, NEW k \in Key, NEW v, SetCall(w, k, v) \/ GetCall(w, k)
      PROVE  BoundInv'
  <2>1. Committed' = Committed
    BY <1>7 DEF SetCall, GetCall, Enter, Committed, Goto, TypeInv, DictTypeOK
  <2> QED
    BY <1>2, <1>7, <2>1 DEF SetCall, GetCall, Enter
<1>8. CASE EnableBloomFilter \/ InitBloomFilters \/ UNCHANGED dictVars
           \/ \E w \in Worker : NullDereference(w)
  BY <1>2, <1>8 DEF EnableBloomFilter, InitBloomFilters, NullDereference, dictVars, frame, Committed
<1> QED
  BY <1>3, <1>4, <1>5, <1>6, <1>7, <1>8 DEF DictNext, MainStep, CallStep

\* Dictionary::set overruns MAX_DICT_SIZE by at most the other workers, however
\* many there are and whatever the filter does.
THEOREM SizeCorrect == DictSpec => []SizeBounded
<1>1. DictSpec => []SizeInv
  BY SizeInit, SizeStep, PTL DEF DictSpec
<1>2. SizeInv => SizeBounded
  <2> SUFFICES ASSUME SizeInv PROVE SizeBounded
    OBVIOUS
  <2>1. MAX_DICT_SIZE \in Nat
    BY DictionaryAssumption
  <2> QED
    BY <2>1, FiniteSizes DEF SizeInv, BoundInv, SizeBounded
<1> QED
  BY <1>1, <1>2, PTL

-----------------------------------------------------------------------------
(* The start of the filter.                                                *)

UsesFilter == {"set_insert", "get_contains"}

\* The flag is on and the pointer null only between the two statements of
\* enableBloomFilter; whoever goes for the filter has seen the flag on; and
\* without the startup race nobody is in a call before the main thread is done.
StartupInv ==
    /\ mainPc = "enable" => ~m_bloomFilterEnabled
    /\ m_bloomFilterEnabled /\ ~m_bloomFilter => mainPc = "init_filter"
    /\ \A w \in Worker : pc[w] \in UsesFilter => m_bloomFilterEnabled
    /\ ~StartupRace /\ mainPc # "done" =>
            DOMAIN m_dict = {} /\ \A w \in Worker : pc[w] = "idle"
    /\ CrashOnlyInStartup

\* StartupInv holds initially.
LEMMA StartupInit == DictInit => StartupInv
BY DictionaryAssumption DEF DictInit, StartupInv, CrashOnlyInStartup, UsesFilter

\* StartupInv survives every step.
LEMMA StartupStep ==
    TypeInv /\ StartupInv /\ [DictNext]_dictVars => StartupInv'
<1> SUFFICES ASSUME TypeInv, StartupInv, [DictNext]_dictVars
             PROVE  StartupInv'
  OBVIOUS
<1> USE DictionaryAssumption
    DEF TypeInv, DictTypeOK, StartupInv, CrashOnlyInStartup, UsesFilter, PC, SetPc, GetPc
<1>1. CASE ~crashed /\ EnableBloomFilter
  BY <1>1 DEF EnableBloomFilter, frame
<1>2. CASE ~crashed /\ InitBloomFilters
  BY <1>2 DEF InitBloomFilters, frame
<1>3. ASSUME ~crashed, NEW w \in Worker, NEW k, NEW v, SetCall(w, k, v) \/ GetCall(w, k)
      PROVE  StartupInv'
  BY <1>3 DEF SetCall, GetCall, Enter, Goto, bloom
<1>4. ASSUME ~crashed, NEW w \in Worker,
             SetCheck(w) \/ SetLock(w) \/ SetInsert(w) \/ SetStore(w)
      PROVE  StartupInv'
  BY <1>4 DEF SetCheck, SetLock, Lock, SetInsert, SetStore, Goto, bloom
<1>5. ASSUME ~crashed, NEW w \in Worker,
             GetLock(w) \/ GetFind(w) \/ GetContains(w) \/ Return(w)
      PROVE  StartupInv'
  BY <1>5 DEF GetLock, Lock, GetFind, GetContains, GetReturn, Return, Goto, bloom
<1>6. ASSUME ~crashed, NEW w \in Worker, NullDereference(w)
      PROVE  StartupInv'
  BY <1>6 DEF NullDereference, frame, bloom
<1>7. CASE UNCHANGED dictVars
  BY <1>7 DEF dictVars, frame, bloom
<1> QED
  BY <1>1, <1>2, <1>3, <1>4, <1>5, <1>6, <1>7 DEF DictNext, MainStep, CallStep

\* The process can die on the null m_bloomFilter only while the main thread is
\* between the two statements of enableBloomFilter.
THEOREM CrashCorrect == DictSpec => []CrashOnlyInStartup
<1>1. DictSpec => [](TypeInv /\ StartupInv)
  BY TypeInit, StartupInit, TypeStep, StartupStep, PTL DEF DictSpec
<1>2. StartupInv => CrashOnlyInStartup
  BY DEF StartupInv
<1> QED
  BY <1>1, <1>2, PTL

-----------------------------------------------------------------------------
(* The filter against the map.                                             *)

\* With the flag on every key of the map is in the filter, and so is the key
\* that a set is about to store.
FilterInv ==
    m_bloomFilterEnabled =>
        /\ \A k \in DOMAIN m_dict : contains(bit_table_, k)
        /\ \A w \in Worker : pc[w] = "set_store" => contains(bit_table_, key[w])

\* FilterInv survives every step, without the startup race.
LEMMA FilterStep ==
    ASSUME ~StartupRace
    PROVE  TypeInv /\ StartupInv /\ FilterInv /\ [DictNext]_dictVars => FilterInv'
<1> SUFFICES ASSUME TypeInv, StartupInv, FilterInv, [DictNext]_dictVars
             PROVE  FilterInv'
  OBVIOUS
<1> USE DEF TypeInv, DictTypeOK, FilterInv
<1>1. CASE MainStep
  <2>1. DOMAIN m_dict = {} /\ \A w \in Worker : pc[w] = "idle"
    BY <1>1 DEF MainStep, EnableBloomFilter, InitBloomFilters, StartupInv
  <2> QED
    BY <1>1, <2>1 DEF MainStep, EnableBloomFilter, InitBloomFilters, frame
<1>2. ASSUME NEW w \in Worker, NEW k, NEW v, SetCall(w, k, v) \/ GetCall(w, k)
      PROVE  FilterInv'
  BY <1>2 DEF SetCall, GetCall, Enter, Goto, bloom
<1>3. ASSUME NEW w \in Worker, SetCheck(w) \/ SetLock(w) \/ GetLock(w)
      PROVE  FilterInv'
  BY <1>3 DEF SetCheck, SetLock, GetLock, Lock, Goto, bloom
<1>4. ASSUME NEW w \in Worker, SetInsert(w)
      PROVE  FilterInv'
  <2>1. /\ contains(bit_table_', key[w])
        /\ \A j : contains(bit_table_, j) => contains(bit_table_', j)
    BY <1>4, InsertContains DEF SetInsert
  <2> QED
    BY <1>4, <2>1 DEF SetInsert, Goto
<1>5. ASSUME NEW w \in Worker, SetStore(w)
      PROVE  FilterInv'
  BY <1>5 DEF SetStore, Goto, bloom
<1>6. ASSUME NEW w \in Worker, GetFind(w) \/ GetContains(w) \/ Return(w)
      PROVE  FilterInv'
  BY <1>6 DEF GetFind, GetContains, GetReturn, Return, Goto, bloom
<1>7. CASE UNCHANGED dictVars \/ \E w \in Worker : NullDereference(w)
  BY <1>7 DEF NullDereference, dictVars, frame, bloom
<1> QED
  BY <1>1, <1>2, <1>3, <1>4, <1>5, <1>6, <1>7 DEF DictNext, CallStep

\* When no request is served before start() has returned, a stored key always
\* passes the filter: a get that finds the filter closed proves the key absent.
THEOREM FilterCorrect ==
    ASSUME ~StartupRace
    PROVE  DictSpec => [](NoFalseNegative /\ GetFindsStored)
<1>1. DictInit => FilterInv
  BY DEF DictInit, FilterInv
<1>2. DictSpec => [](TypeInv /\ StartupInv /\ FilterInv)
  BY <1>1, TypeInit, StartupInit, TypeStep, StartupStep, FilterStep, PTL DEF DictSpec
<1>3. TypeInv /\ StartupInv /\ FilterInv => NoFalseNegative /\ GetFindsStored
  BY DEF StartupInv, FilterInv, NoFalseNegative, GetFindsStored, UsesFilter
<1> QED
  BY <1>2, <1>3, PTL

-----------------------------------------------------------------------------
(* Without the filter.                                                     *)

\* The flag is never on, and a get that has returned found its key exactly
\* when its result is true.
PlainInv == ~m_bloomFilterEnabled /\ GetTellsSuccess

\* PlainInv survives every step, without the filter.
LEMMA PlainStep ==
    ASSUME ~bloomRequested
    PROVE  TypeInv /\ StartupInv /\ PlainInv /\ [DictNext]_dictVars => PlainInv'
<1> SUFFICES ASSUME TypeInv, StartupInv, PlainInv, [DictNext]_dictVars
             PROVE  PlainInv'
  OBVIOUS
<1> USE DEF TypeInv, DictTypeOK, PlainInv, GetTellsSuccess
<1>1. ASSUME NEW w \in Worker, GetFind(w)
      PROVE  PlainInv'
  <2>1. CASE key[w] \in DOMAIN m_dict
    <3>1. m_dict[key[w]] \in Value /\ GetReturn(w, m_dict[key[w]], TRUE)
      BY <1>1, <2>1 DEF GetFind
    <3> QED
      BY <3>1 DEF GetReturn, Goto, bloom
  <2>2. CASE key[w] \notin DOMAIN m_dict
    <3>1. NOT_FOUND \notin Value /\ GetReturn(w, NOT_FOUND, FALSE)
      BY <1>1, <2>2, DictionaryAssumption DEF GetFind
    <3> QED
      BY <3>1 DEF GetReturn, Goto, bloom
  <2> QED
    BY <2>1, <2>2
<1>2. ASSUME NEW w \in Worker PROVE ~GetContains(w)
  BY DEF GetContains, StartupInv, UsesFilter
<1>3. ASSUME NEW w \in Worker, NEW k, NEW v, SetCall(w, k, v) \/ GetCall(w, k)
      PROVE  PlainInv'
  BY <1>3 DEF SetCall, GetCall, Enter, Goto, bloom
<1>4. ASSUME NEW w \in Worker,
             SetCheck(w) \/ SetLock(w) \/ SetInsert(w) \/ SetStore(w) \/ GetLock(w) \/ Return(w)
      PROVE  PlainInv'
  BY <1>4 DEF SetCheck, SetLock, GetLock, Lock, SetInsert, SetStore, Return, Goto, bloom
<1>5. CASE MainStep
  BY <1>5 DEF MainStep, EnableBloomFilter, InitBloomFilters, frame
<1>6. CASE UNCHANGED <<m_bloomFilterEnabled, frame>>
  BY <1>6 DEF frame
<1> QED
  BY <1>1, <1>2, <1>3, <1>4, <1>5, <1>6 DEF DictNext, CallStep, NullDereference, dictVars, bloom

\* What the comment at get says of its result holds when the filter is not
\* asked for: it is true exactly when the key was found.
THEOREM GetTellsSuccessCorrect ==
    ASSUME ~bloomRequested
    PROVE  DictSpec => []GetTellsSuccess
<1>1. DictInit => PlainInv
  BY DEF DictInit, PlainInv, GetTellsSuccess
<1>2. DictSpec => [](TypeInv /\ StartupInv /\ PlainInv)
  BY <1>1, TypeInit, StartupInit, TypeStep, StartupStep, PlainStep, PTL DEF DictSpec
<1>3. PlainInv => GetTellsSuccess
  BY DEF PlainInv
<1> QED
  BY <1>2, <1>3, PTL
=============================================================================
