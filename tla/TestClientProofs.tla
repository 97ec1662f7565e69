-------------------------- MODULE TestClientProofs --------------------------
(***************************************************************************)
(* The test client, for any file, number of threads, faults and limit of   *)
(* descriptors: the division of the input gives every message to one       *)
(* thread, in order; the threads leak what they lose and nothing else; and *)
(* the result file has every answer once, in order, so that the client     *)
(* implements WorkList.                                                    *)
(***************************************************************************)
EXTENDS TestClient, FiniteSetTheorems, SequenceTheorems, TLAPS

Entries == {input_data[i] : i \in DOMAIN input_data}

\* The input is a sequence of messages with their places.
InputInv ==
    /\ m_inputFile \in Files /\ m_numThread \in ThreadCounts
    /\ Len(input_data) \in Nat /\ input_data \in Seq(Entries)
    /\ \A i \in Id : input_data[i].id = i /\ input_data[i].type \in UninitType

\* Threads are started in order, once there is input.
SpawnInv ==
    /\ mainPc \in {"read", "spawn", "join", "save", "done"}
    /\ spawned \in 0 .. m_numThread
    /\ mainPc = "read" => input_data = <<>> /\ spawned = 0
    /\ mainPc \notin {"read", "spawn"} => m_numThread > 0 /\ spawned = m_numThread
    /\ cpc \in [Thread -> {"new", "loop", "connected", "waiting", "done"}]
    /\ \A t \in Thread : cpc[t] = "new" <=> t > spawned
    /\ mainPc \in {"save", "done"} => Joined

\* A thread that is started has its chunk.
ChunkInv ==
    /\ m_inputdata \in [Thread -> Seq(Entries)]
    /\ \A t \in Thread : m_inputdata[t] = IF t <= spawned THEN Chunk(t) ELSE <<>>

\* Where a thread is in its chunk.
PlaceInv ==
    /\ idx \in [Thread -> Nat \ {0}]
    /\ \A t \in Thread :
        /\ idx[t] <= Len(m_inputdata[t]) + 1
        /\ cpc[t] = "new" => idx[t] = 1
        /\ cpc[t] \in {"connected", "waiting"} => HasMessage(t)
        /\ cpc[t] = "done" => ~HasMessage(t)

Result == [id : Nat, payload : {"whole", "front", "nothing"}, timestamp : Nat]

\* The results of a thread are of messages that are over, in their order, and
\* the timestamps go up with it.
ResultInv ==
    /\ clock \in Nat
    /\ m_results \in [Thread -> Seq(Result)]
    /\ \A t \in Thread :
        /\ \A j \in DOMAIN m_results[t] :
            /\ m_results[t][j].id \in IdsUpTo(t, idx[t] - 1)
            /\ m_results[t][j].timestamp <= clock
        /\ \A i, j \in DOMAIN m_results[t] : i < j =>
            /\ m_results[t][i].id < m_results[t][j].id
            /\ m_results[t][i].timestamp < m_results[t][j].timestamp

\* Time goes on with results only.
ClockInv == clock <= Cardinality(Answered)

FdInv == IsFiniteSet(fds) /\ Cardinality(fds) <= MaxFds

Named(r) == r.payload # "nothing"

\* What is written and what is to be written still are all the results, and
\* what is written is the older part.
SaveInv ==
    /\ data \in Seq(Result) /\ outfile \in Seq(Result)
    /\ mainPc \notin {"save", "done"} => results = {} /\ data = <<>> /\ outfile = <<>>
    /\ mainPc = "done" => results = {} /\ data = <<>>
    /\ mainPc \in {"save", "done"} =>
        /\ results \subseteq Results
        /\ \A i \in DOMAIN Saved :
            /\ Saved[i] \in Results \ results
            /\ Named(Saved[i])
            /\ \A r \in results : Saved[i].timestamp <= r.timestamp
        /\ \A i, j \in DOMAIN Saved : i < j =>
            Saved[i].timestamp <= Saved[j].timestamp /\ Saved[i] # Saved[j]
        /\ \A r \in Results \ results : Named(r) => \E i \in DOMAIN Saved : Saved[i] = r

\* What the division gives: each thread's ids go up, no two threads share one,
\* and each message is someone's.
IdsInv ==
    /\ \A t \in Thread : \A i \in 1 .. Len(m_inputdata[t]) : m_inputdata[t][i].id \in Id
    /\ \A t \in Thread : \A i, j \in 1 .. Len(m_inputdata[t]) :
        i < j => m_inputdata[t][i].id < m_inputdata[t][j].id
    /\ \A t, u \in Thread : \A i \in 1 .. Len(m_inputdata[t]), j \in 1 .. Len(m_inputdata[u]) :
        m_inputdata[t][i].id = m_inputdata[u][j].id => t = u
    /\ mainPc \notin {"read", "spawn"} =>
        \A m \in Id : \E t \in 1 .. m_numThread : \E i \in 1 .. Len(m_inputdata[t]) :
            m_inputdata[t][i].id = m
-----------------------------------------------------------------------------
(* The division.                                                           *)

\* Threads are numbered from 1.
LEMMA ThreadNumbers ==
    /\ Thread \subseteq Nat \ {0}
    /\ \A n \in ThreadCounts : n \in Nat /\ 1 .. n \subseteq Thread
BY TestClientAssumption

\* More shares are not less.
LEMMA TimesMonotone ==
    ASSUME NEW a \in Nat, NEW b \in Nat, NEW q \in Nat, a <= b
    PROVE  a * q \in Nat /\ b * q \in Nat /\ a * q <= b * q
<1>1. PICK c \in Nat : b = a + c
  BY SMT
<1>2. b * q = a * q + c * q
  BY <1>1, SMT
<1>3. a * q \in Nat /\ c * q \in Nat /\ b * q \in Nat
  BY <1>1, SMT
<1> QED
  BY <1>2, <1>3, SMT

\* Integer division leaves less than the divisor.
LEMMA Quotient ==
    ASSUME NEW n \in Nat, NEW d \in Nat, d > 0
    PROVE  /\ n \div d \in Nat
           /\ d * (n \div d) <= n /\ n < d * (n \div d) + d
<1>1. n \div d \in Nat
  BY SMTT(30)
<1>2. d * (n \div d) <= n
  BY SMTT(30)
<1>3. n < d * (n \div d) + d
  BY SMTT(30)
<1> QED
  BY <1>1, <1>2, <1>3

Share == ChunkSize(Len(input_data))
Lo(t) == (t - 1) * Share
Hi(t) == IF t = m_numThread THEN Len(input_data) ELSE t * Share

\* Where the share of a thread begins and ends.
LEMMA Bounds ==
    ASSUME InputInv, m_numThread > 0, NEW t \in 1 .. m_numThread
    PROVE  /\ Share \in Nat
           /\ Lo(t) \in Nat /\ Hi(t) \in Nat
           /\ Lo(t) <= Hi(t) /\ Hi(t) <= Len(input_data)
<1> DEFINE n == m_numThread
           L == Len(input_data)
<1>1. n \in Nat \ {0} /\ L \in Nat /\ t \in Nat
  BY ThreadNumbers DEF InputInv
<1>2. Share \in Nat /\ n * Share <= L /\ L < n * Share + n
  BY <1>1, Quotient DEF Share, ChunkSize
<1>3. /\ (t - 1) * Share \in Nat /\ t * Share \in Nat /\ n * Share \in Nat
      /\ t * Share <= n * Share
  BY <1>1, <1>2, TimesMonotone
<1>4. t * Share = (t - 1) * Share + Share
  BY <1>1, <1>2, SMT
<1>5. CASE t = n
  BY <1>1, <1>2, <1>3, <1>4, <1>5, SMT DEF Lo, Hi
<1>6. CASE t # n
  <2>1. Hi(t) = t * Share /\ Lo(t) = (t - 1) * Share
    BY <1>6 DEF Hi, Lo
  <2> QED
    BY <1>1, <1>2, <1>3, <1>4, <2>1, SMT
<1> QED
  BY <1>5, <1>6

\* A chunk is what the input has between its bounds.
LEMMA ChunkIs ==
    ASSUME InputInv, m_numThread > 0, NEW t \in 1 .. m_numThread
    PROVE  /\ Chunk(t) \in Seq(Entries)
           /\ Len(Chunk(t)) = Hi(t) - Lo(t)
           /\ \A i \in 1 .. Len(Chunk(t)) :
                Lo(t) + i \in Id /\ Chunk(t)[i].id = Lo(t) + i
<1>1. /\ Lo(t) \in Nat /\ Hi(t) \in Nat /\ Lo(t) <= Hi(t) /\ Hi(t) <= Len(input_data)
  BY Bounds
<1>2. Chunk(t) = SubSeq(input_data, Lo(t) + 1, Hi(t))
  BY DEF Chunk, Lo, Hi, Share
<1>3. input_data \in Seq(Entries) /\ Id = 1 .. Len(input_data) /\ Len(input_data) \in Nat
  BY DEF InputInv, Id
<1>4. /\ Chunk(t) \in Seq(Entries)
      /\ Len(Chunk(t)) = Hi(t) - Lo(t)
      /\ \A i \in 1 .. Hi(t) - Lo(t) : Chunk(t)[i] = input_data[Lo(t) + i]
  BY <1>1, <1>2, <1>3, SMT
<1>5. \A i \in 1 .. Hi(t) - Lo(t) : Lo(t) + i \in Id
  BY <1>1, <1>3
<1> QED
  BY <1>4, <1>5 DEF InputInv

\* A share begins where the one before it ends, or after.
LEMMA Consecutive ==
    ASSUME InputInv, m_numThread > 0,
           NEW t \in 1 .. m_numThread, NEW u \in 1 .. m_numThread, t < u
    PROVE  Hi(t) <= Lo(u)
<1>1. m_numThread \in Nat /\ t \in Nat /\ u - 1 \in Nat /\ t <= u - 1 /\ t # m_numThread
  BY ThreadNumbers DEF InputInv
<1>2. Share \in Nat
  BY Bounds
<1>3. t * Share <= (u - 1) * Share
  BY <1>1, <1>2, TimesMonotone
<1> QED
  BY <1>1, <1>3 DEF Hi, Lo

\* Every place in the input is in a share.
LEMMA Covered ==
    ASSUME InputInv, m_numThread > 0, NEW m \in Id
    PROVE  \E t \in 1 .. m_numThread : Lo(t) < m /\ m <= Hi(t)
<1> DEFINE n == m_numThread
           L == Len(input_data)
<1>1. n \in Nat /\ L \in Nat /\ Id = 1 .. L /\ m \in Nat /\ 1 <= m /\ m <= L /\ n \in 1 .. n
  BY ThreadNumbers DEF InputInv, Id
<1>2. Share \in Nat
  BY <1>1, Bounds
<1>3. CASE m > Lo(n)
  BY <1>1, <1>3 DEF Hi
<1>4. CASE m <= Lo(n)
  <2> DEFINE q == (m - 1) \div Share
             t == q + 1
  <2>1. Share > 0
    <3>1. Lo(n) = (n - 1) * Share /\ n - 1 \in Nat
      BY <1>1 DEF Lo
    <3>2. Share = 0 => (n - 1) * Share = 0
      BY <3>1, SMT
    <3> QED
      BY <1>1, <1>2, <1>4, <3>1, <3>2, SMT
  <2>2. m - 1 \in Nat
    BY <1>1
  <2>3. /\ q \in Nat
        /\ Share * q <= m - 1 /\ m - 1 < Share * q + Share
    BY <1>2, <2>1, <2>2, Quotient
  <2> HIDE DEF q
  <2>4. Lo(t) = Share * q
    BY <1>2, <2>3, SMT DEF Lo
  <2>5. t * Share = Share * q + Share /\ Share * q \in Nat
    BY <1>2, <2>3, SMT
  <2>6. t < n
    <3>1. SUFFICES ASSUME n - 1 <= q PROVE FALSE
      BY <1>1, <2>3
    <3>2. (n - 1) * Share <= q * Share
      BY <1>1, <1>2, <2>3, <3>1, TimesMonotone
    <3>3. (n - 1) * Share \in Nat /\ q * Share = Share * q
      BY <1>1, <1>2, <2>3, SMT
    <3> QED
      BY <1>1, <1>4, <2>3, <2>5, <3>2, <3>3, SMT DEF Lo
  <2>7. t \in 1 .. n /\ t # n
    BY <1>1, <2>3, <2>6
  <2>8. Lo(t) < m /\ m <= Hi(t)
    BY <1>1, <1>2, <2>3, <2>4, <2>5, <2>7, SMT DEF Hi
  <2> QED
    BY <2>7, <2>8
<1> QED
  BY <1>1, <1>2, <1>3, <1>4, SMT DEF Lo

\* The input is divided: by what a thread has been given and its bounds.
LEMMA Division ==
    ASSUME InputInv, SpawnInv, ChunkInv
    PROVE  IdsInv
<1> DEFINE n == m_numThread
           Given(t) == m_inputdata[t]
<1>1. n \in Nat /\ Thread \subseteq Nat \ {0} /\ 1 .. n \subseteq Thread
      /\ spawned \in 0 .. n
  BY ThreadNumbers DEF InputInv, SpawnInv
<1>2. ASSUME NEW t \in Thread, NEW i \in 1 .. Len(m_inputdata[t])
      PROVE  /\ n > 0 /\ t \in 1 .. n /\ i \in Nat
             /\ Lo(t) \in Nat
             /\ m_inputdata[t][i].id = Lo(t) + i
             /\ Lo(t) + i \in Id /\ Lo(t) + i <= Hi(t)
  <2>1. t <= spawned
    <3>1. t > spawned => Len(m_inputdata[t]) = 0
      BY <1>1 DEF ChunkInv
    <3> QED
      BY <1>1, <1>2, <3>1
  <2>2. n > 0 /\ t \in 1 .. n /\ m_inputdata[t] = Chunk(t)
    BY <1>1, <2>1 DEF ChunkInv
  <2>3. Lo(t) \in Nat /\ Hi(t) \in Nat /\ Lo(t) <= Hi(t)
    BY <2>2, Bounds
  <2>4. /\ Len(Chunk(t)) = Hi(t) - Lo(t)
        /\ Lo(t) + i \in Id /\ Chunk(t)[i].id = Lo(t) + i
    BY <1>2, <2>2, ChunkIs
  <2> QED
    BY <1>2, <2>2, <2>3, <2>4
<1>3. \A t \in Thread : \A i \in 1 .. Len(m_inputdata[t]) : m_inputdata[t][i].id \in Id
  BY <1>2
<1>4. ASSUME NEW t \in Thread, NEW i \in 1 .. Len(m_inputdata[t]),
             NEW j \in 1 .. Len(m_inputdata[t]), i < j
      PROVE  m_inputdata[t][i].id < m_inputdata[t][j].id
  BY <1>2, <1>4
<1>5. ASSUME NEW t \in Thread, NEW u \in Thread, NEW i \in 1 .. Len(m_inputdata[t]),
             NEW j \in 1 .. Len(m_inputdata[u]), t < u
      PROVE  m_inputdata[t][i].id # m_inputdata[u][j].id
  <2>1. Hi(t) <= Lo(u)
    BY <1>2, <1>5, Consecutive
  <2>2. Hi(t) \in Nat
    BY <1>2, Bounds
  <2> QED
    BY <1>2, <2>1, <2>2
<1>6. ASSUME NEW t \in Thread, NEW u \in Thread, NEW i \in 1 .. Len(m_inputdata[t]),
             NEW j \in 1 .. Len(m_inputdata[u]), m_inputdata[t][i].id = m_inputdata[u][j].id
      PROVE  t = u
  BY <1>1, <1>5, <1>6
<1>7. ASSUME mainPc \notin {"read", "spawn"}, NEW m \in Id
      PROVE  \E t \in 1 .. n : \E i \in 1 .. Len(m_inputdata[t]) : m_inputdata[t][i].id = m
  <2>1. n > 0 /\ spawned = n
    BY <1>7 DEF SpawnInv
  <2>2. PICK t \in 1 .. n : Lo(t) < m /\ m <= Hi(t)
    BY <2>1, Covered
  <2>3. m_inputdata[t] = Chunk(t) /\ t \in Thread
    BY <1>1, <2>1 DEF ChunkInv
  <2>4. Len(Chunk(t)) = Hi(t) - Lo(t) /\ Lo(t) \in Nat /\ Hi(t) \in Nat
    BY <2>1, Bounds, ChunkIs
  <2>5. m \in Nat
    BY DEF InputInv, Id
  <2>6. m - Lo(t) \in 1 .. Len(m_inputdata[t])
    BY <2>2, <2>3, <2>4, <2>5
  <2>7. m_inputdata[t][m - Lo(t)].id = Lo(t) + (m - Lo(t))
    BY <1>2, <2>3, <2>6
  <2> QED
    BY <2>4, <2>5, <2>6, <2>7
<1> QED
  BY <1>3, <1>4, <1>6, <1>7 DEF IdsInv
-----------------------------------------------------------------------------
(* Where the threads are.                                                  *)

TypeInv == InputInv /\ SpawnInv /\ ChunkInv /\ PlaceInv

\* What a message keeps of what it is made of.
LEMMA MessageFields ==
    ASSUME NEW i, NEW type, NEW k, NEW v
    PROVE  Message(i, type, k, v).id = i /\ Message(i, type, k, v).type = type
BY DEF Message

\* The lines of a file are sequences of tokens.
LEMMA LinesType ==
    ASSUME NEW file \in Files
    PROVE  Lines(file) \in Seq(Seq(STRING))
<1>1. file.lines \in Seq(Seq(STRING)) /\ <<>> \in Seq(STRING)
  BY TestClientAssumption
<1>2. Append(file.lines, <<>>) \in Seq(Seq(STRING))
  BY <1>1
<1> QED
  BY <1>1, <1>2 DEF Lines

\* What the input file can be read into.
LEMMA InputIsMessages ==
    ASSUME NEW file \in Files, NEW s \in Inputs(file)
    PROVE  /\ Len(s) \in Nat /\ s \in Seq({s[i] : i \in DOMAIN s})
           /\ \A i \in DOMAIN s : s[i].id = i /\ s[i].type \in UninitType
<1> DEFINE lines == Lines(file)
<1>1. lines \in Seq(Seq(STRING))
  BY LinesType
<1>2. Len(lines) \in Nat /\ DOMAIN lines = 1 .. Len(lines)
  BY <1>1
<1>3. /\ DOMAIN s = 1 .. Len(lines)
      /\ s \in [1 .. Len(lines) -> {s[i] : i \in DOMAIN s}]
      /\ \A i \in DOMAIN s : s[i] \in Parse(lines[i], i)
  BY <1>2 DEF Inputs
<1>4. s \in Seq({s[i] : i \in DOMAIN s})
  BY <1>2, <1>3, SeqDef
<1>5. ASSUME NEW i \in DOMAIN s
      PROVE  s[i].id = i /\ s[i].type \in UninitType
  <2>1. /\ s[i] \in Parse(lines[i], i)
        /\ "GET" \in UninitType /\ "SET" \in UninitType /\ "STAT" \in UninitType
    BY <1>3, TypeAssumption DEF MessageType
  <2> DEFINE f(n) == Field(lines[i], n)
  <2>2. \/ s[i] = Message(i, "GET", f(2), "")
        \/ s[i] = Message(i, "SET", f(2), f(3))
        \/ s[i] = Message(i, "STAT", "", "")
        \/ \E type \in UninitType : s[i] = Message(i, type, "", "")
    <3> HIDE DEF lines
    <3> QED
      BY <2>1, Zenon DEF Parse
  <2>3. \E type \in UninitType : \E k, v : s[i] = Message(i, type, k, v)
    <3> HIDE DEF f
    <3> USE <2>1
    <3>1. CASE s[i] = Message(i, "GET", f(2), "")
      BY <3>1, Zenon
    <3>2. CASE s[i] = Message(i, "SET", f(2), f(3))
      BY <3>2, Zenon
    <3>3. CASE s[i] = Message(i, "STAT", "", "")
      BY <3>3, Zenon
    <3>4. CASE \E type \in UninitType : s[i] = Message(i, type, "", "")
      BY <3>4, Zenon
    <3> QED
      BY <2>2, <3>1, <3>2, <3>3, <3>4
  <2>4. PICK type \in UninitType : \E k, v : s[i] = Message(i, type, k, v)
    BY <2>3, Zenon
  <2>5. PICK k, v : s[i] = Message(i, type, k, v)
    BY <2>4, Zenon
  <2>6. Message(i, type, k, v).id = i /\ Message(i, type, k, v).type = type
    BY MessageFields
  <2> QED
    BY <2>5, <2>6, Zenon
<1> QED
  BY <1>4, <1>5

\* How a thread goes on: to its next message, within the one it is at, or to
\* the end when there is none.
Moves(t) ==
    /\ cpc[t] \in {"loop", "connected", "waiting"}
    /\ \E to \in {"loop", "connected", "waiting", "done"} :
        /\ cpc' = [cpc EXCEPT ![t] = to]
        /\ \/ HasMessage(t) /\ to = "loop" /\ Advance(t)
           \/ HasMessage(t) /\ to # "done" /\ idx' = idx
           \/ ~HasMessage(t) /\ to = "done" /\ idx' = idx

\* Every step of a thread is such a move.
LEMMA RunMoves ==
    ASSUME TypeInv, NEW t \in Thread, Run(t)
    PROVE  Moves(t) /\ UNCHANGED m_inputdata
<1>1. /\ cpc \in [Thread -> {"new", "loop", "connected", "waiting", "done"}]
      /\ cpc[t] \in {"connected", "waiting"} => HasMessage(t)
      /\ [cpc EXCEPT ![t] = cpc[t]] = cpc
  BY DEF TypeInv, SpawnInv, PlaceInv
<1> HIDE DEF HasMessage
<1>2. CASE SocketFails(t)
  BY <1>1, <1>2 DEF SocketFails, Moves
<1>3. CASE ConnectFails(t)
  BY <1>1, <1>3 DEF ConnectFails, Socket, Moves
<1>4. CASE Connect(t)
  BY <1>1, <1>4 DEF Connect, Socket, Goto, Moves
<1>5. ASSUME NEW from \in {"connected", "waiting"}, Abandon(t, from)
      PROVE  Moves(t) /\ UNCHANGED m_inputdata
  BY <1>1, <1>5 DEF Abandon, Goto, Moves
<1>6. CASE RefuseEmptySet(t) \/ WriteFails(t) \/ ReadFails(t)
  BY <1>5, <1>6 DEF RefuseEmptySet, WriteFails, ReadFails
<1>7. CASE InvalidType(t)
  BY <1>1, <1>7 DEF InvalidType, Moves
<1>8. CASE Write(t)
  BY <1>1, <1>8 DEF Write, Goto, Moves
<1>9. CASE Read(t)
  BY <1>1, <1>9 DEF Read, Keep, Goto, Moves
<1>10. CASE Finish(t)
  BY <1>1, <1>10 DEF Finish, Goto, Moves
<1> QED
  BY <1>2, <1>3, <1>4, <1>6, <1>7, <1>8, <1>9, <1>10 DEF Run

\* The shares stay as the input and the number of threads do.
LEMMA SameChunk ==
    ASSUME UNCHANGED <<input_data, m_numThread>>
    PROVE  /\ Entries' = Entries /\ Id' = Id
           /\ \A u : Chunk(u)' = Chunk(u)
BY DEF Entries, Id, Chunk, ChunkSize

\* The next thread is started with its chunk.
LEMMA SpawnType ==
    ASSUME TypeInv, Spawn
    PROVE  TypeInv'
<1> DEFINE t == spawned + 1
<1>1. /\ m_numThread \in Nat /\ spawned \in Nat /\ spawned < m_numThread
      /\ t \in 1 .. m_numThread /\ t \in Thread /\ Thread \subseteq Nat \ {0}
  BY ThreadNumbers DEF TypeInv, InputInv, SpawnInv, Spawn
<1>2. /\ cpc[t] = "new" /\ cpc' = [cpc EXCEPT ![t] = "loop"]
      /\ m_inputdata' = [m_inputdata EXCEPT ![t] = Chunk(t)]
      /\ idx' = idx /\ spawned' = t /\ mainPc = "spawn"
      /\ mainPc' \in {"spawn", "join"}
      /\ mainPc' = "join" => spawned' = m_numThread
      /\ UNCHANGED <<m_inputFile, m_numThread, input_data>>
  BY DEF Spawn, Start, Goto
<1>3. Chunk(t) \in Seq(Entries) /\ \A u : Chunk(u)' = Chunk(u)
  <2>1. Chunk(t) \in Seq(Entries)
    BY <1>1, ChunkIs DEF TypeInv
  <2> QED
    BY <1>2, <2>1, SameChunk
<1>4. InputInv'
  BY <1>2, SameChunk DEF TypeInv, InputInv
<1>5. SpawnInv'
  <2>1. \A u \in Thread : cpc'[u] = "new" <=> u > spawned'
    BY <1>1, <1>2 DEF TypeInv, SpawnInv
  <2> QED
    BY <1>1, <1>2, <2>1 DEF TypeInv, SpawnInv
<1>6. ChunkInv'
  <2>1. Entries' = Entries
    BY <1>2, SameChunk
  <2>2. m_inputdata' \in [Thread -> Seq(Entries)]
    BY <1>1, <1>2, <1>3 DEF TypeInv, ChunkInv
  <2>3. ASSUME NEW u \in Thread
        PROVE  m_inputdata'[u] = IF u <= spawned' THEN Chunk(u)' ELSE <<>>
    <3>1. CASE u = t
      BY <1>1, <1>2, <1>3, <3>1 DEF TypeInv, ChunkInv
    <3>2. CASE u # t
      BY <1>1, <1>2, <1>3, <3>2 DEF TypeInv, ChunkInv
    <3> QED
      BY <3>1, <3>2
  <2> QED
    BY <2>1, <2>2, <2>3 DEF ChunkInv
<1>7. PlaceInv'
  <2>1. ASSUME NEW u \in Thread
        PROVE  /\ idx'[u] <= Len(m_inputdata'[u]) + 1
               /\ cpc'[u] = "new" => idx'[u] = 1
               /\ cpc'[u] \in {"connected", "waiting"} => HasMessage(u)'
               /\ cpc'[u] = "done" => ~HasMessage(u)'
    <3>1. CASE u = t
      <4>1. idx'[u] = 1 /\ m_inputdata'[u] \in Seq(Entries) /\ cpc'[u] = "loop"
        BY <1>1, <1>2, <1>3, <3>1 DEF TypeInv, PlaceInv, ChunkInv, SpawnInv
      <4> QED
        BY <4>1
    <3>2. CASE u # t
      <4>1. /\ idx'[u] = idx[u] /\ m_inputdata'[u] = m_inputdata[u] /\ cpc'[u] = cpc[u]
            /\ HasMessage(u)' <=> HasMessage(u)
        BY <1>1, <1>2, <3>2 DEF TypeInv, ChunkInv, SpawnInv, HasMessage
      <4> QED
        BY <4>1 DEF TypeInv, PlaceInv
    <3> QED
      BY <3>1, <3>2
  <2> QED
    BY <1>2, <2>1 DEF TypeInv, PlaceInv
<1> QED
  BY <1>4, <1>5, <1>6, <1>7 DEF TypeInv

\* What a step of main leaves as it is, after the threads are started.
LEMMA SameType ==
    ASSUME TypeInv,
           UNCHANGED <<m_inputdata, cpc, idx, m_inputFile, m_numThread, input_data, spawned>>,
           \/ mainPc' = mainPc
           \/ /\ mainPc' \in {"save", "done"}
              /\ m_numThread > 0 /\ spawned = m_numThread /\ Joined
    PROVE  TypeInv'
<1>1. InputInv' /\ ChunkInv'
  BY SameChunk DEF TypeInv, InputInv, ChunkInv
<1>2. PlaceInv'
  BY DEF TypeInv, PlaceInv, HasMessage
<1>3. Joined' <=> Joined
  BY DEF Joined
<1>4. SpawnInv'
  BY <1>3 DEF TypeInv, SpawnInv
<1> QED
  BY <1>1, <1>2, <1>4 DEF TypeInv

\* A thread that moves is one of the first, and main waits for it, or is
\* starting the others.
LEMMA MoverStarted ==
    ASSUME TypeInv, NEW t \in Thread, cpc[t] \in {"loop", "connected", "waiting"}
    PROVE  /\ t \in 1 .. m_numThread /\ t <= spawned
           /\ mainPc \in {"spawn", "join"}
<1>1. m_numThread \in Nat /\ t \in Nat \ {0} /\ spawned \in 0 .. m_numThread
  BY ThreadNumbers DEF TypeInv, InputInv, SpawnInv
<1>2. t <= spawned
  BY <1>1 DEF TypeInv, SpawnInv
<1>3. t \in 1 .. m_numThread
  BY <1>1, <1>2
<1> QED
  BY <1>1, <1>2, <1>3 DEF TypeInv, SpawnInv, Joined

\* A thread goes on in its chunk.
LEMMA MovesType ==
    ASSUME TypeInv, NEW t \in Thread, Moves(t), UNCHANGED <<m_inputdata, mainVars>>
    PROVE  TypeInv'
<1>1. /\ UNCHANGED <<m_inputFile, m_numThread, input_data, spawned, mainPc>>
      /\ mainPc \in {"spawn", "join"} /\ t <= spawned
      /\ spawned \in Nat /\ t \in Nat
  BY MoverStarted, ThreadNumbers DEF Moves, mainVars, TypeInv, SpawnInv, InputInv
<1>2. PICK to \in {"loop", "connected", "waiting", "done"} :
        /\ cpc' = [cpc EXCEPT ![t] = to]
        /\ \/ HasMessage(t) /\ to = "loop" /\ Advance(t)
           \/ HasMessage(t) /\ to # "done" /\ idx' = idx
           \/ ~HasMessage(t) /\ to = "done" /\ idx' = idx
  BY DEF Moves
<1>3. /\ cpc \in [Thread -> {"new", "loop", "connected", "waiting", "done"}]
      /\ idx \in [Thread -> Nat \ {0}]
      /\ Len(m_inputdata[t]) \in Nat
  BY DEF TypeInv, SpawnInv, PlaceInv, ChunkInv
<1>4. InputInv' /\ ChunkInv'
  BY <1>1, SameChunk DEF TypeInv, InputInv, ChunkInv
<1>5. SpawnInv'
  <2>1. ASSUME NEW u \in Thread
        PROVE  cpc'[u] = "new" <=> u > spawned'
    <3>1. CASE u = t
      BY <1>1, <1>2, <1>3, <3>1
    <3>2. CASE u # t
      BY <1>1, <1>2, <1>3, <3>2 DEF TypeInv, SpawnInv
    <3> QED
      BY <3>1, <3>2
  <2> QED
    BY <1>1, <1>2, <1>3, <2>1 DEF TypeInv, SpawnInv
<1>6. PlaceInv'
  <2>1. idx' \in [Thread -> Nat \ {0}]
    BY <1>2, <1>3 DEF Advance
  <2>2. ASSUME NEW u \in Thread
        PROVE  /\ idx'[u] <= Len(m_inputdata'[u]) + 1
               /\ cpc'[u] = "new" => idx'[u] = 1
               /\ cpc'[u] \in {"connected", "waiting"} => HasMessage(u)'
               /\ cpc'[u] = "done" => ~HasMessage(u)'
    <3>1. CASE u # t
      <4>1. idx'[u] = idx[u] /\ cpc'[u] = cpc[u]
        BY <1>2, <1>3, <3>1 DEF Advance
      <4> QED
        BY <4>1 DEF TypeInv, PlaceInv, HasMessage
    <3>2. CASE u = t /\ HasMessage(t) /\ to = "loop" /\ Advance(t)
      <4>1. idx'[t] = idx[t] + 1 /\ cpc'[t] = "loop" /\ idx[t] <= Len(m_inputdata[t])
        BY <1>2, <1>3, <3>2 DEF Advance, HasMessage
      <4> QED
        BY <1>3, <3>2, <4>1
    <3>3. CASE u = t /\ idx' = idx /\ (to = "done" <=> ~HasMessage(t))
      <4>1. /\ cpc'[t] = to /\ to # "new"
            /\ HasMessage(t)' <=> HasMessage(t)
        BY <1>2, <1>3, <3>3 DEF HasMessage
      <4> QED
        BY <3>3, <4>1 DEF TypeInv, PlaceInv
    <3> QED
      BY <1>2, <3>1, <3>2, <3>3
  <2> QED
    BY <2>1, <2>2 DEF PlaceInv
<1> QED
  BY <1>4, <1>5, <1>6 DEF TypeInv

\* The file is read.
LEMMA ReadType ==
    ASSUME TypeInv, ReadInput
    PROVE  TypeInv'
<1>1. /\ mainPc = "read" /\ mainPc' = "spawn" /\ input_data' \in Inputs(m_inputFile)
      /\ UNCHANGED <<m_inputFile, m_numThread, spawned, cpc, idx, m_inputdata>>
      /\ spawned = 0 /\ m_inputFile \in Files
  BY DEF ReadInput, clientVars, TypeInv, SpawnInv, InputInv
<1>2. /\ Len(input_data)' \in Nat /\ input_data' \in Seq(Entries')
      /\ \A i \in DOMAIN input_data' :
            input_data'[i].id = i /\ input_data'[i].type \in UninitType
  BY <1>1, InputIsMessages DEF Entries
<1>3. InputInv'
  BY <1>1, <1>2 DEF TypeInv, InputInv, Id
<1>4. SpawnInv'
  BY <1>1 DEF TypeInv, SpawnInv
<1>5. ChunkInv'
  <2>1. ASSUME NEW t \in Thread
        PROVE  m_inputdata[t] = <<>> /\ ~(t <= 0)
    BY <1>1, ThreadNumbers DEF TypeInv, ChunkInv
  <2>2. m_inputdata' \in [Thread -> Seq(Entries')]
    BY <1>1, <2>1 DEF TypeInv, ChunkInv
  <2> QED
    BY <1>1, <2>1, <2>2 DEF ChunkInv
<1>6. PlaceInv'
  BY <1>1 DEF TypeInv, PlaceInv, HasMessage
<1> QED
  BY <1>3, <1>4, <1>5, <1>6 DEF TypeInv

\* Threads and their chunks begin as TypeInv says.
LEMMA TypeInit ==
    ASSUME Init
    PROVE  TypeInv
<1>1. InputInv
  <2>1. input_data = <<>> /\ Id = {}
    BY DEF Init, Id
  <2>2. Len(input_data) \in Nat /\ input_data \in Seq(Entries)
    BY <2>1
  <2> QED
    BY <2>1, <2>2 DEF Init, InputInv
<1>2. m_numThread \in Nat /\ Thread \subseteq Nat \ {0}
  BY <1>1, ThreadNumbers DEF InputInv
<1>3. SpawnInv
  BY <1>2 DEF Init, ClientInit, SpawnInv
<1>4. ChunkInv
  <2>1. \A t \in Thread : ~(t <= 0)
    BY <1>2
  <2> QED
    BY <2>1 DEF Init, ClientInit, ChunkInv
<1>5. PlaceInv
  BY DEF Init, ClientInit, PlaceInv, HasMessage
<1> QED
  BY <1>1, <1>3, <1>4, <1>5 DEF TypeInv

\* Each step keeps what TypeInv says.
LEMMA TypeStep ==
    ASSUME TypeInv, [Next]_vars
    PROVE  TypeInv'
<1>1. CASE ReadInput
  BY <1>1, ReadType
<1>2. CASE ReadMissing \/ DivideByZero
  <2>1. /\ UNCHANGED <<m_inputdata, cpc, idx, m_inputFile, m_numThread, input_data, spawned>>
        /\ mainPc' = mainPc
    BY <1>2 DEF ReadMissing, DivideByZero, Die, mainVars
  <2> QED
    BY <2>1, SameType
<1>3. CASE Spawn
  BY <1>3, SpawnType
<1>4. CASE Collect
  <2>1. m_numThread > 0 /\ spawned = m_numThread /\ Joined
    BY <1>4 DEF Collect, TypeInv, SpawnInv
  <2>2. /\ UNCHANGED <<m_inputdata, cpc, idx, m_inputFile, m_numThread, input_data, spawned>>
        /\ mainPc' \in {"save", "done"}
    BY <1>4 DEF Collect, clientVars
  <2> QED
    BY <2>1, <2>2, SameType
<1>5. CASE SaveLine
  <2>1. /\ UNCHANGED <<m_inputdata, cpc, idx, m_inputFile, m_numThread, input_data, spawned>>
        /\ mainPc' = mainPc
    BY <1>5 DEF SaveLine, clientVars
  <2> QED
    BY <2>1, SameType
<1>6. CASE SaveRest
  <2>1. m_numThread > 0 /\ spawned = m_numThread /\ Joined
    BY <1>6 DEF SaveRest, TypeInv, SpawnInv
  <2>2. /\ UNCHANGED <<m_inputdata, cpc, idx, m_inputFile, m_numThread, input_data, spawned>>
        /\ mainPc' \in {"save", "done"}
    BY <1>6 DEF SaveRest, clientVars
  <2> QED
    BY <2>1, <2>2, SameType
<1>7. ASSUME NEW t \in Thread, ClientThread(t)
      PROVE  TypeInv'
  BY <1>7, RunMoves, MovesType DEF ClientThread
<1>8. CASE UNCHANGED vars
  <2>1. /\ UNCHANGED <<m_inputdata, cpc, idx, m_inputFile, m_numThread, input_data, spawned>>
        /\ mainPc' = mainPc
    BY <1>8 DEF vars, clientVars, mainVars
  <2> QED
    BY <2>1, SameType
<1> QED
  BY <1>1, <1>2, <1>3, <1>4, <1>5, <1>6, <1>7, <1>8 DEF Next, Main
-----------------------------------------------------------------------------
(* The messages: over, under way, and answered.                            *)

Busy(t) == cpc[t] \in {"connected", "waiting"}

\* Which messages are over and under way, in two successive states.
LEMMA Members ==
    /\ \A m : m \in Over <=> \E u \in Thread : \E i \in 1 .. idx[u] - 1 : m = m_inputdata[u][i].id
    /\ \A m : m \in Over' <=> \E u \in Thread : \E i \in 1 .. idx'[u] - 1 : m = m_inputdata'[u][i].id
    /\ \A m : m \in Doing <=> \E u \in Thread : Busy(u) /\ m = m_inputdata[u][idx[u]].id
    /\ \A m : m \in Doing' <=> \E u \in Thread : Busy(u)' /\ m = m_inputdata'[u][idx'[u]].id
BY DEF Over, IdsUpTo, Doing, Current, Busy

\* The message a thread is at is over for no thread, and no other's.
LEMMA CurrentIsOwn ==
    ASSUME TypeInv, NEW t \in Thread, HasMessage(t)
    PROVE  /\ Current(t).id \in Id \ Over
           /\ ~Busy(t) => Current(t).id \notin Doing
           /\ \A u \in Thread \ {t} : Busy(u) => Current(u).id # Current(t).id
<1>1. IdsInv
  BY Division DEF TypeInv
<1>2. ASSUME NEW u \in Thread
      PROVE  /\ idx[u] \in Nat \ {0} /\ idx[u] <= Len(m_inputdata[u]) + 1
             /\ Len(m_inputdata[u]) \in Nat
             /\ Busy(u) => HasMessage(u)
  BY DEF TypeInv, ChunkInv, PlaceInv, Busy
<1>3. idx[t] \in 1 .. Len(m_inputdata[t])
  BY <1>2 DEF HasMessage
<1>4. Current(t).id \in Id
  BY <1>1, <1>3 DEF IdsInv, Current
<1>5. ASSUME NEW u \in Thread, NEW i \in 1 .. idx[u] - 1
      PROVE  m_inputdata[u][i].id # Current(t).id
  <2>1. i \in 1 .. Len(m_inputdata[u]) /\ i < idx[u]
    BY <1>2, <1>5
  <2>2. CASE u = t
    <3>1. m_inputdata[t][i].id < m_inputdata[t][idx[t]].id
      BY <1>1, <1>3, <2>1, <2>2 DEF IdsInv
    <3>2. m_inputdata[t][i].id \in Nat
      BY <1>1, <2>1, <2>2 DEF IdsInv, Id, TypeInv, InputInv
    <3> QED
      BY <1>4, <2>2, <3>1, <3>2 DEF Current, Id, TypeInv, InputInv
  <2>3. CASE u # t
    BY <1>1, <1>3, <2>1, <2>3 DEF IdsInv, Current
  <2> QED
    BY <2>2, <2>3
<1>6. Current(t).id \notin Over
  BY <1>5, Members
<1>7. ASSUME NEW u \in Thread \ {t}, Busy(u)
      PROVE  Current(u).id # Current(t).id
  <2>1. idx[u] \in 1 .. Len(m_inputdata[u])
    BY <1>2, <1>7 DEF HasMessage
  <2> QED
    BY <1>1, <1>3, <1>7, <2>1 DEF IdsInv, Current
<1>8. ~Busy(t) => Current(t).id \notin Doing
  BY <1>7, Members DEF Current
<1> QED
  BY <1>4, <1>6, <1>7, <1>8

\* What is over is not under way; both are messages.
LEMMA OverNotDoing ==
    ASSUME TypeInv
    PROVE  Over \subseteq Id /\ Doing \subseteq Id /\ Over \cap Doing = {}
<1>1. \A t \in Thread : Busy(t) => HasMessage(t)
  BY DEF TypeInv, PlaceInv, Busy
<1>2. Doing \subseteq Id /\ Over \cap Doing = {}
  BY <1>1, CurrentIsOwn, Members DEF Current
<1>3. ASSUME NEW t \in Thread, NEW i \in 1 .. idx[t] - 1
      PROVE  m_inputdata[t][i].id \in Id
  <2>1. i \in 1 .. Len(m_inputdata[t])
    BY <1>3 DEF TypeInv, ChunkInv, PlaceInv
  <2> QED
    BY <2>1, Division DEF TypeInv, IdsInv
<1> QED
  BY <1>2, <1>3, Members

\* To go on to the next message is to be over with the current one.
LEMMA AdvanceOver ==
    ASSUME TypeInv, NEW t \in Thread, Advance(t), HasMessage(t), UNCHANGED m_inputdata,
           cpc' = [cpc EXCEPT ![t] = "loop"]
    PROVE  /\ Over' = Over \cup {Current(t).id}
           /\ Doing' = Doing \ {Current(t).id}
<1>1. /\ idx[t] \in Nat \ {0} /\ idx'[t] = idx[t] + 1 /\ cpc'[t] = "loop"
      /\ \A u \in Thread \ {t} : idx'[u] = idx[u] /\ cpc'[u] = cpc[u]
  BY DEF TypeInv, PlaceInv, SpawnInv, Advance
<1>2. \A i : i \in 1 .. idx'[t] - 1 <=> i \in 1 .. idx[t] - 1 \/ i = idx[t]
  BY <1>1
<1>3. \A m : m \in Over' <=> m \in Over \/ m = Current(t).id
  <2>1. ASSUME NEW m, m \in Over'
        PROVE  m \in Over \/ m = Current(t).id
    <3>1. PICK u \in Thread : \E i \in 1 .. idx'[u] - 1 : m = m_inputdata[u][i].id
      BY <2>1, Members
    <3>2. CASE u = t
      BY <1>2, <3>1, <3>2, Members DEF Current
    <3>3. CASE u # t
      BY <1>1, <3>1, <3>3, Members
    <3> QED
      BY <3>2, <3>3
  <2>2. ASSUME NEW m, m \in Over
        PROVE  m \in Over'
    <3>1. PICK u \in Thread : \E i \in 1 .. idx[u] - 1 : m = m_inputdata[u][i].id
      BY <2>2, Members
    <3>2. CASE u = t
      BY <1>2, <3>1, <3>2, Members
    <3>3. CASE u # t
      BY <1>1, <3>1, <3>3, Members
    <3> QED
      BY <3>2, <3>3
  <2>3. Current(t).id \in Over'
    BY <1>2, Members DEF Current
  <2> QED
    BY <2>1, <2>2, <2>3
<1>4. \A m : m \in Doing' <=> m \in Doing /\ m # Current(t).id
  <2>1. \A m : m \in Doing' <=> \E u \in Thread \ {t} : Busy(u) /\ m = Current(u).id
    BY <1>1, Members DEF Busy, Current
  <2> QED
    BY <2>1, CurrentIsOwn, Members DEF Current
<1> QED
  BY <1>3, <1>4

(* What a step of a thread is to its message: it passes it over, takes it,  *)
(* drops it, has its reply, or waits.                                       *)

Passes(t) ==
    /\ Current(t).id \in Id \ (Over \cup Doing)
    /\ Over' = Over \cup {Current(t).id} /\ Doing' = Doing
    /\ \/ fds' = fds
       \/ fds' = fds \cup {Current(t).id} /\ Cardinality(fds) < MaxFds
    /\ UNCHANGED <<m_results, clock>>

Takes(t) ==
    /\ Current(t).id \in Id \ (Over \cup Doing)
    /\ Over' = Over /\ Doing' = Doing \cup {Current(t).id}
    /\ fds' = fds \cup {Current(t).id} /\ Cardinality(fds) < MaxFds
    /\ UNCHANGED <<m_results, clock>>

Drops(t) ==
    /\ Current(t).id \in Doing
    /\ Over' = Over \cup {Current(t).id} /\ Doing' = Doing \ {Current(t).id}
    /\ UNCHANGED <<m_results, clock, fds>>

Gets(t) ==
    /\ Busy(t) /\ Current(t).id \in Doing
    /\ Advance(t) /\ UNCHANGED m_inputdata
    /\ Over' = Over \cup {Current(t).id} /\ Doing' = Doing \ {Current(t).id}
    /\ fds' = fds \ {Current(t).id}
    /\ \E payload \in {"whole", "front", "nothing"}, now \in {clock, clock + 1} :
        /\ LaterThan(m_results[t], now)
        /\ clock' = now
        /\ m_results' = [m_results EXCEPT ![t] =
               Append(@, [id |-> Current(t).id, payload |-> payload, timestamp |-> now])]

Waits == UNCHANGED <<Over, Doing, m_results, clock, fds>>

\* A message that is dropped.
LEMMA AbandonDrops ==
    ASSUME TypeInv, NEW t \in Thread, NEW from \in {"connected", "waiting"}, Abandon(t, from)
    PROVE  Drops(t)
<1>1. HasMessage(t) /\ Current(t).id \in Doing
  BY Members DEF Abandon, Goto, TypeInv, PlaceInv, Current, Busy
<1> QED
  BY <1>1, AdvanceOver DEF Abandon, Goto, Drops

\* A thread within its message.
LEMMA StillDoing ==
    ASSUME TypeInv, NEW t \in Thread, UNCHANGED <<idx, m_inputdata>>,
           NEW to, cpc' = [cpc EXCEPT ![t] = to]
    PROVE  /\ Over' = Over
           /\ (Busy(t) <=> to \in {"connected", "waiting"}) => Doing' = Doing
           /\ ~Busy(t) /\ to = "connected" => Doing' = Doing \cup {Current(t).id}
<1>1. cpc'[t] = to /\ \A u \in Thread \ {t} : cpc'[u] = cpc[u]
  BY DEF TypeInv, SpawnInv
<1>2. Over' = Over
  BY DEF Over, IdsUpTo
<1>3. ASSUME Busy(t) <=> to \in {"connected", "waiting"}
      PROVE  Doing' = Doing
  <2>1. \A u \in Thread : Busy(u)' <=> Busy(u)
    BY <1>1, <1>3 DEF Busy
  <2>2. \A m : m \in Doing' <=> m \in Doing
    BY <2>1, Members
  <2> QED
    BY <2>2
<1>4. ASSUME ~Busy(t), to = "connected"
      PROVE  Doing' = Doing \cup {Current(t).id}
  <2>1. Busy(t)' /\ \A u \in Thread \ {t} : Busy(u)' <=> Busy(u)
    BY <1>1, <1>4 DEF Busy
  <2>2. \A m : m \in Doing' <=> m \in Doing \/ m = Current(t).id
    BY <1>4, <2>1, Members DEF Current
  <2> QED
    BY <2>2
<1> QED
  BY <1>2, <1>3, <1>4

\* A reply that is read.
LEMMA ReadGets ==
    ASSUME TypeInv, NEW t \in Thread, Read(t)
    PROVE  Gets(t)
<1>1. PICK payload \in Received, now \in {clock, clock + 1}, duration \in Durations :
        /\ LaterThan(m_results[t], now)
        /\ Keep(t, payload, now, duration)
        /\ fds' = fds \ {Current(t).id}
  BY DEF Read
<1>2. cpc[t] = "waiting" /\ cpc' = [cpc EXCEPT ![t] = "loop"]
  BY <1>1 DEF Keep, Goto
<1>3. Busy(t) /\ HasMessage(t) /\ Current(t).id \in Doing
  BY <1>2, Members DEF TypeInv, PlaceInv, Busy, Current
<1>4. Over' = Over \cup {Current(t).id} /\ Doing' = Doing \ {Current(t).id}
  BY <1>1, <1>2, <1>3, AdvanceOver DEF Keep
<1>5. payload \in {"whole", "front", "nothing"}
  BY DEF Received
<1> QED
  BY <1>1, <1>3, <1>4, <1>5 DEF Keep, Gets

\* Every step of a thread is one of these.
LEMMA RunSees ==
    ASSUME TypeInv, NEW t \in Thread, Run(t)
    PROVE  Passes(t) \/ Takes(t) \/ Drops(t) \/ Gets(t) \/ Waits
<1>1. /\ cpc \in [Thread -> {"new", "loop", "connected", "waiting", "done"}]
      /\ [cpc EXCEPT ![t] = cpc[t]] = cpc
      /\ Busy(t) <=> cpc[t] \in {"connected", "waiting"}
      /\ Busy(t) => HasMessage(t) /\ Current(t).id \in Doing
  BY Members DEF TypeInv, SpawnInv, PlaceInv, Busy, Current
<1>2. ASSUME HasMessage(t), ~Busy(t)
      PROVE  Current(t).id \in Id \ (Over \cup Doing)
  BY <1>2, CurrentIsOwn
<1> HIDE DEF HasMessage, Busy
<1>3. CASE SocketFails(t)
  <2>1. HasMessage(t) /\ ~Busy(t) /\ cpc' = [cpc EXCEPT ![t] = "loop"]
    BY <1>1, <1>3 DEF SocketFails
  <2>2. Over' = Over \cup {Current(t).id} /\ Doing' = Doing \ {Current(t).id}
    BY <1>3, <2>1, AdvanceOver DEF SocketFails
  <2> QED
    BY <1>2, <1>3, <2>1, <2>2 DEF SocketFails, Passes
<1>4. CASE ConnectFails(t)
  <2>1. HasMessage(t) /\ ~Busy(t) /\ cpc' = [cpc EXCEPT ![t] = "loop"]
    BY <1>1, <1>4 DEF ConnectFails, Socket
  <2>2. Over' = Over \cup {Current(t).id} /\ Doing' = Doing \ {Current(t).id}
    BY <1>4, <2>1, AdvanceOver DEF ConnectFails, Socket
  <2> QED
    BY <1>2, <1>4, <2>1, <2>2 DEF ConnectFails, Socket, Passes
<1>5. CASE Connect(t)
  <2>1. HasMessage(t) /\ ~Busy(t) /\ cpc' = [cpc EXCEPT ![t] = "connected"]
    BY <1>1, <1>5 DEF Connect, Socket, Goto
  <2>2. Over' = Over /\ Doing' = Doing \cup {Current(t).id}
    BY <1>5, <2>1, StillDoing DEF Connect, Socket
  <2> QED
    BY <1>2, <1>5, <2>1, <2>2 DEF Connect, Socket, Takes
<1>6. CASE RefuseEmptySet(t) \/ WriteFails(t) \/ ReadFails(t)
  BY <1>6, AbandonDrops DEF RefuseEmptySet, WriteFails, ReadFails
<1>7. CASE InvalidType(t)
  <2>1. cpc' = [cpc EXCEPT ![t] = cpc[t]]
    BY <1>1, <1>7 DEF InvalidType
  <2>2. Over' = Over /\ Doing' = Doing
    BY <1>1, <1>7, <2>1, StillDoing DEF InvalidType
  <2> QED
    BY <1>7, <2>2 DEF InvalidType, Waits
<1>8. CASE Write(t)
  <2>1. Busy(t) /\ cpc' = [cpc EXCEPT ![t] = "waiting"]
    BY <1>1, <1>8 DEF Write, Goto
  <2>2. Over' = Over /\ Doing' = Doing
    BY <1>8, <2>1, StillDoing DEF Write
  <2> QED
    BY <1>8, <2>2 DEF Write, Waits
<1>9. CASE Read(t)
  BY <1>9, ReadGets
<1>10. CASE Finish(t)
  <2>1. ~Busy(t) /\ cpc' = [cpc EXCEPT ![t] = "done"]
    BY <1>1, <1>10 DEF Finish, Goto
  <2>2. UNCHANGED <<idx, m_inputdata>> /\ (Busy(t) <=> "done" \in {"connected", "waiting"})
    BY <1>10, <2>1 DEF Finish
  <2>3. Over' = Over /\ Doing' = Doing
    BY <2>1, <2>2, StillDoing
  <2> QED
    BY <1>10, <2>3 DEF Finish, Waits
<1> QED
  BY <1>3, <1>4, <1>5, <1>6, <1>7, <1>8, <1>9, <1>10 DEF Run

\* Main does nothing to the messages.
LEMMA MainWaits ==
    ASSUME TypeInv, Main
    PROVE  Waits
<1>1. CASE Spawn
  <2> DEFINE t == spawned + 1
  <2>1. /\ t \in Thread /\ cpc[t] = "new" /\ cpc' = [cpc EXCEPT ![t] = "loop"]
        /\ m_inputdata' = [m_inputdata EXCEPT ![t] = Chunk(t)]
        /\ UNCHANGED <<idx, m_results, clock, fds>>
    BY <1>1, ThreadNumbers DEF Spawn, Start, Goto, TypeInv, SpawnInv, InputInv
  <2>2. idx[t] = 1
    BY <2>1 DEF TypeInv, PlaceInv
  <2>3. ASSUME NEW u \in Thread
        PROVE  /\ u # t => m_inputdata'[u] = m_inputdata[u]
               /\ Busy(u)' <=> Busy(u)
               /\ Busy(u) => u # t
    BY <2>1 DEF Busy, TypeInv, SpawnInv, ChunkInv
  <2>4. \A i : i \notin 1 .. idx[t] - 1
    BY <2>2
  <2> HIDE DEF t
  <2>5. \A m : m \in Over' <=> m \in Over
    BY <2>1, <2>3, <2>4, Members
  <2>6. \A m : m \in Doing' <=> m \in Doing
    BY <2>1, <2>3, Members
  <2> QED
    BY <2>1, <2>5, <2>6 DEF Waits
<1>2. CASE UNCHANGED <<cpc, idx, m_inputdata, m_results, clock, fds>>
  BY <1>2 DEF Waits, Over, IdsUpTo, Doing, Current
<1>3. CASE ReadMissing \/ DivideByZero
  BY <1>2, <1>3 DEF ReadMissing, DivideByZero, Die
<1>4. CASE ReadInput \/ Collect \/ SaveLine \/ SaveRest
  BY <1>2, <1>4 DEF ReadInput, Collect, SaveLine, SaveRest, clientVars
<1> QED
  BY <1>1, <1>3, <1>4 DEF Main
-----------------------------------------------------------------------------
(* The results, and the sockets.                                           *)

OwnOver(t) == IdsUpTo(t, idx[t] - 1)

\* What is over for a thread stays so.
LEMMA OwnGrows ==
    ASSUME TypeInv, [Next]_vars, NEW u \in Thread
    PROVE  OwnOver(u) \subseteq OwnOver(u)'
<1>1. idx[u] \in Nat
  BY DEF TypeInv, PlaceInv
<1>2. ASSUME m_inputdata'[u] = m_inputdata[u], idx'[u] \in {idx[u], idx[u] + 1}
      PROVE  OwnOver(u) \subseteq OwnOver(u)'
  <2>1. \A i : i \in 1 .. idx[u] - 1 => i \in 1 .. idx'[u] - 1
    BY <1>1, <1>2
  <2> QED
    BY <1>2, <2>1 DEF OwnOver, IdsUpTo
<1>3. CASE Spawn
  <2>1. /\ cpc[spawned + 1] = "new" /\ idx' = idx
        /\ m_inputdata' = [m_inputdata EXCEPT ![spawned + 1] = Chunk(spawned + 1)]
    BY <1>3 DEF Spawn, Start, Goto
  <2>2. CASE u = spawned + 1
    <3>1. \A i : i \notin 1 .. idx[u] - 1
      BY <2>1, <2>2 DEF TypeInv, PlaceInv
    <3> QED
      BY <3>1 DEF OwnOver, IdsUpTo
  <2>3. CASE u # spawned + 1
    BY <1>2, <2>1, <2>3 DEF TypeInv, ChunkInv
  <2> QED
    BY <2>2, <2>3
<1>4. CASE ReadInput \/ ReadMissing \/ DivideByZero \/ Collect \/ SaveLine \/ SaveRest \/ UNCHANGED vars
  BY <1>2, <1>4 DEF ReadInput, ReadMissing, DivideByZero, Die, Collect, SaveLine, SaveRest, vars, clientVars
<1>5. ASSUME NEW t \in Thread, ClientThread(t)
      PROVE  OwnOver(u) \subseteq OwnOver(u)'
  <2>1. Moves(t) /\ m_inputdata' = m_inputdata
    BY <1>5, RunMoves DEF ClientThread
  <2>2. idx' = idx \/ Advance(t)
    BY <2>1 DEF Moves
  <2>3. idx'[u] \in {idx[u], idx[u] + 1}
    BY <2>2 DEF Advance, TypeInv, PlaceInv
  <2> QED
    BY <1>2, <2>1, <2>3
<1> QED
  BY <1>3, <1>4, <1>5 DEF Next, Main

\* A step is a thread's, or does nothing to the messages.
LEMMA StepSees ==
    ASSUME TypeInv, [Next]_vars
    PROVE  \/ Waits
           \/ \E t \in Thread :
                /\ UNCHANGED mainVars
                /\ Passes(t) \/ Takes(t) \/ Drops(t) \/ Gets(t)
<1>1. CASE Main
  BY <1>1, MainWaits
<1>2. CASE UNCHANGED vars
  BY <1>2 DEF Waits, Over, IdsUpTo, Doing, Current, vars, clientVars
<1>3. ASSUME NEW t \in Thread, ClientThread(t)
      PROVE  Waits \/ (UNCHANGED mainVars /\ (Passes(t) \/ Takes(t) \/ Drops(t) \/ Gets(t)))
  BY <1>3, RunSees DEF ClientThread
<1> QED
  BY <1>1, <1>2, <1>3 DEF Next

\* The result a thread has got.
Last(t) == m_results'[t][Len(m_results[t]) + 1]

\* The results of a thread that has got one.
LEMMA GetsIs ==
    ASSUME TypeInv, ResultInv, NEW t \in Thread, Gets(t)
    PROVE  /\ Last(t) \in Result /\ Last(t).id = Current(t).id
           /\ Last(t).timestamp = clock' /\ clock' \in {clock, clock + 1}
           /\ m_results' \in [Thread -> Seq(Result)]
           /\ \A u \in Thread \ {t} : m_results'[u] = m_results[u]
           /\ Len(m_results[t]) \in Nat /\ DOMAIN m_results[t] = 1 .. Len(m_results[t])
           /\ DOMAIN m_results'[t] = 1 .. Len(m_results[t]) + 1
           /\ \A i \in DOMAIN m_results[t] :
                m_results'[t][i] = m_results[t][i] /\ m_results[t][i].timestamp < clock'
<1>1. PICK payload \in {"whole", "front", "nothing"}, now \in {clock, clock + 1} :
        /\ LaterThan(m_results[t], now)
        /\ clock' = now
        /\ m_results' = [m_results EXCEPT ![t] =
               Append(@, [id |-> Current(t).id, payload |-> payload, timestamp |-> now])]
  BY DEF Gets
<1> DEFINE r == [id |-> Current(t).id, payload |-> payload, timestamp |-> now]
<1>2. Current(t).id \in Nat /\ now \in Nat
  BY <1>1, OverNotDoing DEF Gets, ResultInv, Id, TypeInv, InputInv
<1>3. r \in Result
  BY <1>2 DEF Result
<1>4. m_results[t] \in Seq(Result) /\ m_results'[t] = Append(m_results[t], r)
  BY <1>1 DEF ResultInv
<1>5. /\ Len(m_results[t]) \in Nat /\ DOMAIN m_results[t] = 1 .. Len(m_results[t])
      /\ Append(m_results[t], r) \in Seq(Result)
      /\ DOMAIN Append(m_results[t], r) = 1 .. Len(m_results[t]) + 1
      /\ Append(m_results[t], r)[Len(m_results[t]) + 1] = r
      /\ \A i \in 1 .. Len(m_results[t]) : Append(m_results[t], r)[i] = m_results[t][i]
  BY <1>3, <1>4
<1>6. /\ m_results' \in [Thread -> Seq(Result)]
      /\ \A u \in Thread \ {t} : m_results'[u] = m_results[u]
  BY <1>1, <1>3, <1>4, <1>5 DEF ResultInv
<1>7. \A i \in DOMAIN m_results[t] : m_results[t][i].timestamp < clock'
  BY <1>1 DEF LaterThan
<1>8. Last(t) = r
  BY <1>4, <1>5 DEF Last
<1> QED
  BY <1>1, <1>3, <1>4, <1>5, <1>6, <1>7, <1>8

\* Results are of messages that are over.
LEMMA AnsweredOver ==
    ASSUME ResultInv
    PROVE  /\ \A t \in Thread : \A j \in DOMAIN m_results[t] : m_results[t][j].id \in OwnOver(t)
           /\ Answered \subseteq Over
           /\ Results \subseteq Result
<1>1. \A t \in Thread : \A j \in DOMAIN m_results[t] : m_results[t][j].id \in OwnOver(t)
  BY DEF ResultInv, OwnOver
<1>2. Answered \subseteq Over
  BY <1>1 DEF Answered, Results, Kept, Over, OwnOver
<1>3. Results \subseteq Result
  BY DEF ResultInv, Results, Kept
<1> QED
  BY <1>1, <1>2, <1>3

\* What a thread's reply adds to the results.
LEMMA GetsAdds ==
    ASSUME TypeInv, ResultInv, NEW t \in Thread, Gets(t)
    PROVE  /\ Results' = Results \cup {Last(t)}
           /\ Answered' = Answered \cup {Current(t).id}
<1>1. /\ Last(t).id = Current(t).id
      /\ \A u \in Thread \ {t} : m_results'[u] = m_results[u]
      /\ Len(m_results[t]) \in Nat /\ DOMAIN m_results[t] = 1 .. Len(m_results[t])
      /\ DOMAIN m_results'[t] = 1 .. Len(m_results[t]) + 1
      /\ \A i \in DOMAIN m_results[t] : m_results'[t][i] = m_results[t][i]
  BY GetsIs
<1>2. \A u \in Thread \ {t} : Kept(u)' = Kept(u)
  BY <1>1 DEF Kept
<1>3. Kept(t)' = Kept(t) \cup {Last(t)}
  <2>1. ASSUME NEW r, r \in Kept(t)'
        PROVE  r \in Kept(t) \cup {Last(t)}
    BY <1>1, <2>1 DEF Kept, Last
  <2>2. ASSUME NEW r, r \in Kept(t)
        PROVE  r \in Kept(t)'
    BY <1>1, <2>2 DEF Kept
  <2>3. Last(t) \in Kept(t)'
    BY <1>1 DEF Kept, Last
  <2> QED
    BY <2>1, <2>2, <2>3
<1>4. Results' = Results \cup {Last(t)}
  BY <1>2, <1>3 DEF Results
<1> QED
  BY <1>1, <1>4 DEF Answered

\* Where there is no reply the results stay.
LEMMA SameResults ==
    ASSUME UNCHANGED m_results
    PROVE  Results' = Results /\ Answered' = Answered /\ \A t : Kept(t)' = Kept(t)
BY DEF Results, Answered, Kept

\* A reply is later than the results of its thread, and of a later message.
LEMMA ResultStep ==
    ASSUME TypeInv, ResultInv, [Next]_vars
    PROVE  ResultInv'
<1>1. CASE UNCHANGED <<m_results, clock>>
  BY <1>1, OwnGrows DEF ResultInv, OwnOver
<1>2. ASSUME NEW t \in Thread, Gets(t)
      PROVE  ResultInv'
  <2> DEFINE n == Len(m_results[t])
  <2>1. /\ Last(t) \in Result /\ Last(t).id = Current(t).id
        /\ Last(t).timestamp = clock' /\ clock' \in {clock, clock + 1}
        /\ m_results' \in [Thread -> Seq(Result)]
        /\ \A u \in Thread \ {t} : m_results'[u] = m_results[u]
        /\ n \in Nat /\ DOMAIN m_results[t] = 1 .. n
        /\ DOMAIN m_results'[t] = 1 .. n + 1
        /\ \A i \in DOMAIN m_results[t] :
                m_results'[t][i] = m_results[t][i] /\ m_results[t][i].timestamp < clock'
    BY <1>2, GetsIs
  <2>2. clock \in Nat /\ clock' \in Nat /\ clock <= clock'
    BY <2>1 DEF ResultInv
  <2>3. ASSUME NEW u \in Thread, NEW j \in DOMAIN m_results[u]
        PROVE  /\ m_results[u][j].id \in OwnOver(u) /\ m_results[u][j].id \in OwnOver(u)'
               /\ m_results[u][j].timestamp \in Nat /\ m_results[u][j].timestamp <= clock
    <3>1. m_results[u][j].id \in OwnOver(u) /\ OwnOver(u) \subseteq OwnOver(u)'
      BY OwnGrows, AnsweredOver
    <3>2. m_results[u][j] \in Result /\ m_results[u][j].timestamp <= clock
      BY DEF ResultInv
    <3> QED
      BY <3>1, <3>2 DEF Result
  <2>4. Current(t).id \in OwnOver(t)'
    <3>1. idx'[t] - 1 = idx[t] /\ idx[t] \in Nat \ {0}
      BY <1>2 DEF Gets, Advance, TypeInv, PlaceInv
    <3>2. idx[t] \in 1 .. idx'[t] - 1 /\ m_inputdata' = m_inputdata
      BY <1>2, <3>1 DEF Gets
    <3> QED
      BY <3>2 DEF OwnOver, IdsUpTo, Current
  <2>5. \A i \in 1 .. n : m_results[t][i].id < Current(t).id
    <3>1. /\ idx[t] \in 1 .. Len(m_inputdata[t])
          /\ Len(m_inputdata[t]) \in Nat
      BY <1>2 DEF Gets, TypeInv, PlaceInv, ChunkInv, HasMessage, Busy
    <3>2. IdsInv
      BY Division DEF TypeInv
    <3>3. \A k \in 1 .. idx[t] - 1 : k \in 1 .. Len(m_inputdata[t]) /\ k < idx[t]
      BY <3>1
    <3>4. \A k \in 1 .. idx[t] - 1 : m_inputdata[t][k].id < m_inputdata[t][idx[t]].id
      BY <3>1, <3>2, <3>3 DEF IdsInv
    <3>5. \A i \in 1 .. n : \E k \in 1 .. idx[t] - 1 : m_results[t][i].id = m_inputdata[t][k].id
      <4>1. \A i \in 1 .. n : m_results[t][i].id \in OwnOver(t)
        BY <2>1, <2>3
      <4> QED
        BY <4>1 DEF OwnOver, IdsUpTo
    <3> QED
      BY <3>4, <3>5 DEF Current
  <2>6. ASSUME NEW u \in Thread, NEW j \in DOMAIN m_results'[u]
        PROVE  /\ m_results'[u][j].id \in OwnOver(u)'
               /\ m_results'[u][j].timestamp <= clock'
    <3>1. CASE u # t
      BY <2>1, <2>2, <2>3, <3>1
    <3>2. CASE u = t /\ j \in 1 .. n
      BY <2>1, <2>2, <2>3, <3>2
    <3>3. CASE u = t /\ j = n + 1
      BY <2>1, <2>2, <2>4, <3>3 DEF Last
    <3> QED
      BY <2>1, <3>1, <3>2, <3>3
  <2>7. ASSUME NEW u \in Thread, NEW i \in DOMAIN m_results'[u], NEW j \in DOMAIN m_results'[u], i < j
        PROVE  /\ m_results'[u][i].id < m_results'[u][j].id
               /\ m_results'[u][i].timestamp < m_results'[u][j].timestamp
    <3>1. CASE u # t
      BY <2>1, <2>7, <3>1 DEF ResultInv
    <3>2. CASE u = t /\ j \in 1 .. n
      <4>1. i \in 1 .. n
        BY <2>1, <2>7, <3>2
      <4> QED
        BY <2>1, <2>7, <3>2, <4>1 DEF ResultInv
    <3>3. CASE u = t /\ j = n + 1
      <4>1. i \in 1 .. n
        BY <2>1, <2>7, <3>3
      <4> QED
        BY <2>1, <2>5, <3>3, <4>1 DEF Last
    <3> QED
      BY <2>1, <3>1, <3>2, <3>3
  <2> QED
    BY <2>1, <2>2, <2>6, <2>7 DEF ResultInv, OwnOver
<1> QED
  BY <1>1, <1>2, StepSees DEF Waits, Passes, Takes, Drops

LeakInv == LeaksAreLosses /\ FdInv /\ ClockInv

\* A descriptor goes with the message a thread takes, and closed with its reply.
LEMMA LeakStep ==
    ASSUME TypeInv, ResultInv, LeakInv, [Next]_vars
    PROVE  LeakInv'
<1>1. Over \subseteq Id /\ Doing \subseteq Id /\ Over \cap Doing = {} /\ Answered \subseteq Over
  BY OverNotDoing, AnsweredOver
<1>2. fds \cap Answered = {} /\ Doing \subseteq fds /\ fds \subseteq Doing \cup Over
  BY DEF LeakInv, LeaksAreLosses
<1>3. IsFiniteSet(fds) /\ Cardinality(fds) <= MaxFds /\ MaxFds \in Nat /\ Cardinality(fds) \in Nat
  BY FS_CardinalityType, ClientAssumption DEF LeakInv, FdInv
<1>4. clock \in Nat /\ clock <= Cardinality(Answered) /\ IsFiniteSet(Answered) /\ Cardinality(Answered) \in Nat
  <2>1. IsFiniteSet(Id)
    BY FS_Interval DEF Id, TypeInv, InputInv
  <2> QED
    BY <1>1, <2>1, FS_Subset, FS_CardinalityType DEF ResultInv, LeakInv, ClockInv
<1>5. ASSUME NEW m, Cardinality(fds) < MaxFds, fds' = fds \cup {m}
      PROVE  FdInv'
  BY <1>3, <1>5, FS_AddElement DEF FdInv
<1>6. ASSUME UNCHANGED <<m_results, clock>>
      PROVE  ClockInv'
  BY <1>4, <1>6, SameResults DEF ClockInv
<1>7. CASE Waits
  BY <1>2, <1>3, <1>6, <1>7, SameResults DEF Waits, LeakInv, LeaksAreLosses, FdInv
<1>8. ASSUME NEW t \in Thread, Passes(t)
      PROVE  LeakInv'
  <2>1. LeaksAreLosses'
    BY <1>1, <1>2, <1>8, SameResults DEF Passes, LeaksAreLosses
  <2>2. FdInv'
    BY <1>3, <1>5, <1>8 DEF Passes, FdInv
  <2> QED
    BY <1>6, <1>8, <2>1, <2>2 DEF Passes, LeakInv
<1>9. ASSUME NEW t \in Thread, Takes(t)
      PROVE  LeakInv'
  <2>1. LeaksAreLosses'
    BY <1>1, <1>2, <1>9, SameResults DEF Takes, LeaksAreLosses
  <2> QED
    BY <1>5, <1>6, <1>9, <2>1 DEF Takes, LeakInv
<1>10. ASSUME NEW t \in Thread, Drops(t)
      PROVE  LeakInv'
  <2>1. LeaksAreLosses'
    BY <1>1, <1>2, <1>10, SameResults DEF Drops, LeaksAreLosses
  <2> QED
    BY <1>3, <1>6, <1>10, <2>1 DEF Drops, LeakInv, FdInv
<1>11. ASSUME NEW t \in Thread, Gets(t)
      PROVE  LeakInv'
  <2>1. Answered' = Answered \cup {Current(t).id} /\ clock' \in {clock, clock + 1}
    BY <1>11, GetsAdds, GetsIs
  <2>2. LeaksAreLosses'
    BY <1>1, <1>2, <1>11, <2>1 DEF Gets, LeaksAreLosses
  <2>3. FdInv'
    <3>1. /\ IsFiniteSet(fds \ {Current(t).id})
          /\ Cardinality(fds \ {Current(t).id}) = Cardinality(fds) - 1
      BY <1>2, <1>3, <1>11, FS_RemoveElement DEF Gets
    <3> QED
      BY <1>3, <1>11, <3>1 DEF Gets, FdInv
  <2>4. Current(t).id \notin Answered
    BY <1>1, <1>11 DEF Gets
  <2>5. ClockInv'
    <3>1. Cardinality(Answered') = Cardinality(Answered) + 1
      BY <1>4, <2>1, <2>4, FS_AddElement
    <3> QED
      BY <1>4, <2>1, <3>1 DEF ClockInv
  <2> QED
    BY <2>2, <2>3, <2>5 DEF LeakInv
<1> QED
  BY <1>7, <1>8, <1>9, <1>10, <1>11, StepSees

\* Nothing is open and nothing answered at the start.
LEMMA LeakInit ==
    ASSUME Init
    PROVE  ResultInv /\ LeakInv
<1>1. /\ cpc = [t \in Thread |-> "new"] /\ m_results = [t \in Thread |-> <<>>]
      /\ idx = [t \in Thread |-> 1] /\ fds = {} /\ clock = 0
  BY DEF Init, ClientInit
<1>2. \A t \in Thread : m_results[t] \in Seq(Result) /\ DOMAIN m_results[t] = {}
  BY <1>1
<1>3. ResultInv
  BY <1>1, <1>2 DEF ResultInv
<1>4. Answered = {} /\ Doing = {}
  BY <1>1, <1>2 DEF Answered, Results, Kept, Doing
<1>5. IsFiniteSet({}) /\ Cardinality({}) = 0
  BY FS_EmptySet
<1>6. LeakInv
  BY <1>1, <1>4, <1>5, ClientAssumption DEF LeakInv, LeaksAreLosses, FdInv, ClockInv
<1> QED
  BY <1>3, <1>6

\* What the invariants say of the types of the variables.
LEMMA TypesFollow ==
    ASSUME TypeInv, ResultInv, LeakInv, died \in BOOLEAN
    PROVE  TypeOK
<1>1. Over \subseteq Id /\ Doing \subseteq Id /\ Answered \subseteq Over
  BY OverNotDoing, AnsweredOver
<1>2. fds \subseteq Id /\ Answered \subseteq Id /\ Cardinality(fds) <= MaxFds
  BY <1>1 DEF LeakInv, LeaksAreLosses, FdInv
<1>3. clock \in 0 .. Len(input_data)
  <2>1. Id = 1 .. Len(input_data) /\ Len(input_data) \in Nat
    BY DEF Id, TypeInv, InputInv
  <2>2. IsFiniteSet(Id) /\ Cardinality(Id) = Len(input_data)
    BY <2>1, FS_Interval
  <2>3. Cardinality(Answered) <= Cardinality(Id) /\ Cardinality(Answered) \in Nat
    BY <1>2, <2>2, FS_Subset, FS_CardinalityType
  <2> QED
    BY <2>1, <2>2, <2>3 DEF ResultInv, LeakInv, ClockInv
<1>4. \A t \in Thread : idx[t] \in 1 .. Len(m_inputdata[t]) + 1
  BY DEF TypeInv, PlaceInv, ChunkInv
<1> QED
  BY <1>2, <1>3, <1>4 DEF TypeOK, TypeInv, InputInv, SpawnInv

\* died is set, or left.
LEMMA DiedStep ==
    ASSUME died \in BOOLEAN, [Next]_vars
    PROVE  died' \in BOOLEAN
<1>1. CASE Main
  BY <1>1 DEF Main, ReadInput, ReadMissing, DivideByZero, Die, Spawn, Start, Collect, SaveLine,
              SaveRest, clientVars
<1>2. ASSUME NEW t \in Thread, ClientThread(t)
      PROVE  died' \in BOOLEAN
  <2>1. Run(t)
    BY <1>2 DEF ClientThread
  <2>2. CASE RefuseEmptySet(t) \/ WriteFails(t) \/ ReadFails(t)
    BY <2>2 DEF RefuseEmptySet, WriteFails, ReadFails, Abandon
  <2>3. CASE InvalidType(t)
    BY <2>3 DEF InvalidType
  <2>4. CASE SocketFails(t) \/ ConnectFails(t) \/ Connect(t)
    BY <2>4 DEF SocketFails, ConnectFails, Connect, Socket
  <2>5. CASE Write(t) \/ Read(t) \/ Finish(t)
    BY <2>5 DEF Write, Read, Keep, Finish
  <2> QED
    BY <2>1, <2>2, <2>3, <2>4, <2>5 DEF Run
<1>3. CASE UNCHANGED vars
  BY <1>3 DEF vars, clientVars
<1> QED
  BY <1>1, <1>2, <1>3 DEF Next

ThreadsInv == TypeInv /\ ResultInv /\ LeakInv

\* The invariant of the threads holds throughout.
THEOREM ThreadsCorrect == Spec => []ThreadsInv
<1>1. Init => ThreadsInv
  BY TypeInit, LeakInit DEF ThreadsInv
<1>2. ThreadsInv /\ [Next]_vars => ThreadsInv'
  BY TypeStep, ResultStep, LeakStep DEF ThreadsInv
<1> QED
  BY <1>1, <1>2, PTL DEF Spec

\* Every variable of the test client keeps its type, for any file, threads and
\* faults: descriptors and results are of messages, the process never has more
\* than MaxFds sockets open, and time passes only with results.
THEOREM ClientTypeCorrect == Spec => []TypeOK
<1>1. Init => died \in BOOLEAN
  BY DEF Init, ClientInit
<1>2. died \in BOOLEAN /\ [Next]_vars => (died \in BOOLEAN)'
  BY DiedStep
<1>3. ThreadsInv /\ died \in BOOLEAN => TypeOK
  BY TypesFollow DEF ThreadsInv
<1> QED
  BY <1>1, <1>2, <1>3, ThreadsCorrect, PTL DEF Spec

\* The early returns of startClient and sendData leave their socket open, and
\* nothing else does: a descriptor is of the message a thread is at, or of one
\* that is over without a result.
THEOREM LeaksCorrect == Spec => []LeaksAreLosses
<1>1. ThreadsInv => LeaksAreLosses
  BY DEF ThreadsInv, LeakInv
<1> QED
  BY <1>1, ThreadsCorrect, PTL
-----------------------------------------------------------------------------
(* The result file.                                                        *)

\* What is saved in two sequences is saved; a batch that is full goes to the
\* end of the file, and a line to the end of the batch.
LEMMA SavedIs ==
    /\ data \in Seq(Result) /\ outfile \in Seq(Result) =>
        /\ Saved \in Seq(Result) /\ Len(Saved) \in Nat /\ DOMAIN Saved = 1 .. Len(Saved)
        /\ \A r \in Result : outfile \o Append(data, r) = Append(Saved, r)
    /\ \A s \in Seq(Result) : s \o <<>> = s /\ <<>> \o s = s
<1>1. ASSUME NEW s \in Seq(Result)
      PROVE  s \o <<>> = s /\ <<>> \o s = s
  BY ConcatEmptySeq
<1>2. ASSUME data \in Seq(Result), outfile \in Seq(Result)
      PROVE  /\ Saved \in Seq(Result) /\ Len(Saved) \in Nat /\ DOMAIN Saved = 1 .. Len(Saved)
             /\ \A r \in Result : outfile \o Append(data, r) = Append(Saved, r)
  <2>1. Saved \in Seq(Result)
    BY <1>2, ConcatProperties DEF Saved
  <2>2. ASSUME NEW r \in Result
        PROVE  outfile \o Append(data, r) = Append(Saved, r)
    <3>1. Append(data, r) = data \o <<r>> /\ Append(Saved, r) = Saved \o <<r>> /\ <<r>> \in Seq(Result)
      BY <1>2, <2>1, AppendIsConcat
    <3> QED
      BY <1>2, <3>1, ConcatAssociative DEF Saved
  <2> QED
    BY <2>1, <2>2
<1> QED
  BY <1>1, <1>2

\* No two results are of one message.
LEMMA OneResult ==
    ASSUME TypeInv, ResultInv,
           NEW t \in Thread, NEW a \in DOMAIN m_results[t],
           NEW u \in Thread, NEW b \in DOMAIN m_results[u],
           m_results[t][a].id = m_results[u][b].id
    PROVE  t = u /\ a = b
<1>1. PICK i \in 1 .. idx[t] - 1 : m_results[t][a].id = m_inputdata[t][i].id
  BY DEF ResultInv, IdsUpTo
<1>2. PICK j \in 1 .. idx[u] - 1 : m_results[u][b].id = m_inputdata[u][j].id
  BY DEF ResultInv, IdsUpTo
<1>3. i \in 1 .. Len(m_inputdata[t]) /\ j \in 1 .. Len(m_inputdata[u])
  BY DEF TypeInv, PlaceInv, ChunkInv
<1>4. t = u
  <2>1. IdsInv
    BY Division DEF TypeInv
  <2>2. m_inputdata[t][i].id = m_inputdata[u][j].id
    BY <1>1, <1>2
  <2> QED
    BY <1>3, <2>1, <2>2 DEF IdsInv
<1>5. a \in Nat /\ b \in Nat /\ m_results[t][a] \in Result
  BY <1>4 DEF ResultInv
<1>6. ~(a < b) /\ ~(b < a)
  BY <1>4, <1>5 DEF ResultInv, Result
<1> QED
  BY <1>4, <1>5, <1>6

\* The order of the file, from the order of what is saved.
LEMMA OrderFollows ==
    ASSUME TypeInv, ResultInv, SaveInv
    PROVE  FileInOrder
<1> SUFFICES ASSUME NEW i \in DOMAIN Saved, NEW j \in DOMAIN Saved, i < j
             PROVE  /\ Saved[i].timestamp <= Saved[j].timestamp
                    /\ Saved[i].id # Saved[j].id
                    /\ \A c \in Chunks :
                        {Saved[i].id, Saved[j].id} \subseteq {c[k].id : k \in DOMAIN c}
                            => Saved[i].id < Saved[j].id
  BY DEF FileInOrder
<1>1. mainPc \in {"save", "done"}
  <2>1. mainPc \notin {"save", "done"} => Saved = <<>>
    BY DEF SaveInv, Saved
  <2> QED
    BY <2>1
<1>2. /\ Saved[i] \in Results /\ Saved[j] \in Results
      /\ Saved[i].timestamp <= Saved[j].timestamp /\ Saved[i] # Saved[j]
  BY <1>1 DEF SaveInv
<1>3. PICK t \in Thread : \E a \in DOMAIN m_results[t] : Saved[i] = m_results[t][a]
  BY <1>2 DEF Results, Kept
<1>4. PICK a \in DOMAIN m_results[t] : Saved[i] = m_results[t][a]
  BY <1>3
<1>5. PICK u \in Thread : \E b \in DOMAIN m_results[u] : Saved[j] = m_results[u][b]
  BY <1>2 DEF Results, Kept
<1>6. PICK b \in DOMAIN m_results[u] : Saved[j] = m_results[u][b]
  BY <1>5
<1>7. Saved[i].id # Saved[j].id
  BY <1>2, <1>4, <1>6, OneResult
<1>8. ASSUME t = u
      PROVE  Saved[i].id < Saved[j].id
  <2>1. a \in Nat /\ b \in Nat /\ a # b
    BY <1>2, <1>4, <1>6, <1>8 DEF ResultInv
  <2>2. ~(b < a)
    <3>1. m_results[t][a] \in Result /\ m_results[t][b] \in Result
      BY <1>8 DEF ResultInv
    <3>2. m_results[t][a].timestamp \in Nat /\ m_results[t][b].timestamp \in Nat
      BY <3>1 DEF Result
    <3> QED
      BY <1>2, <1>4, <1>6, <1>8, <3>2 DEF ResultInv
  <2> QED
    BY <1>4, <1>6, <1>8, <2>1, <2>2 DEF ResultInv
<1>9. ASSUME NEW c \in Chunks, {Saved[i].id, Saved[j].id} \subseteq {c[k].id : k \in DOMAIN c}
      PROVE  t = u
  <2>1. PICK v \in Thread : c = m_inputdata[v]
    BY ThreadNumbers DEF Chunks, TypeInv, InputInv
  <2>2. DOMAIN c = 1 .. Len(m_inputdata[v])
    BY <2>1 DEF TypeInv, ChunkInv
  <2>3. PICK k \in 1 .. Len(m_inputdata[v]), l \in 1 .. Len(m_inputdata[v]) :
            Saved[i].id = m_inputdata[v][k].id /\ Saved[j].id = m_inputdata[v][l].id
    BY <1>9, <2>1, <2>2
  <2>4. ASSUME NEW w \in Thread, NEW d \in DOMAIN m_results[w], NEW n \in 1 .. Len(m_inputdata[v]),
               m_results[w][d].id = m_inputdata[v][n].id
        PROVE  w = v
    <3>1. PICK p \in 1 .. idx[w] - 1 : m_results[w][d].id = m_inputdata[w][p].id
      BY DEF ResultInv, IdsUpTo
    <3>2. p \in 1 .. Len(m_inputdata[w])
      BY DEF TypeInv, PlaceInv, ChunkInv
    <3>3. IdsInv
      BY Division DEF TypeInv
    <3>4. m_inputdata[w][p].id = m_inputdata[v][n].id
      BY <2>4, <3>1
    <3> QED
      BY <3>2, <3>3, <3>4 DEF IdsInv
  <2> QED
    BY <1>4, <1>6, <2>3, <2>4
<1> QED
  BY <1>2, <1>7, <1>8, <1>9

\* The results that are there when all are started are those of the threads.
LEMMA AllKept ==
    ASSUME TypeInv, ResultInv, spawned = m_numThread
    PROVE  Results = UNION {Kept(i) : i \in 1 .. m_numThread}
<1>1. ASSUME NEW t \in Thread, t \notin 1 .. m_numThread
      PROVE  Kept(t) = {}
  <2>1. m_numThread \in Nat /\ t \in Nat \ {0}
    BY ThreadNumbers DEF TypeInv, InputInv
  <2>2. cpc[t] = "new" /\ idx[t] = 1
    BY <1>1, <2>1 DEF TypeInv, SpawnInv, PlaceInv
  <2>3. OwnOver(t) = {}
    BY <2>2 DEF OwnOver, IdsUpTo
  <2> QED
    BY <2>3, AnsweredOver DEF Kept
<1>2. 1 .. m_numThread \subseteq Thread
  BY ThreadNumbers DEF TypeInv, InputInv
<1> QED
  BY <1>1, <1>2 DEF Results

\* One turn of the loop puts one result at the end of what is saved, or passes
\* over it; whether a batch is full makes no difference.
LEMMA SaveLineIs ==
    ASSUME SaveInv, ResultInv, SaveLine
    PROVE  /\ data' \in Seq(Result) /\ outfile' \in Seq(Result)
           /\ \E r \in results :
                /\ Least(r) /\ results' = results \ {r}
                /\ Saved' = IF Named(r) THEN Append(Saved, r) ELSE Saved
<1>1. PICK r \in results :
        /\ mainPc = "save" /\ Least(r)
        /\ results' = results \ {r}
        /\ LET lines == IF r.payload = "nothing" THEN data ELSE Append(data, r)
           IN  /\ outfile' = IF Full(lines) THEN outfile \o lines ELSE outfile
               /\ data' = IF Full(lines) THEN <<>> ELSE lines
  BY DEF SaveLine
<1> DEFINE lines == IF Named(r) THEN Append(data, r) ELSE data
<1>2. /\ outfile' = IF Full(lines) THEN outfile \o lines ELSE outfile
      /\ data' = IF Full(lines) THEN <<>> ELSE lines
  BY <1>1 DEF Named
<1>3. /\ r \in Result /\ data \in Seq(Result) /\ outfile \in Seq(Result)
  BY <1>1, AnsweredOver DEF SaveInv
<1>4. lines \in Seq(Result) /\ outfile \o lines \in Seq(Result)
  BY <1>3, AppendProperties, ConcatProperties
<1>5. outfile \o lines = IF Named(r) THEN Append(Saved, r) ELSE Saved
  BY <1>3, SavedIs DEF Saved
<1> HIDE DEF lines
<1>6. Saved' = outfile \o lines
  <2>1. CASE Full(lines)
    BY <1>2, <1>4, <2>1, SavedIs DEF Saved
  <2>2. CASE ~Full(lines)
    BY <1>2, <2>2 DEF Saved
  <2> QED
    BY <2>1, <2>2
<1>7. data' \in Seq(Result) /\ outfile' \in Seq(Result)
  BY <1>2, <1>3, <1>4
<1> QED
  BY <1>1, <1>5, <1>6, <1>7

\* Each turn of the loop writes the oldest that is left.
LEMMA SaveLineSaves ==
    ASSUME TypeInv, ResultInv, SaveInv, SaveLine
    PROVE  SaveInv'
<1>1. PICK r \in results :
        /\ Least(r) /\ results' = results \ {r}
        /\ Saved' = IF Named(r) THEN Append(Saved, r) ELSE Saved
  BY SaveLineIs
<1>2. /\ data' \in Seq(Result) /\ outfile' \in Seq(Result)
      /\ mainPc = "save" /\ mainPc' = "save" /\ m_results' = m_results
  BY SaveLineIs DEF SaveLine, clientVars
<1>3. /\ data \in Seq(Result) /\ outfile \in Seq(Result)
      /\ results \subseteq Results
      /\ \A i \in DOMAIN Saved :
            /\ Saved[i] \in Results \ results
            /\ Named(Saved[i])
            /\ \A x \in results : Saved[i].timestamp <= x.timestamp
      /\ \A i, j \in DOMAIN Saved : i < j =>
            Saved[i].timestamp <= Saved[j].timestamp /\ Saved[i] # Saved[j]
      /\ \A x \in Results \ results : Named(x) => \E i \in DOMAIN Saved : Saved[i] = x
  BY <1>2 DEF SaveInv
<1>4. Results' = Results /\ results' \subseteq Results'
  BY <1>1, <1>2, <1>3, SameResults
<1>5. Saved \in Seq(Result) /\ Len(Saved) \in Nat /\ DOMAIN Saved = 1 .. Len(Saved)
      /\ r \in Result
  BY <1>3, SavedIs, AnsweredOver
<1>6. CASE ~Named(r)
  <2>1. Saved' = Saved
    BY <1>1, <1>6
  <2> QED
    BY <1>1, <1>2, <1>3, <1>4, <1>6, <2>1 DEF SaveInv
<1>7. CASE Named(r)
  <2> DEFINE n == Len(Saved)
  <2>1. /\ DOMAIN Saved' = 1 .. n + 1
        /\ Saved'[n + 1] = r
        /\ \A i \in 1 .. n : Saved'[i] = Saved[i]
    <3>1. Saved' = Append(Saved, r)
      BY <1>1, <1>7
    <3> QED
      BY <1>5, <3>1, AppendProperties
  <2>2. ASSUME NEW i \in DOMAIN Saved'
        PROVE  /\ Saved'[i] \in Results' \ results'
               /\ Named(Saved'[i])
               /\ \A x \in results' : Saved'[i].timestamp <= x.timestamp
    <3>1. CASE i \in 1 .. n
      BY <1>1, <1>3, <1>4, <1>5, <2>1, <3>1
    <3>2. CASE i = n + 1
      BY <1>1, <1>3, <1>4, <1>7, <2>1, <3>2 DEF Least
    <3> QED
      BY <1>5, <2>1, <2>2, <3>1, <3>2
  <2>3. ASSUME NEW i \in DOMAIN Saved', NEW j \in DOMAIN Saved', i < j
        PROVE  Saved'[i].timestamp <= Saved'[j].timestamp /\ Saved'[i] # Saved'[j]
    <3>1. i \in 1 .. n
      BY <1>5, <2>1, <2>3
    <3>2. CASE j \in 1 .. n
      BY <1>3, <1>5, <2>1, <2>3, <3>1, <3>2
    <3>3. CASE j = n + 1
      BY <1>1, <1>3, <1>5, <2>1, <3>1, <3>3
    <3> QED
      BY <1>5, <2>1, <2>3, <3>2, <3>3
  <2>4. ASSUME NEW x \in Results' \ results', Named(x)
        PROVE  \E i \in DOMAIN Saved' : Saved'[i] = x
    <3>1. CASE x = r
      BY <1>5, <2>1, <3>1
    <3>2. CASE x # r
      <4>1. PICK i \in DOMAIN Saved : Saved[i] = x
        BY <1>1, <1>3, <1>4, <2>4, <3>2
      <4> QED
        BY <1>5, <2>1, <4>1
    <3> QED
      BY <3>1, <3>2
  <2> QED
    BY <1>2, <1>4, <2>2, <2>3, <2>4 DEF SaveInv
<1> QED
  BY <1>6, <1>7

\* Results are collected when all threads are joined, and saved after that.
LEMMA SaveStep ==
    ASSUME TypeInv, ResultInv, SaveInv, [Next]_vars
    PROVE  SaveInv'
<1>1. ASSUME UNCHANGED saveVars, mainPc \notin {"save", "done"}, mainPc' \notin {"save", "done"}
      PROVE  SaveInv'
  BY <1>1 DEF SaveInv, saveVars, Saved
<1>2. CASE ReadInput \/ ReadMissing \/ DivideByZero \/ Spawn
  BY <1>1, <1>2 DEF ReadInput, ReadMissing, DivideByZero, Spawn, mainVars
<1>3. ASSUME NEW t \in Thread, ClientThread(t)
      PROVE  SaveInv'
  <2>1. UNCHANGED mainVars /\ cpc[t] \in {"loop", "connected", "waiting"}
    BY <1>3, RunMoves DEF ClientThread, Moves
  <2>2. mainPc \in {"spawn", "join"}
    BY <2>1, MoverStarted
  <2> QED
    BY <1>1, <2>1, <2>2 DEF mainVars
<1>4. CASE Collect
  <2>1. /\ mainPc = "join" /\ mainPc' \in {"save", "done"}
        /\ mainPc' = "done" => results' = {}
        /\ results' = UNION {Kept(i) : i \in 1 .. m_numThread}
        /\ UNCHANGED <<data, outfile, m_results>>
    BY <1>4 DEF Collect, clientVars
  <2>2. results' = Results /\ Results' = Results
    BY <2>1, AllKept, SameResults DEF TypeInv, SpawnInv
  <2>3. data = <<>> /\ outfile = <<>> /\ data' = <<>> /\ outfile' = <<>>
    BY <2>1 DEF SaveInv
  <2>4. data' \in Seq(Result) /\ Saved' = <<>> /\ DOMAIN Saved' = {}
    BY <2>3 DEF Saved
  <2> QED
    BY <2>1, <2>2, <2>3, <2>4 DEF SaveInv
<1>5. CASE SaveLine
  BY <1>5, SaveLineSaves
<1>6. CASE SaveRest
  <2>1. /\ mainPc = "save" /\ mainPc' = "done" /\ results = {} /\ results' = {}
        /\ outfile' = outfile \o data /\ data' = <<>> /\ m_results' = m_results
    BY <1>6 DEF SaveRest, clientVars
  <2>2. data \in Seq(Result) /\ outfile \in Seq(Result) /\ Saved \in Seq(Result)
    BY SavedIs DEF SaveInv
  <2>3. Saved' = Saved /\ outfile' \in Seq(Result) /\ data' \in Seq(Result)
    BY <2>1, <2>2, SavedIs DEF Saved
  <2> QED
    BY <2>1, <2>3, SameResults DEF SaveInv
<1>7. CASE UNCHANGED vars
  <2>1. UNCHANGED <<saveVars, mainPc, m_results>>
    BY <1>7 DEF vars, clientVars, mainVars
  <2> QED
    BY <2>1, SameResults DEF SaveInv, saveVars, Saved
<1> QED
  BY <1>2, <1>3, <1>4, <1>5, <1>6, <1>7 DEF Next, Main

ClientInv == ThreadsInv /\ SaveInv

\* The invariant of the threads and of the file holds throughout.
THEOREM ClientInvCorrect == Spec => []ClientInv
<1>1. Init => ClientInv
  <2>1. Init => SaveInv
    BY DEF Init, SaveInv
  <2> QED
    BY <2>1, TypeInit, LeakInit DEF ClientInv, ThreadsInv
<1>2. ClientInv /\ [Next]_vars => ClientInv'
  BY TypeStep, ResultStep, LeakStep, SaveStep DEF ClientInv, ThreadsInv
<1> QED
  BY <1>1, <1>2, PTL DEF Spec

\* The result file is in the order of the timestamps, holds nothing twice, and
\* has the results of one thread in the order of its requests, although the
\* sort is not stable and threads share timestamps.
THEOREM FileCorrect == Spec => []FileInOrder
<1>1. ClientInv => FileInOrder
  BY OrderFollows DEF ClientInv, ThreadsInv
<1> QED
  BY <1>1, ClientInvCorrect, PTL
-----------------------------------------------------------------------------
(* The refinement.                                                         *)

pending == IF mainPc = "read" THEN {} ELSE Id \ (Over \cup Doing)
answered == {r.id : r \in {s \in Results : s.payload # "nothing"}}
report == IF mainPc = "done" THEN {outfile[i].id : i \in DOMAIN outfile} ELSE {0}

\* What a step of the client is to the list of work.
LEMMA ListSteps ==
    /\ (/\ pending = {} /\ Doing = {} /\ answered = {} /\ report = {0}
        /\ pending' \in SUBSET (Nat \ {0}) /\ UNCHANGED <<Doing, answered, report>>)
            => List!Next
    /\ \A m \in pending :
        (pending' = pending \ {m} /\ Doing' = Doing \cup {m} /\ UNCHANGED <<answered, report>>)
            => List!Next
    /\ \A m \in pending \cup Doing :
        (pending' = pending \ {m} /\ Doing' = Doing \ {m} /\ UNCHANGED <<answered, report>>)
            => List!Next
    /\ \A m \in Doing :
        (Doing' = Doing \ {m} /\ answered' = answered \cup {m} /\ UNCHANGED <<pending, report>>)
            => List!Next
    /\ (/\ report = {0} /\ pending = {} /\ Doing = {} /\ report' = answered
        /\ UNCHANGED <<pending, Doing, answered>>)
            => List!Next
    /\ UNCHANGED <<pending, Doing, answered, report>> => UNCHANGED List!vars
BY DEF List!Next, List!Load, List!Take, List!GiveUp, List!Answer, List!Report, List!NoReport,
       List!vars, pending, answered, report

\* When the threads are joined all messages are over.
LEMMA JoinedOver ==
    ASSUME TypeInv, mainPc \notin {"read", "spawn"}, Joined
    PROVE  Doing = {} /\ pending = {}
<1>1. /\ spawned = m_numThread /\ m_numThread \in Nat
      /\ Thread \subseteq Nat \ {0} /\ 1 .. m_numThread \subseteq Thread
  BY ThreadNumbers DEF TypeInv, SpawnInv, InputInv
<1>2. \A t \in Thread : cpc[t] \in {"new", "done"}
  BY <1>1 DEF TypeInv, SpawnInv, Joined
<1>3. Doing = {}
  BY <1>2 DEF Doing
<1>4. ASSUME NEW m \in Id
      PROVE  m \in Over
  <2>1. IdsInv
    BY Division DEF TypeInv
  <2>2. PICK t \in 1 .. m_numThread : \E i \in 1 .. Len(m_inputdata[t]) : m_inputdata[t][i].id = m
    BY <2>1 DEF IdsInv
  <2>3. t \in Thread /\ cpc[t] = "done"
    BY <1>1, <2>2 DEF Joined
  <2>4. Len(m_inputdata[t]) \in Nat /\ idx[t] \in Nat /\ idx[t] > Len(m_inputdata[t])
    BY <2>3 DEF TypeInv, PlaceInv, ChunkInv, HasMessage
  <2>5. \A i \in 1 .. Len(m_inputdata[t]) : i \in 1 .. idx[t] - 1
    BY <2>4
  <2> QED
    BY <2>2, <2>3, <2>5, Members
<1> QED
  BY <1>3, <1>4 DEF pending

\* The last step of main reports what was answered.
LEMMA ReportStep ==
    ASSUME ClientInv, ClientInv', mainPc \in {"join", "save"}, mainPc' = "done",
           Joined, Waits, UNCHANGED input_data
    PROVE  List!Next
<1>1. Doing = {} /\ pending = {} /\ report = {0}
  BY JoinedOver DEF ClientInv, ThreadsInv, report
<1>2. UNCHANGED <<pending, Doing, answered>>
  BY SameResults DEF Waits, pending, answered, Id
<1>3. /\ data' = <<>> /\ results' = {} /\ data' \in Seq(Result) /\ outfile' \in Seq(Result)
      /\ \A i \in DOMAIN Saved' : Saved'[i] \in Results' /\ Named(Saved'[i])
      /\ \A r \in Results' : Named(r) => \E i \in DOMAIN Saved' : Saved'[i] = r
  BY DEF ClientInv, SaveInv
<1>4. Saved' = outfile'
  <2>1. outfile' \o <<>> = outfile'
    BY <1>3, ConcatEmptySeq
  <2> QED
    BY <1>3, <2>1 DEF Saved
<1>5. Results' = Results
  BY SameResults DEF Waits
<1>6. report' = answered
  <2>1. report' = {outfile'[i].id : i \in DOMAIN outfile'}
    BY DEF report
  <2>2. ASSUME NEW i \in DOMAIN outfile'
        PROVE  outfile'[i].id \in answered
    BY <1>3, <1>4, <1>5 DEF answered, Named
  <2>3. ASSUME NEW m \in answered
        PROVE  m \in report'
    <3>1. PICK r \in Results : Named(r) /\ m = r.id
      BY DEF answered, Named
    <3>2. PICK i \in DOMAIN outfile' : outfile'[i] = r
      BY <1>3, <1>4, <1>5, <3>1
    <3> QED
      BY <2>1, <3>1, <3>2
  <2> QED
    BY <2>1, <2>2, <2>3
<1> QED
  BY <1>1, <1>2, <1>6, ListSteps

\* A step of a thread takes a message, has its answer, or gives it up.
LEMMA ThreadWorks ==
    ASSUME ClientInv, NEW t \in Thread, ClientThread(t)
    PROVE  List!Next \/ UNCHANGED List!vars
<1> DEFINE m == Current(t).id
<1>1. UNCHANGED mainVars /\ mainPc \in {"spawn", "join"}
  BY RunMoves, MoverStarted DEF ClientThread, Moves, ClientInv, ThreadsInv
<1>2. /\ pending = Id \ (Over \cup Doing) /\ pending' = Id \ (Over' \cup Doing')
      /\ report = {0} /\ report' = {0}
  BY <1>1 DEF mainVars, pending, report, Id
<1>3. ASSUME UNCHANGED m_results
      PROVE  answered' = answered
  BY <1>3, SameResults DEF answered
<1>4. TypeInv /\ ResultInv
  BY DEF ClientInv, ThreadsInv
<1>5. Over \cap Doing = {}
  BY <1>4, OverNotDoing
<1> HIDE DEF m
<1>6. CASE Waits
  BY <1>2, <1>3, <1>6, ListSteps DEF Waits
<1>7. CASE Passes(t)
  <2>1. m \in pending /\ pending' = pending \ {m} /\ Doing' = Doing \ {m} /\ answered' = answered
    BY <1>2, <1>3, <1>7 DEF Passes, m
  <2> QED
    BY <1>2, <2>1, ListSteps
<1>8. CASE Takes(t)
  <2>1. m \in pending /\ pending' = pending \ {m} /\ Doing' = Doing \cup {m} /\ answered' = answered
    BY <1>2, <1>3, <1>8 DEF Takes, m
  <2> QED
    BY <1>2, <2>1, ListSteps
<1>9. CASE Drops(t)
  <2>1. m \in Doing /\ pending' = pending \ {m} /\ Doing' = Doing \ {m} /\ answered' = answered
    BY <1>2, <1>3, <1>5, <1>9 DEF Drops, m
  <2> QED
    BY <1>2, <2>1, ListSteps
<1>10. CASE Gets(t)
  <2>1. m \in Doing /\ pending' = pending /\ pending = pending \ {m} /\ Doing' = Doing \ {m}
    BY <1>2, <1>10 DEF Gets, m
  <2>2. Results' = Results \cup {Last(t)} /\ Last(t).id = m
    BY <1>4, <1>10, GetsAdds, GetsIs DEF m
  <2>3. CASE Named(Last(t))
    <3>1. answered' = answered \cup {m}
      BY <2>2, <2>3 DEF answered, Named
    <3> QED
      BY <1>2, <2>1, <3>1, ListSteps
  <2>4. CASE ~Named(Last(t))
    <3>1. answered' = answered
      BY <2>2, <2>4 DEF answered, Named
    <3> QED
      BY <1>2, <2>1, <3>1, ListSteps
  <2> QED
    BY <2>3, <2>4
<1> QED
  BY <1>4, <1>6, <1>7, <1>8, <1>9, <1>10, RunSees DEF ClientThread

\* A step of main loads the messages, reports, or is nothing to them.
LEMMA MainWorks ==
    ASSUME ClientInv, ClientInv', Main
    PROVE  List!Next \/ UNCHANGED List!vars
<1>1. Waits /\ answered' = answered
  BY MainWaits, SameResults DEF ClientInv, ThreadsInv, Waits, answered
<1>2. ASSUME UNCHANGED input_data, mainPc # "read" \/ mainPc' = mainPc,
             mainPc' = "read" => mainPc = "read", mainPc # "done", mainPc' # "done"
      PROVE  UNCHANGED List!vars
  <2>1. pending' = pending /\ report' = report
    BY <1>1, <1>2 DEF Waits, pending, report, Id
  <2> QED
    BY <1>1, <2>1, ListSteps DEF Waits
<1>3. CASE ReadInput
  <2>1. mainPc = "read" /\ mainPc' = "spawn" /\ input_data = <<>>
    BY <1>3 DEF ReadInput, ClientInv, ThreadsInv, TypeInv, SpawnInv
  <2>2. Over = {} /\ Doing = {}
    BY <2>1, OverNotDoing DEF ClientInv, ThreadsInv, Id
  <2>3. Over' = {} /\ Doing' = {}
    BY <1>1, <2>2 DEF Waits
  <2>4. pending = {} /\ pending' = Id' /\ report = {0} /\ report' = {0}
    BY <2>1, <2>3 DEF pending, report
  <2>5. Id' \subseteq Nat \ {0}
    <3>1. Id' = 1 .. Len(input_data)' /\ Len(input_data)' \in Nat
      BY DEF ClientInv, ThreadsInv, TypeInv, InputInv, Id
    <3> QED
      BY <3>1
  <2>6. answered = {}
    BY <2>2, AnsweredOver DEF ClientInv, ThreadsInv, answered, Answered
  <2> QED
    BY <1>1, <2>2, <2>3, <2>4, <2>5, <2>6, ListSteps
<1>4. CASE ReadMissing \/ DivideByZero \/ Spawn \/ SaveLine
  BY <1>2, <1>4 DEF ReadMissing, DivideByZero, Spawn, SaveLine, mainVars
<1>5. CASE Collect \/ SaveRest
  <2>1. /\ mainPc \in {"join", "save"} /\ mainPc' \in {"save", "done"}
        /\ UNCHANGED input_data /\ Joined
    BY <1>5 DEF Collect, SaveRest, ClientInv, ThreadsInv, TypeInv, SpawnInv
  <2>2. CASE mainPc' = "done"
    BY <1>1, <2>1, <2>2, ReportStep
  <2>3. CASE mainPc' # "done"
    BY <1>2, <2>1, <2>3
  <2> QED
    BY <2>2, <2>3
<1> QED
  BY <1>3, <1>4, <1>5 DEF Main

\* Division, join and merge lose nothing and do nothing twice: the client,
\* for any file, number of threads and faults, implements WorkList.
THEOREM WorkListCorrect == Spec => ImplementsWorkList
<1>1. Init => List!Init
  <2>1. ASSUME Init
        PROVE  pending = {} /\ Doing = {} /\ answered = {} /\ report = {0}
    <3>1. /\ mainPc = "read" /\ cpc = [t \in Thread |-> "new"]
          /\ m_results = [t \in Thread |-> <<>>]
      BY <2>1 DEF Init, ClientInit
    <3>2. Results = {}
      BY <3>1 DEF Results, Kept
    <3> QED
      BY <3>1, <3>2 DEF pending, answered, report, Doing
  <2> QED
    BY <2>1 DEF List!Init, List!NoReport, pending, answered, report
<1>2. ClientInv /\ ClientInv' /\ [Next]_vars => [List!Next]_(List!vars)
  <2> SUFFICES ASSUME ClientInv, ClientInv', [Next]_vars
               PROVE  List!Next \/ UNCHANGED List!vars
    OBVIOUS
  <2>1. CASE Main
    BY <2>1, MainWorks
  <2>2. ASSUME NEW t \in Thread, ClientThread(t)
        PROVE  List!Next \/ UNCHANGED List!vars
    BY <2>2, ThreadWorks
  <2>3. CASE UNCHANGED vars
    <3>1. UNCHANGED <<pending, Doing, answered, report>>
      BY <2>3 DEF vars, clientVars, mainVars, saveVars, pending, Doing, answered, report,
                  Over, IdsUpTo, Current, Results, Kept, Id
    <3> QED
      BY <3>1, ListSteps
  <2> QED
    BY <2>1, <2>2, <2>3 DEF Next
<1> QED
  BY <1>1, <1>2, ClientInvCorrect, PTL DEF Spec, ImplementsWorkList, List!Spec
-----------------------------------------------------------------------------
(* What the client dies of.                                                *)

\* Is line an operation for parse, with all it needs?
Recognized(line) ==
    \E op \in MessageType :
        NumFields(line) >= Operands[op] + 1 /\ Field(line, 1) \in Names(op)

\* A line that is recognized becomes a message with a type.
LEMMA RecognizedHasType ==
    ASSUME NEW line, NEW i, Recognized(line), NEW m \in Parse(line, i)
    PROVE  m.type \in MessageType
<1> DEFINE Is(op, n) == NumFields(line) >= n /\ Field(line, 1) \in Names(op)
<1>1. Is("GET", 2) \/ Is("SET", 3) \/ Is("STAT", 1)
  BY DEF Recognized, MessageType, Operands
<1>2. \/ m = Message(i, "GET", Field(line, 2), "")
      \/ m = Message(i, "SET", Field(line, 2), Field(line, 3))
      \/ m = Message(i, "STAT", "", "")
  BY <1>1, Zenon DEF Parse
<1>3. ASSUME NEW type, NEW k, NEW v, m = Message(i, type, k, v)
      PROVE  m.type = type
  <2>1. Message(i, type, k, v).type = type
    BY MessageFields
  <2> QED
    BY <1>3, <2>1, Zenon
<1>4. m.type \in {"GET", "SET", "STAT"}
  BY <1>2, <1>3, Zenon
<1> QED
  BY <1>4 DEF MessageType

\* What the format asks of a line is what parse looks for: blanks and empty
\* values between the commas do not matter.
LEMMA OperationIsRecognized ==
    ASSUME NEW line \in Seq(STRING), Operation(line)
    PROVE  Recognized(line)
<1> DEFINE U == {i \in 2 .. Len(line) : line[i] # ""}
<1>1. PICK op \in MessageType :
        /\ line # <<>> /\ line[1] \in Names(op)
        /\ Cardinality(U) >= Operands[op]
  BY Zenon DEF Operation
<1>2. Len(line) \in Nat \ {0} /\ DOMAIN line = 1 .. Len(line)
  <2>1. line # <<>>
    BY <1>1, Zenon
  <2> QED
    BY <2>1, EmptySeq
<1>3. line[1] # "" /\ line[1] # " "
  <2>1. op \in {"GET", "SET", "STAT"}
    BY Zenon DEF MessageType
  <2>2. Names("GET") = {"GET", "get"} /\ Names("SET") = {"SET", "set"} /\ Names("STAT") = {"STAT", "stat"}
    BY DEF Names
  <2>3. line[1] \in {"GET", "get", "SET", "set", "STAT", "stat"}
    BY <1>1, <2>1, <2>2, Zenon
  <2> QED
    BY <2>3
<1>4. Cardinality(U) >= Operands[op] /\ Operands[op] \in Nat
  <2>1. Operands \in [MessageType -> Nat]
    BY DEF Operands, MessageType
  <2> QED
    BY <1>1, <2>1
<1>5. /\ Tokens(line) = U \cup {1} /\ 1 \notin U
      /\ Tokens(line) \subseteq 1 .. Len(line) /\ U \subseteq 1 .. Len(line)
  <2> DEFINE Some(i) == line[i] # ""
             n == Len(line)
  <2>1. Tokens(line) = {i \in 1 .. n : Some(i)} /\ U = {i \in 2 .. n : Some(i)} /\ Some(1)
    BY <1>2, <1>3, Zenon DEF Tokens
  <2>2. 1 .. n = {1} \cup 2 .. n /\ 1 \notin 2 .. n
    <3>1. n \in Nat \ {0}
      BY <1>2
    <3> HIDE DEF n
    <3> QED
      BY <3>1
  <2> HIDE DEF U, Some, n
  <2>3. Tokens(line) \subseteq 1 .. n /\ U \subseteq 1 .. n
    BY <2>1, <2>2
  <2>4. Tokens(line) = U \cup {1} /\ 1 \notin U
    BY <2>1, <2>2
  <2> QED
    BY <2>3, <2>4 DEF n
<1> HIDE DEF U
<1>6. IsFiniteSet(Tokens(line)) /\ IsFiniteSet(U)
  <2>1. IsFiniteSet(1 .. Len(line))
    BY <1>2, FS_Interval
  <2> QED
    BY <1>5, <2>1, FS_Subset
<1>7. NumFields(line) >= Operands[op] + 1
  <2>1. Cardinality(Tokens(line)) = Cardinality(U) + 1
    BY <1>5, <1>6, FS_AddElement
  <2>2. Cardinality(U) \in Nat
    BY <1>6, FS_CardinalityType
  <2> QED
    BY <1>4, <2>1, <2>2 DEF NumFields
<1>8. Field(line, 1) = line[1]
  <2> DEFINE UpTo(i) == {j \in Tokens(line) : j <= i}
             IsFirst(i) == Cardinality(UpTo(i)) = 1
  <2>0. \A i \in Tokens(line) : i \in Nat /\ 1 <= i
    <3>1. \A i \in 1 .. Len(line) : i \in Nat /\ 1 <= i
      OBVIOUS
    <3> QED
      BY <1>5, <3>1
  <2>1. 1 \in Tokens(line) /\ UpTo(1) = {1}
    <3>1. 1 \in Tokens(line)
      BY <1>5
    <3> QED
      BY <2>0, <3>1
  <2>2. IsFirst(1)
    BY <2>1, FS_Singleton
  <2>3. ASSUME NEW i \in Tokens(line), IsFirst(i)
        PROVE  i = 1
    <3>1. 1 \in UpTo(i) /\ i \in UpTo(i) /\ UpTo(i) \subseteq Tokens(line)
      BY <2>0, <2>1
    <3>2. IsFiniteSet(UpTo(i))
      BY <1>6, <3>1, FS_Subset
    <3>3. \E x : UpTo(i) = {x}
      BY <2>3, <3>2, FS_Singleton
    <3> HIDE DEF UpTo
    <3> QED
      BY <3>1, <3>3
  <2>4. (CHOOSE i \in Tokens(line) : IsFirst(i)) = 1
    <3> HIDE DEF IsFirst
    <3> QED
      BY <2>1, <2>2, <2>3
  <2>5. Field(line, 1) = Trim(line[1])
    BY <2>4, Zenon DEF Field
  <2> QED
    BY <1>3, <2>5 DEF Trim
<1> QED
  BY <1>1, <1>7, <1>8, Zenon DEF Recognized

\* What was read is what the file can be read into, and the process has died
\* of a type only if some message has none of the three.
DeathInv ==
    /\ mainPc # "read" => input_data \in Inputs(m_inputFile)
    /\ died => \/ m_numThread = 0 \/ m_inputFile = NoFile
               \/ \E i \in Id : input_data[i].type \notin MessageType

\* A thread fails the assertion of set_requesttype only for such a message.
LEMMA DeathStep ==
    ASSUME TypeInv, DeathInv, [Next]_vars
    PROVE  DeathInv'
<1>1. ASSUME UNCHANGED <<died, m_numThread, m_inputFile, input_data>>, mainPc' # "read" => mainPc # "read"
      PROVE  DeathInv'
  BY <1>1 DEF DeathInv, Id
<1>2. CASE ReadInput
  <2>1. /\ mainPc = "read" /\ input_data' \in Inputs(m_inputFile)
        /\ UNCHANGED <<died, m_numThread, m_inputFile>>
    BY <1>2 DEF ReadInput, clientVars
  <2>2. Id = {}
    BY <2>1 DEF TypeInv, SpawnInv, Id
  <2> QED
    BY <2>1, <2>2 DEF DeathInv
<1>3. CASE ReadMissing
  BY <1>3 DEF ReadMissing, mainVars, DeathInv
<1>4. CASE DivideByZero
  BY <1>4 DEF DivideByZero, mainVars, DeathInv
<1>5. CASE Spawn
  BY <1>1, <1>5 DEF Spawn, Start
<1>6. CASE Collect \/ SaveLine \/ SaveRest
  BY <1>1, <1>6 DEF Collect, SaveLine, SaveRest, clientVars
<1>7. ASSUME NEW t \in Thread, ClientThread(t)
      PROVE  DeathInv'
  <2>1. Run(t) /\ UNCHANGED <<m_numThread, m_inputFile, input_data, mainPc>>
    BY <1>7 DEF ClientThread, mainVars
  <2>2. CASE InvalidType(t)
    <3>1. HasMessage(t) /\ Current(t).type \notin MessageType
      BY <2>2 DEF InvalidType, TypeInv, PlaceInv
    <3>2. idx[t] \in 1 .. Len(m_inputdata[t]) /\ m_inputdata[t] \in Seq(Entries)
      BY <3>1 DEF HasMessage, TypeInv, PlaceInv, ChunkInv
    <3>3. Current(t) \in Entries
      BY <3>2 DEF Current
    <3>4. PICK i \in Id : Current(t) = input_data[i]
      BY <3>3 DEF Entries, Id
    <3>5. \E j \in Id' : input_data'[j].type \notin MessageType
      BY <2>1, <3>1, <3>4 DEF Id
    <3> QED
      BY <2>1, <3>5 DEF DeathInv
  <2>3. CASE died' = died
    BY <1>1, <2>1, <2>3
  <2>4. CASE RefuseEmptySet(t) \/ WriteFails(t) \/ ReadFails(t)
    BY <2>3, <2>4 DEF RefuseEmptySet, WriteFails, ReadFails, Abandon
  <2>5. CASE SocketFails(t) \/ ConnectFails(t) \/ Connect(t)
    BY <2>3, <2>5 DEF SocketFails, ConnectFails, Connect, Socket
  <2>6. CASE Write(t) \/ Read(t) \/ Finish(t)
    BY <2>3, <2>6 DEF Write, Read, Keep, Finish
  <2> QED
    BY <2>1, <2>2, <2>4, <2>5, <2>6 DEF Run
<1>8. CASE UNCHANGED vars
  BY <1>1, <1>8 DEF vars, clientVars, mainVars
<1> QED
  BY <1>2, <1>3, <1>4, <1>5, <1>6, <1>7, <1>8 DEF Next, Main

\* The client dies of what it was given only: no thread to divide by, no file,
\* or a line that is no operation, for any file.
THEOREM DeathCorrect == Spec => []DiesOfBadInput
<1>1. Init => DeathInv
  BY DEF Init, ClientInit, DeathInv
<1>2. TypeInv /\ DeathInv /\ [Next]_vars => DeathInv'
  BY DeathStep
<1>3. TypeInv /\ DeathInv => DiesOfBadInput
  <2> SUFFICES ASSUME TypeInv, DeathInv, died, m_numThread # 0, m_inputFile # NoFile
               PROVE  \E i \in DOMAIN Lines(m_inputFile) : ~Operation(Lines(m_inputFile)[i])
    BY DEF DiesOfBadInput
  <2> DEFINE lines == Lines(m_inputFile)
  <2>1. PICK i \in Id : input_data[i].type \notin MessageType
    BY DEF DeathInv
  <2>2. input_data \in Inputs(m_inputFile)
    BY <2>1 DEF DeathInv, TypeInv, SpawnInv, Id
  <2>3. i \in DOMAIN lines /\ input_data[i] \in Parse(lines[i], i)
    BY <2>1, <2>2 DEF Inputs, Id
  <2>4. lines[i] \in Seq(STRING)
    BY <2>3, LinesType DEF TypeInv, InputInv
  <2> HIDE DEF lines
  <2>5. ~Operation(lines[i])
    BY <2>1, <2>3, <2>4, OperationIsRecognized, RecognizedHasType
  <2> QED
    BY <2>3, <2>5 DEF lines
<1> QED
  BY <1>1, <1>2, <1>3, ThreadsCorrect, PTL DEF Spec, ThreadsInv
=============================================================================
