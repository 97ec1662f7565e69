----------------------------- MODULE TestClient -----------------------------
(***************************************************************************)
(* The test client (client/src/TestClient.cpp): main reads the input file, *)
(* divides it over the client threads, joins them, and writes what they    *)
(* have kept to the result file in the order of the timestamps.            *)
(***************************************************************************)
EXTENDS Client

CONSTANTS
    Files,          \* the input files
    ThreadCounts,   \* values of the option -t
    MAX_LINE_WRITE

ASSUME TestClientAssumption ==
    /\ ThreadCounts \subseteq Nat
    /\ Thread = UNION {1 .. n : n \in ThreadCounts}
    /\ MAX_LINE_WRITE \in Nat \ {0}
    /\ \A file \in Files : file.lines \in Seq(Seq(STRING)) /\ file.newline \in BOOLEAN

VARIABLES
    mainPc,
    m_inputFile, m_numThread,
    input_data,
    spawned,            \* threads started so far
    results,            \* the results not yet written, in saveResults
    data, outfile,      \* lines to be written, and written
    avgLatency

saveVars == <<results, data, outfile, avgLatency>>
mainVars == <<mainPc, m_inputFile, m_numThread, input_data, spawned, saveVars>>
vars == <<clientVars, mainVars>>

Init ==
    /\ ClientInit
    /\ mainPc = "read"
    /\ m_inputFile \in Files
    /\ m_numThread \in ThreadCounts
    /\ input_data = <<>> /\ spawned = 0
    /\ results = {} /\ data = <<>> /\ outfile = <<>> /\ avgLatency = 0

Die == died' = TRUE /\ UNCHANGED <<cpc, idx, m_inputdata, m_results, m_averageLatency, fds, clock>>
-----------------------------------------------------------------------------
ReadInput ==
    /\ mainPc = "read" /\ m_inputFile # NoFile
    /\ input_data' \in Inputs(m_inputFile)
    /\ mainPc' = "spawn"
    /\ UNCHANGED <<clientVars, m_inputFile, m_numThread, spawned, saveVars>>

\* eof() is never true of a file that was not opened: messages are pushed
\* until there is no memory left.
ReadMissing ==
    /\ mainPc = "read" /\ m_inputFile = NoFile
    /\ Die
    /\ UNCHANGED mainVars

\* size() / m_numThread.
DivideByZero ==
    /\ mainPc = "spawn" /\ m_numThread = 0
    /\ Die
    /\ UNCHANGED mainVars

ChunkSize(size) == size \div m_numThread

\* Faulty variant: the remainder is left out.
Chunk_NoRemainder(i) ==
    LET size == ChunkSize(Len(input_data))
    IN  SubSeq(input_data, (i - 1) * size + 1, i * size)

\* What thread i is given: the last one all that is left.
Chunk(i) ==
    LET size == ChunkSize(Len(input_data))
        last == IF i = m_numThread THEN Len(input_data) ELSE i * size
    IN  SubSeq(input_data, (i - 1) * size + 1, last)

Spawn ==
    /\ mainPc = "spawn" /\ spawned < m_numThread
    /\ spawned' = spawned + 1
    /\ Start(spawned', Chunk(spawned'))
    /\ mainPc' = IF spawned' = m_numThread THEN "join" ELSE "spawn"
    /\ UNCHANGED <<m_inputFile, m_numThread, input_data, saveVars>>

Joined == \A i \in 1 .. m_numThread : cpc[i] = "done"

Kept(i) == {m_results[i][j] : j \in DOMAIN m_results[i]}

\* The average over the first n threads.
AverageOf[n \in 0 .. m_numThread] ==
    IF n = 0 THEN 0 ELSE Average(AverageOf[n - 1], m_averageLatency[n])

\* All threads are joined; saveResults puts their results into one vector.
Collect ==
    /\ mainPc = "join" /\ Joined
    /\ results' = UNION {Kept(i) : i \in 1 .. m_numThread}
    /\ avgLatency' = AverageOf[m_numThread]
    /\ mainPc' = IF results' = {} THEN "done" ELSE "save"
    /\ UNCHANGED <<clientVars, m_inputFile, m_numThread, input_data, spawned, data, outfile>>

\* Faulty variant: no sort.
Least_Any(r) == TRUE

\* std::sort with compareByTimestamp, which is not stable.
Least(r) == \A other \in results : r.timestamp <= other.timestamp

Full(lines) == Len(lines) = MAX_LINE_WRITE

\* One turn of the loop: a payload without requesttype is passed over, a line
\* completes a batch or waits.
SaveLine == \E r \in results :
    /\ mainPc = "save" /\ Least(r)
    /\ results' = results \ {r}
    /\ LET lines == IF r.payload = "nothing" THEN data ELSE Append(data, r)
       IN  /\ outfile' = IF Full(lines) THEN outfile \o lines ELSE outfile
           /\ data' = IF Full(lines) THEN <<>> ELSE lines
    /\ UNCHANGED <<clientVars, mainPc, m_inputFile, m_numThread, input_data, spawned, avgLatency>>

SaveRest ==
    /\ mainPc = "save" /\ results = {}
    /\ outfile' = outfile \o data /\ data' = <<>>
    /\ mainPc' = "done"
    /\ UNCHANGED <<clientVars, m_inputFile, m_numThread, input_data, spawned, results, avgLatency>>
-----------------------------------------------------------------------------
Main == ReadInput \/ ReadMissing \/ DivideByZero \/ Spawn \/ Collect \/ SaveLine \/ SaveRest
ClientThread(t) == Run(t) /\ UNCHANGED mainVars

Next == ~died /\ (Main \/ \E t \in Thread : ClientThread(t))

Spec == Init /\ [][Next]_vars

\* Threads are only preempted.  A server that runs answers a request or ends
\* its connection, so a read() returns.
Fairness == WF_vars(~died /\ Main) /\ \A t \in Thread : WF_vars(~died /\ ClientThread(t))
FairSpec == Spec /\ Fairness
-----------------------------------------------------------------------------
Id == DOMAIN input_data
Chunks == {m_inputdata[t] : t \in 1 .. m_numThread}
IdsUpTo(t, n) == {m_inputdata[t][i].id : i \in 1 .. n}
Over == UNION {IdsUpTo(t, idx[t] - 1) : t \in Thread}
Doing == {Current(t).id : t \in {u \in Thread : cpc[u] \in {"connected", "waiting"}}}
Results == UNION {Kept(t) : t \in Thread}
Answered == {r.id : r \in Results}
Saved == outfile \o data

\* Every variable keeps its type.
TypeOK ==
    /\ mainPc \in {"read", "spawn", "join", "save", "done"}
    /\ spawned \in 0 .. m_numThread
    /\ \A i \in Id : input_data[i].id = i /\ input_data[i].type \in UninitType
    /\ cpc \in [Thread -> {"new", "loop", "connected", "waiting", "done"}]
    /\ \A t \in Thread : idx[t] \in 1 .. Len(m_inputdata[t]) + 1
    /\ fds \subseteq Id /\ Answered \subseteq Id
    /\ clock \in 0 .. Len(input_data)
    /\ Cardinality(fds) <= MaxFds
    /\ died \in BOOLEAN

\* The early returns of startClient and sendData leave their socket open, and
\* nothing else does: a descriptor belongs to the message a thread is at, or to
\* one that is over without a result.
LeaksAreLosses == fds \cap Answered = {} /\ Doing \subseteq fds /\ fds \subseteq Doing \cup Over

\* The result file is in the order of the timestamps, holds nothing twice, and
\* has the results of one thread in the order of its requests: a GET that
\* followed a SET in the input of its thread follows it in the file.
FileInOrder ==
    \A i, j \in DOMAIN Saved : i < j =>
        /\ Saved[i].timestamp <= Saved[j].timestamp
        /\ Saved[i].id # Saved[j].id
        /\ \A c \in Chunks :
            {Saved[i].id, Saved[j].id} \subseteq {c[k].id : k \in DOMAIN c}
                => Saved[i].id < Saved[j].id

\* The client dies of what it was given only: no thread to divide by, no file,
\* or a line that is no operation, whose message has an uninitialized type.  A
\* newline at the end of the file counts as such a line.
DiesOfBadInput ==
    died =>
        \/ m_numThread = 0 \/ m_inputFile = NoFile
        \/ \E i \in DOMAIN Lines(m_inputFile) : ~Operation(Lines(m_inputFile)[i])

\* "The average latency is written in the result file" (README): when there are
\* results, the number is between the shortest and the longest time a request
\* may take, as an average of times is.
LatencyInRange ==
    mainPc \in {"save", "done"} /\ Results # {} =>
        \E shortest, longest \in Durations : shortest <= avgLatency /\ avgLatency <= longest

\* Whatever calls fail and however few descriptors are left, the threads come to
\* the end of their chunks and the results are written.
Finishes == <>(mainPc = "done" \/ died)

List == INSTANCE WorkList WITH
    pending <- IF mainPc = "read" THEN {} ELSE Id \ (Over \cup Doing),
    doing <- Doing,
    answered <- {r.id : r \in {s \in Results : s.payload # "nothing"}},
    report <- IF mainPc = "done" THEN {outfile[i].id : i \in DOMAIN outfile} ELSE {0}

\* Division, join and merge lose nothing and do nothing twice: every message is
\* one thread's, once, and the file has every result with a requesttype.
ImplementsWorkList == List!Spec
=============================================================================
