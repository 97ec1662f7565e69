------------------------------- MODULE Client -------------------------------
(***************************************************************************)
(* The client threads (client/src/Client.cpp): run sends the messages of   *)
(* its chunk one by one, each over a connection of its own, and keeps what *)
(* it could read of the replies.                                           *)
(***************************************************************************)
EXTENDS InputFile

CONSTANTS
    Thread,
    MaxFds,         \* descriptors the process may have open for sockets
    Faults,         \* calls that may fail: "connect", "write", "read"
    MayCut,         \* may the one read() return less than the whole reply?
    Durations,      \* microseconds a request may take
    UninitLatency   \* values m_averageLatency can have before it is set

ASSUME ClientAssumption ==
    /\ MaxFds \in Nat
    /\ Faults \subseteq {"connect", "write", "read"}
    /\ MayCut \in BOOLEAN
    /\ Durations \subseteq Nat /\ Durations # {}
    /\ UninitLatency \subseteq Nat /\ UninitLatency # {}

VARIABLES
    cpc,                \* where each thread is in run
    idx,                \* the message it is at
    m_inputdata, m_results, m_averageLatency,
    fds,                \* open sockets, by the id of their message
    clock,              \* of the timestamps
    died                \* the process has ended before its time

clientVars == <<cpc, idx, m_inputdata, m_results, m_averageLatency, fds, clock, died>>

ClientInit ==
    /\ cpc = [t \in Thread |-> "new"]
    /\ idx = [t \in Thread |-> 1]
    /\ m_inputdata = [t \in Thread |-> <<>>]
    /\ m_results = [t \in Thread |-> <<>>]
    /\ \E n \in UninitLatency : m_averageLatency = [t \in Thread |-> n]
    /\ fds = {} /\ clock = 0 /\ died = FALSE

Goto(t, from, to) == cpc[t] = from /\ cpc' = [cpc EXCEPT ![t] = to]
HasMessage(t) == idx[t] <= Len(m_inputdata[t])
Current(t) == m_inputdata[t][idx[t]]

\* Faulty variant: the index is advanced twice.
Advance_Twice(t) == idx' = [idx EXCEPT ![t] = @ + 2]

\* sendData returns, or startClient fails: on to the next message.
Advance(t) == idx' = [idx EXCEPT ![t] = @ + 1]
-----------------------------------------------------------------------------
\* A thread starts with its chunk.
Start(t, chunk) ==
    /\ Goto(t, "new", "loop")
    /\ m_inputdata' = [m_inputdata EXCEPT ![t] = chunk]
    /\ UNCHANGED <<idx, m_results, m_averageLatency, fds, clock, died>>

Finish(t) ==
    /\ ~HasMessage(t)
    /\ Goto(t, "loop", "done")
    /\ UNCHANGED <<idx, m_inputdata, m_results, m_averageLatency, fds, clock, died>>

\* Faulty variant: the message is tried again.
SocketFails_Retry(t) ==
    /\ cpc[t] = "loop" /\ HasMessage(t)
    /\ Cardinality(fds) >= MaxFds
    /\ UNCHANGED clientVars

\* startClient: no descriptor is left, and the message is skipped.
SocketFails(t) ==
    /\ cpc[t] = "loop" /\ HasMessage(t)
    /\ Cardinality(fds) >= MaxFds
    /\ Advance(t)
    /\ UNCHANGED <<cpc, m_inputdata, m_results, m_averageLatency, fds, clock, died>>

Socket(t) ==
    /\ cpc[t] = "loop" /\ HasMessage(t)
    /\ Cardinality(fds) < MaxFds
    /\ fds' = fds \cup {Current(t).id}
    /\ UNCHANGED <<m_inputdata, m_results, m_averageLatency, clock, died>>

\* connect fails: the message is skipped, the socket stays open.
ConnectFails(t) ==
    /\ "connect" \in Faults
    /\ Socket(t)
    /\ Advance(t)
    /\ UNCHANGED cpc

Connect(t) ==
    /\ Socket(t)
    /\ Goto(t, "loop", "connected")
    /\ UNCHANGED idx
-----------------------------------------------------------------------------
(* sendData.                                                               *)

EmptySet(t) == Current(t).type = "SET" /\ Current(t).value = ""

\* A return before the close: the socket stays open.
Abandon(t, from) ==
    /\ Goto(t, from, "loop")
    /\ Advance(t)
    /\ UNCHANGED <<m_inputdata, m_results, m_averageLatency, fds, clock, died>>

RefuseEmptySet(t) == cpc[t] = "connected" /\ EmptySet(t) /\ Abandon(t, "connected")

\* set_requesttype asserts that its argument is one of the three.
InvalidType(t) ==
    /\ cpc[t] = "connected" /\ Current(t).type \notin MessageType
    /\ died' = TRUE
    /\ UNCHANGED <<cpc, idx, m_inputdata, m_results, m_averageLatency, fds, clock>>

Sendable(t) == Current(t).type \in MessageType /\ ~EmptySet(t)

Write(t) ==
    /\ cpc[t] = "connected" /\ Sendable(t)
    /\ Goto(t, "connected", "waiting")
    /\ UNCHANGED <<idx, m_inputdata, m_results, m_averageLatency, fds, clock, died>>

WriteFails(t) ==
    /\ "write" \in Faults
    /\ cpc[t] = "connected" /\ Sendable(t)
    /\ Abandon(t, "connected")

ReadFails(t) == "read" \in Faults /\ cpc[t] = "waiting" /\ Abandon(t, "waiting")

\* The running average of sendData, and of saveResults over the threads.
Average(average, latency) == IF average = 0 THEN latency ELSE (average + latency) \div 2

\* What the one read() leaves in recv_data: the reply; its front, beginning
\* with requesttype; or less than that, as at the end of the stream.
Received == {"whole"} \cup (IF MayCut THEN {"front", "nothing"} ELSE {})

\* The microseconds of two results of one thread differ: a connection was
\* made in between.
LaterThan(results, now) == \A i \in DOMAIN results : results[i].timestamp < now

\* The reply is kept with its time, and the measured duration averaged in.
Keep(t, payload, now, duration) ==
    /\ Goto(t, "waiting", "loop")
    /\ Advance(t)
    /\ clock' = now
    /\ m_results' = [m_results EXCEPT ![t] =
           Append(@, [id |-> Current(t).id, payload |-> payload, timestamp |-> now])]
    /\ m_averageLatency' = [m_averageLatency EXCEPT ![t] = Average(@, duration)]
    /\ UNCHANGED <<m_inputdata, died>>

\* Faulty variant: no close.
Read_NoClose(t) == \E payload \in Received, now \in {clock, clock + 1}, duration \in Durations :
    /\ LaterThan(m_results[t], now)
    /\ Keep(t, payload, now, duration)
    /\ UNCHANGED fds

\* The reply is read, stamped and kept, and the socket closed.
Read(t) == \E payload \in Received, now \in {clock, clock + 1}, duration \in Durations :
    /\ LaterThan(m_results[t], now)
    /\ Keep(t, payload, now, duration)
    /\ fds' = fds \ {Current(t).id}
-----------------------------------------------------------------------------
Run(t) ==
    \/ SocketFails(t) \/ ConnectFails(t) \/ Connect(t)
    \/ RefuseEmptySet(t) \/ InvalidType(t)
    \/ Write(t) \/ WriteFails(t) \/ ReadFails(t) \/ Read(t)
    \/ Finish(t)
=============================================================================
