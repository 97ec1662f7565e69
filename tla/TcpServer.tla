----------------------------- MODULE TcpServer -----------------------------
(***************************************************************************)
(* The whole server around its service threads: the main thread that       *)
(* starts, signals and stops them (main.cpp, TcpServer.cpp), the listener  *)
(* that accepts and dispatches round robin (Listener.cpp,                  *)
(* WorkerManager.cpp), the workers with their session tables               *)
(* (ServiceWorker.cpp) and the callbacks of a flow (TcpFlow.cpp).  What a  *)
(* request does to the dictionary is left to RequestHandler.               *)
(***************************************************************************)
EXTENDS ServiceThread

CONSTANTS
    m_numWorker,
    StartupRace,    \* may a client connect, or a signal cut the sleep(2) of
                    \* main short, before every thread has initialized?
    Unread          \* clients that stay connected without reading a reply
                    \* larger than the socket buffers

\* More members of Faults: "bind" - initApp of the listener throws; "fcntl" -
\* setnonblock fails on an accepted descriptor.

Workers == 0 .. m_numWorker - 1
Listener == m_numWorker

ASSUME ServerAssumption ==
    /\ m_numWorker \in Nat \ {0}
    /\ Thread = Workers \cup {Listener}
    /\ StartupRace \in BOOLEAN
    /\ Unread \subseteq Fd

VARIABLES
    mainPc, mainIdx,    \* the main thread; the thread it starts or stops
    done,               \* the flag of sighandler
    m_index,
    conn,               \* the server's end of each connection
    peer,               \* the client's end
    dispatch,           \* the fd that onAccept is giving away, or NoFd
    home,               \* the worker each connection was given to
    m_tcpSessions,      \* connections with a TcpFlow, per worker
    serving             \* the fd whose request a worker is answering

netVars == <<conn, peer, dispatch, home>>
flowVars == <<m_tcpSessions, serving>>
mainVars == <<mainPc, mainIdx, done>>
srvVars == <<mainVars, m_index, netVars, flowVars>>
vars == <<stVars, srvVars>>

NoWorker == m_numWorker + 1

\* open: has a TcpFlow whose m_clientFd is still -1; active: data() has set
\* it; leaked: forgotten without a close; refused: reset by the kernel.
ConnStates == {"none", "backlog", "accepted", "queued", "open", "active",
               "closed", "leaked", "refused"}

Init ==
    /\ STInit
    /\ mainPc = "start" /\ mainIdx = 0 /\ done = FALSE
    /\ m_index = 0
    /\ conn = [f \in Fd |-> "none"]
    /\ peer = [f \in Fd |-> "none"]
    /\ dispatch = NoFd
    /\ home = [f \in Fd |-> NoWorker]
    /\ m_tcpSessions = [w \in Workers |-> {}]
    /\ serving = [w \in Workers |-> NoFd]

Running == mainPc \notin {"exited", "aborted"}
listening == phase[Listener] = "loop"
Initialized == \A t \in Thread : phase[t] \notin {"new", "spawned"}
Conn(f, from, to) == conn[f] = from /\ conn' = [conn EXCEPT ![f] = to]
Peer(f, from, to) == peer[f] = from /\ peer' = [peer EXCEPT ![f] = to]
-----------------------------------------------------------------------------
(* The main thread.  start: the workers, then the listener.                *)

StartThread ==
    /\ mainPc = "start"
    /\ Start(mainIdx)
    /\ IF mainIdx = Listener THEN mainPc' = "serve" /\ UNCHANGED mainIdx
                             ELSE mainIdx' = mainIdx + 1 /\ UNCHANGED mainPc
    /\ UNCHANGED <<done, m_index, netVars, flowVars>>

Signal ==
    /\ ~done
    /\ StartupRace \/ Initialized
    /\ done' = TRUE
    /\ UNCHANGED <<stVars, mainPc, mainIdx, m_index, netVars, flowVars>>

\* Faulty variant: the workers are stopped, the listener is not.
Shutdown_WorkersFirst ==
    /\ mainPc = "serve" /\ done
    /\ StopMark(0)
    /\ mainPc' = "stop" /\ mainIdx' = 0
    /\ UNCHANGED <<done, m_index, netVars, flowVars>>

\* shutdown and stopWorkers: the listener first, then every worker in turn,
\* whatever stop() returned for the one before.
Shutdown ==
    /\ mainPc = "serve" /\ done
    /\ StopMark(Listener)
    /\ mainPc' = "stop" /\ mainIdx' = Listener
    /\ UNCHANGED <<done, m_index, netVars, flowVars>>

InStop ==
    /\ mainPc = "stop"
    /\ StopStep(mainIdx) \/ StopSpurious(mainIdx)
    /\ UNCHANGED srvVars

Stopped(t) == stop[t] \in {"ok", "failed"}
NextToStop(t) == IF t = Listener THEN 0 ELSE t + 1

StopWorker ==
    /\ mainPc = "stop" /\ Stopped(mainIdx)
    /\ NextToStop(mainIdx) \in Workers
    /\ StopMark(NextToStop(mainIdx))
    /\ mainIdx' = NextToStop(mainIdx)
    /\ UNCHANGED <<mainPc, done, m_index, netVars, flowVars>>

\* Faulty variant: the objects go while stop() of the last still waits.
ClearWorkers_NoWait ==
    /\ mainPc = "stop"
    /\ NextToStop(mainIdx) = Listener
    /\ mainPc' = "delete"
    /\ UNCHANGED <<stVars, mainIdx, done, m_index, netVars, flowVars>>

\* m_workers.clear() destroys the worker objects.
ClearWorkers ==
    /\ mainPc = "stop" /\ Stopped(mainIdx)
    /\ NextToStop(mainIdx) = Listener
    /\ mainPc' = "delete"
    /\ UNCHANGED <<stVars, mainIdx, done, m_index, netVars, flowVars>>

\* delete tcpserver destroys the listener object; then main returns.
DeleteServer ==
    /\ mainPc = "delete" /\ mainPc' = "return"
    /\ UNCHANGED <<stVars, mainIdx, done, m_index, netVars, flowVars>>

Exit ==
    /\ mainPc = "return" /\ mainPc' = "exited"
    /\ UNCHANGED <<stVars, mainIdx, done, m_index, netVars, flowVars>>

freed == IF mainPc = "delete" THEN Workers
         ELSE IF mainPc \in {"return", "exited"} THEN Thread ELSE {}
-----------------------------------------------------------------------------
(* The clients, one request per connection.                                *)

Connect(f) ==
    /\ listening
    /\ StartupRace \/ Initialized
    /\ Peer(f, "none", "waiting")
    /\ Conn(f, "none", "backlog")
    /\ UNCHANGED <<stVars, mainVars, m_index, dispatch, home, flowVars>>

HangUp(f) ==
    /\ Peer(f, "waiting", "left") \/ Peer(f, "answered", "left")
    /\ UNCHANGED <<stVars, mainVars, m_index, conn, dispatch, home, flowVars>>
-----------------------------------------------------------------------------
(* The listener: initApp, onAccept with the dispatch it makes, cleanState. *)

BindFails ==
    /\ "bind" \in Faults
    /\ phase[Listener] = "spawned"
    /\ mainPc' = "aborted"
    /\ UNCHANGED <<stVars, mainIdx, done, m_index, netVars, flowVars>>

\* Faulty variants: no modulo; no increment.
getWorkerIndex_NoModulo == m_index + 1
getWorkerIndex_Same == m_index

getWorkerIndex == (m_index + 1) % m_numWorker

Accept(f) ==
    /\ listening
    /\ CallbackBegin(Listener)
    /\ Conn(f, "backlog", "accepted")
    /\ dispatch' = f
    /\ m_index' = getWorkerIndex
    /\ home' = [home EXCEPT ![f] = m_index']
    /\ UNCHANGED <<mainVars, peer, flowVars>>

AcceptLeak(f) ==
    /\ "fcntl" \in Faults
    /\ listening /\ evPc[Listener] = "poll"
    /\ Conn(f, "backlog", "leaked")
    /\ UNCHANGED <<stVars, mainVars, m_index, peer, dispatch, home, flowVars>>

\* Faulty variant: the descriptor is not closed when the write fails.
CloseFailed_Not == UNCHANGED conn

CloseFailed == Conn(dispatch, "accepted", "closed")

Dispatch ==
    /\ dispatch # NoFd
    /\ UNCHANGED <<mainVars, m_index, peer, home, flowVars>>
    /\ LET to == home[dispatch]
       IN  \/ AddWrite(to, dispatch) /\ UNCHANGED <<conn, dispatch>>
           \/ AddPush(to) /\ Conn(dispatch, "accepted", "queued") /\ dispatch' = NoFd
           \/ AddFails(to) /\ CloseFailed /\ dispatch' = NoFd /\ UNCHANGED stVars

AcceptReturns ==
    /\ dispatch = NoFd
    /\ CallbackEnd(Listener)
    /\ UNCHANGED srvVars

\* The listening socket is closed; connections not accepted are reset.
ListenerExit ==
    /\ ExitRead(Listener)
    /\ conn' = [f \in Fd |-> IF conn[f] = "backlog" THEN "refused" ELSE conn[f]]
    /\ UNCHANGED <<mainVars, m_index, peer, dispatch, home, flowVars>>
-----------------------------------------------------------------------------
(* The workers.                                                            *)

\* Faulty variant: the event of the new flow is not added to the loop.
NewFlow_NoEvent(w, fd) == Conn(fd, "queued", "open") /\ UNCHANGED m_tcpSessions

\* A TcpFlow is made, stored and polled.
NewFlow(w, fd) ==
    /\ Conn(fd, "queued", "open")
    /\ m_tcpSessions' = [m_tcpSessions EXCEPT ![w] = @ \cup {fd}]

\* Faulty variant: the queue is popped outside the drain.
ProcessEvent_NoLock(w) ==
    /\ queue[w] # <<>>
    /\ queue' = [queue EXCEPT ![w] = Tail(@)]
    /\ NewFlow(w, Head(queue[w]))
    /\ UNCHANGED <<phase, pipe, lock, adding, evPc, m_processExiting, stop, stopMtx,
                   mainVars, m_index, peer, dispatch, home, serving>>

\* processEvent on the front of the queue.
ProcessEvent(w) ==
    /\ DrainNext(w)
    /\ LET fd == Head(queue[w])
       IN  IF m_processExiting[w]
           THEN Conn(fd, "queued", "leaked") /\ UNCHANGED m_tcpSessions
           ELSE NewFlow(w, fd)
    /\ UNCHANGED <<mainVars, m_index, peer, dispatch, home, serving>>

\* Faulty variant: m_clientFd is not set.
FlowData_NoClientFd(w, f) ==
    /\ f \in m_tcpSessions[w] /\ peer[f] = "waiting"
    /\ CallbackBegin(w)
    /\ serving' = [serving EXCEPT ![w] = f]
    /\ UNCHANGED <<mainVars, m_index, conn, peer, dispatch, home, m_tcpSessions>>

\* data() sets m_clientFd and reads the request ...
FlowData(w, f) ==
    /\ f \in m_tcpSessions[w] /\ peer[f] = "waiting"
    /\ CallbackBegin(w)
    /\ conn' = [conn EXCEPT ![f] = "active"]
    /\ serving' = [serving EXCEPT ![w] = f]
    /\ UNCHANGED <<mainVars, m_index, peer, dispatch, home, m_tcpSessions>>

\* ... and socketWriteData writes until all of the reply is taken or the
\* client is gone.
FlowReply(w) ==
    LET f == serving[w]
    IN  /\ f # NoFd
        /\ CallbackEnd(w)
        /\ serving' = [serving EXCEPT ![w] = NoFd]
        /\ \/ f \notin Unread /\ Peer(f, "waiting", "answered")
           \/ peer[f] = "left" /\ UNCHANGED peer
        /\ UNCHANGED <<mainVars, m_index, conn, dispatch, home, m_tcpSessions>>

\* Faulty variant: a read that finds nothing counts as the end of the stream.
AtEnd_OnEagain(f) == TRUE

deleteTcpFlow(w, f) == m_tcpSessions' = [m_tcpSessions EXCEPT ![w] = @ \ {f}]
AtEnd(f) == peer[f] = "left"

\* data() reads the end of the stream: deleteTcpFlow, and ~TcpFlow closes.
FlowEnd(w, f) ==
    /\ evPc[w] = "poll"
    /\ f \in m_tcpSessions[w] /\ AtEnd(f)
    /\ deleteTcpFlow(w, f)
    /\ conn' = [conn EXCEPT ![f] = "closed"]
    /\ UNCHANGED <<stVars, mainVars, m_index, peer, dispatch, home, serving>>

\* Faulty variants: cleanState without clear; and onEvent without stopThread.
WorkerExit_KeepsSessions(w) ==
    /\ ExitRead(w)
    /\ UNCHANGED srvVars

WorkerExit_NoExitLoop(w) ==
    /\ Loop(w, "poll", "poll")
    /\ Read(w, "e")
    /\ m_tcpSessions' = [m_tcpSessions EXCEPT ![w] = {}]
    /\ UNCHANGED <<phase, queue, lock, adding, m_processExiting, stop, stopMtx,
                   mainVars, m_index, netVars, serving>>

\* cleanState: ~TcpFlow closes m_clientFd, which is -1 until data() ran.
WorkerExit(w) ==
    /\ ExitRead(w)
    /\ conn' = [f \in Fd |->
                  IF f \in m_tcpSessions[w]
                  THEN IF conn[f] = "active" THEN "closed" ELSE "leaked"
                  ELSE conn[f]]
    /\ m_tcpSessions' = [m_tcpSessions EXCEPT ![w] = {}]
    /\ UNCHANGED <<mainVars, m_index, peer, dispatch, home, serving>>

\* The steps of a thread that touch nothing of the server.
ThreadOnly(t) ==
    /\ \/ RunInit(t) \/ RunFail(t)
       \/ WakeRead(t) \/ DrainLock(t) \/ DrainDone(t)
       \/ Leave(t) \/ Notify(t)
    /\ UNCHANGED srvVars
-----------------------------------------------------------------------------
MainThread ==
    \/ StartThread \/ Shutdown \/ InStop \/ StopWorker
    \/ ClearWorkers \/ DeleteServer \/ Exit

\* What the threads are obliged to go on with, and what only clients, signals
\* and the environment decide.
ListenerCallback == Dispatch \/ AcceptReturns
Clients == \E f \in Fd : Connect(f) \/ HangUp(f)
Environment == Clients \/ Signal \/ BindFails

Next ==
    /\ Running
    /\ \/ MainThread
       \/ Environment
       \/ ListenerCallback \/ ListenerExit
       \/ \E f \in Fd : Accept(f) \/ AcceptLeak(f)
       \/ \E w \in Workers :
            \/ ProcessEvent(w) \/ FlowReply(w) \/ WorkerExit(w)
            \/ \E f \in Fd : FlowData(w, f) \/ FlowEnd(w, f)
       \/ \E t \in Thread : ThreadOnly(t)

Spec == Init /\ [][Next]_vars

\* Threads are only preempted and a callback that can go on does.  libevent
\* runs every event that stays active; a client asks once, so callbacks defer
\* an event only finitely often and weak fairness is enough.  No client has to
\* connect or to close, nobody has to signal.
Fairness ==
    /\ WF_vars(Running /\ MainThread)
    /\ WF_vars(Running /\ ListenerCallback)
    /\ WF_vars(Running /\ ListenerExit)
    /\ \A t \in Thread : WF_vars(Running /\ ThreadOnly(t))
    /\ \A f \in Fd : WF_vars(Running /\ (Accept(f) \/ AcceptLeak(f)))
    /\ \A w \in Workers :
        /\ WF_vars(Running /\ (ProcessEvent(w) \/ FlowReply(w)))
        /\ WF_vars(Running /\ WorkerExit(w))
        /\ \A f \in Fd : WF_vars(Running /\ (FlowData(w, f) \/ FlowEnd(w, f)))

FairSpec == Spec /\ Fairness
-----------------------------------------------------------------------------
\* Every variable keeps its type.
TypeOK ==
    /\ STTypeOK
    /\ mainPc \in {"start", "serve", "stop", "delete", "return", "exited", "aborted"}
    /\ mainIdx \in Thread
    /\ done \in BOOLEAN
    /\ m_index \in Workers
    /\ conn \in [Fd -> ConnStates]
    /\ peer \in [Fd -> {"none", "waiting", "answered", "left"}]
    /\ dispatch \in Fd \cup {NoFd}
    /\ home \in [Fd -> Workers \cup {NoWorker}]
    /\ m_tcpSessions \in [Workers -> SUBSET Fd]
    /\ serving \in [Workers -> Fd \cup {NoFd}]

Queued(w) == {queue[w][i] : i \in DOMAIN queue[w]}

\* A descriptor that the server holds is in exactly one place - in the hands
\* of onAccept, once in the queue of one worker, or in one session table -
\* and that worker is the one round robin chose; one that it does not hold is
\* in none.
OneOwner ==
    /\ \A f \in Fd :
        /\ conn[f] = "accepted" <=> dispatch = f
        /\ \A w \in Workers :
            /\ f \in Queued(w) <=> conn[f] = "queued" /\ home[f] = w
            /\ f \in m_tcpSessions[w] <=> conn[f] \in {"open", "active"} /\ home[f] = w
    /\ \A w \in Workers : Cardinality(Queued(w)) = Len(queue[w])

Given(w) == Cardinality({f \in Fd : home[f] = w})

\* Round robin: no worker is given two connections more than another.
RoundRobinBalanced == \A v, w \in Workers : Given(v) - Given(w) \in -1 .. 1

\* While the server is not told to stop it neither closes nor forgets the
\* connection of a client that still waits for its reply.
NoneDropped ==
    ~done => \A f \in Fd :
        peer[f] = "waiting" => conn[f] \notin {"closed", "leaked", "refused"}

\* A worker that has cleaned up leaves nothing behind: all descriptors that
\* were queued have been looked at, no session was added after cleanState,
\* and none is being served.  It takes both the order in which shutdown stops
\* the threads and that stop() marks before it wakes.
WorkerLeavesNothing ==
    \A w \in Workers : phase[w] \in {"leaving", "exited", "gone"} =>
        queue[w] = <<>> /\ m_tcpSessions[w] = {} /\ serving[w] = NoFd

\* ~TcpFlow closes nothing before data() has set m_clientFd, and onAccept drops
\* a descriptor that fcntl fails on.  Neither ever concerns a client that has
\* its reply, and only a worker that is being stopped leaks what it was given.
LeaksAreUnserved ==
    \A f \in Fd : conn[f] = "leaked" =>
        /\ peer[f] # "answered"
        /\ home[f] = NoWorker \/ m_processExiting[home[f]]

\* Once a worker is being stopped no descriptor is given to it any more.
NoDispatchToStopped ==
    [][\A w \in Workers :
        m_processExiting[w] => Len(queue'[w]) <= Len(queue[w])]_vars

\* "It will make sure threads are exited normally": no thread object is
\* destroyed while its run() may still use it.
ThreadsExitBeforeFree ==
    \A t \in freed : phase[t] \in {"exited", "gone", "failed"}

\* Every step is a step of the service threads.
IsServiceThreads == STSpec

\* A client that has sent its request is answered, unless the server is told
\* to stop or the client gives up.
ClientsServed ==
    \A f \in Fd : peer[f] = "waiting" ~> peer[f] # "waiting" \/ done

\* After a signal the process comes to its end.
ShutdownCompletes == done ~> ~Running
=============================================================================
