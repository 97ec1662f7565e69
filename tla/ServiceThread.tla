--------------------------- MODULE ServiceThread ---------------------------
(***************************************************************************)
(* The base class of the server's threads (server/src/ServiceThread.cpp):  *)
(* a libevent loop that another thread wakes with single bytes written to  *)
(* a socket pair, 'c' for "descriptors are queued" and 'e' for "exit", and *)
(* the condition variable on which stop() waits for the thread to leave.   *)
(***************************************************************************)
EXTENDS Integers, Sequences, FiniteSets

CONSTANTS
    Thread,     \* the service threads
    Fd,         \* client sockets
    NoFd,
    PipeCap,    \* bytes a socket pair holds before write gives EAGAIN
    Faults      \* what may go wrong: "init" - initEv or socketpair fails in
                \* run; "stray" - a write through m_sockets before run has
                \* set them (they are uninitialized until then) hits some
                \* other open descriptor and succeeds instead of failing

ASSUME ThreadAssumption ==
    /\ PipeCap \in Nat \ {0}
    /\ NoFd \notin Fd

VARIABLES
    phase,              \* where run() is
    pipe,               \* bytes written to m_sockets[0], not read yet
    queue,              \* m_queue
    lock,               \* m_threadCtxMtx: free, the loop's, or addFdToEvLoop's
    adding,             \* fd of the addFdToEvLoop that holds the lock
    evPc,               \* what the event loop is doing
    m_processExiting,
    stop,               \* where the call of stop() on the thread is
    stopMtx             \* is m_threadStopMtx held by stop()?

stVars == <<phase, pipe, queue, lock, adding, evPc, m_processExiting, stop, stopMtx>>

\* exited: m_exited is stored; gone: run has returned after it; failed: run
\* has returned early.
Phases == {"new", "spawned", "loop", "leaving", "exited", "gone", "failed"}
Looping(t) == phase[t] \in {"loop", "leaving"}
HasSockets(t) == phase[t] \notin {"new", "spawned", "failed"}
m_exited(t) == phase[t] \in {"exited", "gone"}

\* A stop() of some thread between its first statement and its return.
StopStates == {"none", "write", "check", "blocking", "waiting", "ok", "failed"}
Stopping(t) == stop[t] \in {"write", "check", "blocking", "waiting"}

STInit ==
    /\ phase = [t \in Thread |-> "new"]
    /\ pipe = [t \in Thread |-> <<>>]
    /\ queue = [t \in Thread |-> <<>>]
    /\ lock = [t \in Thread |-> "free"]
    /\ adding = [t \in Thread |-> NoFd]
    /\ evPc = [t \in Thread |-> "poll"]
    /\ m_processExiting = [t \in Thread |-> FALSE]
    /\ stop = [t \in Thread |-> "none"]
    /\ stopMtx = FALSE

Phase(t, from, to) == phase[t] = from /\ phase' = [phase EXCEPT ![t] = to]
Stop(t, from, to) == stop[t] = from /\ stop' = [stop EXCEPT ![t] = to]
Loop(t, from, to) == Looping(t) /\ evPc[t] = from /\ evPc' = [evPc EXCEPT ![t] = to]
-----------------------------------------------------------------------------
(* start and run, up to the event loop.                                    *)

Start(t) ==
    /\ Phase(t, "new", "spawned")
    /\ UNCHANGED <<pipe, queue, lock, adding, evPc, m_processExiting, stop, stopMtx>>

RunInit(t) ==
    /\ Phase(t, "spawned", "loop")
    /\ UNCHANGED <<pipe, queue, lock, adding, evPc, m_processExiting, stop, stopMtx>>

RunFail(t) ==
    /\ "init" \in Faults
    /\ Phase(t, "spawned", "failed")
    /\ UNCHANGED <<pipe, queue, lock, adding, evPc, m_processExiting, stop, stopMtx>>
-----------------------------------------------------------------------------
(* The loop.  onEvent reads one byte: 'e' runs cleanState and arms the     *)
(* exit timer, 'c' drains the whole queue under the lock.                  *)

Read(t, byte) ==
    /\ pipe[t] # <<>> /\ Head(pipe[t]) = byte
    /\ pipe' = [pipe EXCEPT ![t] = Tail(@)]

ExitRead(t) ==
    /\ Loop(t, "poll", "poll")
    /\ Read(t, "e")
    /\ phase' = [phase EXCEPT ![t] = "leaving"]
    /\ UNCHANGED <<queue, lock, adding, m_processExiting, stop, stopMtx>>

WakeRead(t) ==
    /\ Loop(t, "poll", "lock")
    /\ Read(t, "c")
    /\ UNCHANGED <<phase, queue, lock, adding, m_processExiting, stop, stopMtx>>

DrainLock(t) ==
    /\ Loop(t, "lock", "drain")
    /\ lock[t] = "free"
    /\ lock' = [lock EXCEPT ![t] = "loop"]
    /\ UNCHANGED <<phase, pipe, queue, adding, m_processExiting, stop, stopMtx>>

\* One round of the while: processEvent(front), pop_front.
DrainNext(t) ==
    /\ Loop(t, "drain", "drain")
    /\ queue[t] # <<>>
    /\ queue' = [queue EXCEPT ![t] = Tail(@)]
    /\ UNCHANGED <<phase, pipe, lock, adding, m_processExiting, stop, stopMtx>>

\* Faulty variant: one descriptor per byte, an "if" for the "while".
DrainDone_Early(t) ==
    /\ Loop(t, "drain", "poll")
    /\ lock' = [lock EXCEPT ![t] = "free"]
    /\ UNCHANGED <<phase, pipe, queue, adding, m_processExiting, stop, stopMtx>>

DrainDone(t) ==
    /\ Loop(t, "drain", "poll")
    /\ queue[t] = <<>>
    /\ lock' = [lock EXCEPT ![t] = "free"]
    /\ UNCHANGED <<phase, pipe, queue, adding, m_processExiting, stop, stopMtx>>

\* Any other callback of the loop: onAccept, TcpFlow::data.
CallbackBegin(t) == Loop(t, "poll", "busy")
    /\ UNCHANGED <<phase, pipe, queue, lock, adding, m_processExiting, stop, stopMtx>>
CallbackEnd(t) == Loop(t, "busy", "poll")
    /\ UNCHANGED <<phase, pipe, queue, lock, adding, m_processExiting, stop, stopMtx>>

\* The timer of exitLoop fires, dispatchEvloop returns, m_exited is stored.
Leave(t) ==
    /\ evPc[t] = "poll"
    /\ Phase(t, "leaving", "exited")
    /\ UNCHANGED <<pipe, queue, lock, adding, evPc, m_processExiting, stop, stopMtx>>

\* Faulty variants: notify_one without the mutex; and none at all.
Notify_NoMutex(t) ==
    /\ Phase(t, "exited", "gone")
    /\ stop' = [u \in Thread |-> IF stop[u] = "waiting" THEN "check" ELSE stop[u]]
    /\ UNCHANGED <<pipe, queue, lock, adding, evPc, m_processExiting, stopMtx>>

Notify_Never(t) ==
    /\ Phase(t, "exited", "gone")
    /\ UNCHANGED <<pipe, queue, lock, adding, evPc, m_processExiting, stop, stopMtx>>

\* lock_guard on m_threadStopMtx, notify_one; only one stop() can be waiting.
Notify(t) ==
    /\ ~stopMtx
    /\ Phase(t, "exited", "gone")
    /\ stop' = [u \in Thread |-> IF stop[u] = "waiting" THEN "check" ELSE stop[u]]
    /\ UNCHANGED <<pipe, queue, lock, adding, evPc, m_processExiting, stopMtx>>
-----------------------------------------------------------------------------
(* addFdToEvLoop, on the caller's thread: the wake byte is written before  *)
(* the descriptor is queued, both under the lock.                          *)

Write(t, byte) == pipe' = [pipe EXCEPT ![t] = Append(@, byte)]
CanWrite(t) == HasSockets(t) /\ Len(pipe[t]) < PipeCap
StrayWrite(t) == ~HasSockets(t) /\ "stray" \in Faults

\* Faulty variant: the descriptor to push is lost.
AddWrite_LosesFd(t, fd) ==
    /\ lock[t] = "free"
    /\ CanWrite(t) /\ Write(t, "c")
    /\ lock' = [lock EXCEPT ![t] = "add"]
    /\ UNCHANGED <<phase, queue, adding, evPc, m_processExiting, stop, stopMtx>>

AddWrite(t, fd) ==
    /\ lock[t] = "free"
    /\ \/ CanWrite(t) /\ Write(t, "c")
       \/ StrayWrite(t) /\ UNCHANGED pipe
    /\ lock' = [lock EXCEPT ![t] = "add"]
    /\ adding' = [adding EXCEPT ![t] = fd]
    /\ UNCHANGED <<phase, queue, evPc, m_processExiting, stop, stopMtx>>

\* When the write fails the call closes fd and returns false; of the thread
\* nothing has changed.
AddFails(t) == lock[t] = "free" /\ ~CanWrite(t)

AddPush(t) ==
    /\ lock[t] = "add"
    /\ queue' = [queue EXCEPT ![t] = Append(@, adding[t])]
    /\ adding' = [adding EXCEPT ![t] = NoFd]
    /\ lock' = [lock EXCEPT ![t] = "free"]
    /\ UNCHANGED <<phase, pipe, evPc, m_processExiting, stop, stopMtx>>
-----------------------------------------------------------------------------
(* stop, on the main thread.  TcpServer::shutdown and stopWorkers call it  *)
(* for one thread after the other.                                         *)

StopMark(t) ==
    /\ \A u \in Thread : ~Stopping(u)
    /\ phase[t] # "new"
    /\ Stop(t, "none", "write")
    /\ m_processExiting' = [m_processExiting EXCEPT ![t] = TRUE]
    /\ UNCHANGED <<phase, pipe, queue, lock, adding, evPc, stopMtx>>

StopWrite(t) ==
    /\ \/ CanWrite(t) /\ Write(t, "e")
       \/ StrayWrite(t) /\ UNCHANGED pipe
    /\ Stop(t, "write", "check")
    /\ UNCHANGED <<phase, queue, lock, adding, evPc, m_processExiting, stopMtx>>

StopFail(t) ==
    /\ ~CanWrite(t)
    /\ Stop(t, "write", "failed")
    /\ UNCHANGED <<phase, pipe, queue, lock, adding, evPc, m_processExiting, stopMtx>>

\* The predicate is evaluated with the mutex held ...
StopCheck(t) ==
    /\ ~stopMtx
    /\ \/ m_exited(t) /\ Stop(t, "check", "ok") /\ UNCHANGED stopMtx
       \/ ~m_exited(t) /\ Stop(t, "check", "blocking") /\ stopMtx' = TRUE
    /\ UNCHANGED <<phase, pipe, queue, lock, adding, evPc, m_processExiting>>

\* ... which wait gives up in the step in which it blocks.
StopBlock(t) ==
    /\ Stop(t, "blocking", "waiting")
    /\ stopMtx' = FALSE
    /\ UNCHANGED <<phase, pipe, queue, lock, adding, evPc, m_processExiting>>

\* Faulty variant: wait without the predicate.
StopSpurious_NoPredicate(t) ==
    /\ Stop(t, "waiting", "ok")
    /\ UNCHANGED <<phase, pipe, queue, lock, adding, evPc, m_processExiting, stopMtx>>

StopSpurious(t) ==
    /\ Stop(t, "waiting", "check")
    /\ UNCHANGED <<phase, pipe, queue, lock, adding, evPc, m_processExiting, stopMtx>>
-----------------------------------------------------------------------------
LoopStep(t) ==
    \/ ExitRead(t) \/ WakeRead(t) \/ DrainLock(t) \/ DrainNext(t) \/ DrainDone(t)
    \/ CallbackEnd(t) \/ Leave(t) \/ Notify(t)
StopStep(t) == StopWrite(t) \/ StopFail(t) \/ StopCheck(t) \/ StopBlock(t)

\* A descriptor the kernel gives out is not open already.
NotOpen(fd) == \A t \in Thread :
    adding[t] # fd /\ \A i \in DOMAIN queue[t] : queue[t][i] # fd

STNext == \E t \in Thread :
    \/ Start(t) \/ RunInit(t) \/ RunFail(t)
    \/ LoopStep(t) \/ CallbackBegin(t)
    \/ phase[t] # "new" /\ \E fd \in Fd : NotOpen(fd) /\ AddWrite(t, fd)
    \/ AddPush(t)
    \/ StopMark(t) \/ StopStep(t) \/ StopSpurious(t)

STSpec == STInit /\ [][STNext]_stVars

\* Threads that run are only preempted; callbacks end.  libevent runs every
\* active event of an iteration, and the timer that is due, before it polls
\* again: no event is passed over for ever in favour of others.  Nobody is
\* obliged to add descriptors or to stop a thread.
STFairness == \A t \in Thread :
    /\ WF_stVars(RunInit(t) \/ RunFail(t))
    /\ WF_stVars(LoopStep(t))
    /\ SF_stVars(ExitRead(t) \/ WakeRead(t))
    /\ SF_stVars(Leave(t))
    /\ WF_stVars(AddPush(t))
    /\ WF_stVars(StopStep(t))

FairSTSpec == STSpec /\ STFairness
-----------------------------------------------------------------------------
\* Every variable keeps its type.
STTypeOK ==
    /\ phase \in [Thread -> Phases]
    /\ pipe \in [Thread -> Seq({"c", "e"})]
    /\ queue \in [Thread -> Seq(Fd)]
    /\ lock \in [Thread -> {"free", "loop", "add"}]
    /\ adding \in [Thread -> Fd \cup {NoFd}]
    /\ evPc \in [Thread -> {"poll", "lock", "drain", "busy"}]
    /\ m_processExiting \in [Thread -> BOOLEAN]
    /\ stop \in [Thread -> StopStates]
    /\ stopMtx \in BOOLEAN

InPipe(t, byte) == \E i \in DOMAIN pipe[t] : pipe[t][i] = byte

\* The loop will look at the queue again: a 'c' is still to be read, or has
\* been read and the drain is not over.
WillDrain(t) == InPipe(t, "c") \/ evPc[t] \in {"lock", "drain"}

\* addFdToEvLoop returning true means that the loop will pick the descriptor
\* up: onEvent never finishes a drain between the byte and the push and
\* leaves the descriptor behind with nothing to announce it.
NoStrandedFd == \A t \in Thread : Looping(t) /\ queue[t] # <<>> => WillDrain(t)

\* A stop() that blocks has not missed the one notify of its thread, and its
\* 'e' is on the way or has done its work.
NoMissedNotify == \A t \in Thread :
    stop[t] \in {"blocking", "waiting"} =>
        /\ phase[t] # "gone"
        /\ InPipe(t, "e") \/ phase[t] \in {"leaving", "exited"}

\* stop() returns true only for a thread that has left its loop, however
\* often its wait is woken without reason.
StopMeansExited == \A t \in Thread : stop[t] = "ok" => m_exited(t)

\* A descriptor that waits in the queue of a running loop leaves it, unless
\* the loop is told to exit first.
QueueIsServed == \A t \in Thread :
    (Looping(t) /\ queue[t] # <<>>) ~> (queue[t] = <<>> \/ m_processExiting[t])

\* stop() comes back, with true or with false.
StopReturns == \A t \in Thread : stop[t] = "write" ~> stop[t] \in {"ok", "failed"}
=============================================================================
