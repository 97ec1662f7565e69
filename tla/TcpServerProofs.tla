-------------------------- MODULE TcpServerProofs --------------------------
(***************************************************************************)
(* Proofs about TcpServer, for any number of workers, connections and pipe *)
(* capacity: every step of the server is one of its service threads, so    *)
(* what ServiceThreadProofs shows holds of them; a descriptor has one      *)
(* owner and round robin is fair, whatever fails; and, once clients and    *)
(* signals wait for the threads to initialize, what a shutdown leaves.     *)
(***************************************************************************)
EXTENDS TcpServer, ServiceThreadProofs, FiniteSetTheorems

-----------------------------------------------------------------------------
(* The threads.                                                            *)

\* The workers are the threads below the listener.
LEMMA Threads ==
    /\ m_numWorker \in Nat /\ Listener = m_numWorker /\ NoWorker = m_numWorker + 1
    /\ Thread = 0 .. Listener /\ Listener \in Thread /\ 0 \in Workers
    /\ \A t : t \in Thread <=> t \in Workers \/ t = Listener
    /\ \A w \in Workers : w \in Nat /\ w < Listener /\ w + 1 \in Thread
    /\ Listener \notin Workers /\ NoWorker \notin Workers
    /\ NoFd \notin Fd
<1>1. m_numWorker \in Nat \ {0} /\ Thread = Workers \cup {Listener} /\ NoFd \notin Fd
  BY ServerAssumption, ThreadAssumption
<1>2. Workers = 0 .. m_numWorker - 1 /\ Listener = m_numWorker /\ NoWorker = m_numWorker + 1
  BY DEF Workers, Listener, NoWorker
<1> QED
  BY <1>1, <1>2

\* Round robin stays among the workers: the next one, or the first again.
LEMMA NextWorker ==
    ASSUME m_index \in Workers
    PROVE  /\ getWorkerIndex \in Workers
           /\ getWorkerIndex = IF m_index + 1 = m_numWorker THEN 0 ELSE m_index + 1
<1>1. m_numWorker \in Nat \ {0} /\ m_index \in Nat /\ m_index + 1 <= m_numWorker
  BY ServerAssumption DEF Workers
<1>2. getWorkerIndex = IF m_index + 1 = m_numWorker THEN 0 ELSE m_index + 1
  BY <1>1 DEF getWorkerIndex
<1> QED
  BY <1>1, <1>2 DEF Workers

-----------------------------------------------------------------------------
(* Types, of the main thread, of the connections and of the flows.         *)

MainTypes ==
    /\ mainPc \in {"start", "serve", "stop", "delete", "return", "exited", "aborted"}
    /\ mainIdx \in Thread
    /\ done \in BOOLEAN
    /\ m_index \in Workers

NetTypes ==
    /\ conn \in [Fd -> ConnStates]
    /\ peer \in [Fd -> {"none", "waiting", "answered", "left"}]
    /\ dispatch \in Fd \cup {NoFd}
    /\ home \in [Fd -> Workers \cup {NoWorker}]

FlowTypes ==
    /\ m_tcpSessions \in [Workers -> SUBSET Fd]
    /\ serving \in [Workers -> Fd \cup {NoFd}]

ServerTypes == MainTypes /\ NetTypes /\ FlowTypes

\* Initially the types are right.
LEMMA ServerTypesInit == Init => ServerTypes
<1>1. Init => MainTypes
  BY Threads DEF Init, MainTypes
<1>2. Init => NetTypes
  BY DEF Init, NetTypes, ConnStates
<1>3. Init => FlowTypes
  BY DEF Init, FlowTypes
<1> QED
  BY <1>1, <1>2, <1>3 DEF ServerTypes

\* Every step keeps the types of the main thread and of m_index.
LEMMA MainTypesStep == MainTypes /\ [Next]_vars => MainTypes'
<1> SUFFICES ASSUME MainTypes, [Next]_vars
             PROVE  MainTypes'
  OBVIOUS
<1>1. CASE StartThread
  <2>1. mainIdx # Listener => mainIdx + 1 \in Thread
    BY Threads DEF MainTypes
  <2> QED
    BY <1>1, <2>1 DEF StartThread, MainTypes
<1>2. CASE Signal
  BY <1>2 DEF Signal, MainTypes
<1>3. CASE Shutdown
  BY <1>3, Threads DEF Shutdown, MainTypes
<1>4. CASE StopWorker
  BY <1>4, Threads DEF StopWorker, MainTypes
<1>5. CASE ClearWorkers \/ DeleteServer \/ Exit \/ BindFails
  BY <1>5 DEF ClearWorkers, DeleteServer, Exit, BindFails, MainTypes
<1>6. ASSUME NEW f \in Fd, Accept(f)
      PROVE  MainTypes'
  <2>1. m_index' \in Workers /\ UNCHANGED mainVars
    BY <1>6, NextWorker DEF Accept, MainTypes
  <2> QED
    BY <2>1 DEF MainTypes, mainVars
<1>7. CASE UNCHANGED <<mainVars, m_index>>
  BY <1>7 DEF MainTypes, mainVars
<1> QED
  BY <1>1, <1>2, <1>3, <1>4, <1>5, <1>6, <1>7
  DEF Next, MainThread, InStop, Environment, Clients, Connect, HangUp, ListenerCallback, Dispatch,
      AcceptReturns, ListenerExit, AcceptLeak, ProcessEvent, FlowReply, WorkerExit, FlowData,
      FlowEnd, ThreadOnly, vars, srvVars

\* Every step keeps the types of the connections.
LEMMA NetTypesStep == ServerTypes /\ [Next]_vars => NetTypes'
<1> SUFFICES ASSUME MainTypes, NetTypes, FlowTypes, [Next]_vars
             PROVE  NetTypes'
  BY DEF ServerTypes
<1> USE DEF NetTypes, ConnStates
<1>1. ASSUME NEW f \in Fd, Connect(f) \/ HangUp(f) \/ AcceptLeak(f)
      PROVE  NetTypes'
  BY <1>1 DEF Connect, HangUp, AcceptLeak, Conn, Peer
<1>2. ASSUME NEW f \in Fd, Accept(f)
      PROVE  NetTypes'
  <2>1. m_index' \in Workers
    BY <1>2, NextWorker DEF Accept, MainTypes
  <2> QED
    BY <1>2, <2>1 DEF Accept, Conn
<1>3. CASE Dispatch
  BY <1>3 DEF Dispatch, CloseFailed, Conn
<1>4. CASE ListenerExit
  BY <1>4 DEF ListenerExit
<1>5. ASSUME NEW w \in Workers, ProcessEvent(w)
      PROVE  NetTypes'
  BY <1>5 DEF ProcessEvent, NewFlow, Conn
<1>6. ASSUME NEW w \in Workers, FlowReply(w)
      PROVE  NetTypes'
  BY <1>6 DEF FlowReply, Peer
<1>7. ASSUME NEW w \in Workers, WorkerExit(w)
      PROVE  NetTypes'
  BY <1>7 DEF WorkerExit
<1>8. ASSUME NEW w \in Workers, NEW f \in Fd, FlowData(w, f) \/ FlowEnd(w, f)
      PROVE  NetTypes'
  BY <1>8 DEF FlowData, FlowEnd
<1>9. CASE UNCHANGED netVars
  BY <1>9 DEF netVars
<1> QED
  BY <1>1, <1>2, <1>3, <1>4, <1>5, <1>6, <1>7, <1>8, <1>9
  DEF Next, MainThread, StartThread, Shutdown, StopWorker, ClearWorkers, DeleteServer, Exit,
      InStop, Environment, Clients, Signal, BindFails, ListenerCallback, AcceptReturns,
      ThreadOnly, vars, srvVars

\* Every step keeps the types of the flows.
LEMMA FlowTypesStep == SeqTypes /\ FlowTypes /\ [Next]_vars => FlowTypes'
<1> SUFFICES ASSUME SeqTypes, FlowTypes, [Next]_vars
             PROVE  FlowTypes'
  OBVIOUS
<1> USE DEF FlowTypes
<1>1. ASSUME NEW w \in Workers, ProcessEvent(w)
      PROVE  FlowTypes'
  <2>1. Head(queue[w]) \in Fd
    <3>1. queue[w] \in Seq(Fd) /\ queue[w] # <<>>
      BY <1>1, Threads DEF ProcessEvent, DrainNext, SeqTypes
    <3> QED
      BY <3>1
  <2> QED
    BY <1>1, <2>1 DEF ProcessEvent, NewFlow
<1>2. ASSUME NEW w \in Workers, FlowReply(w)
      PROVE  FlowTypes'
  BY <1>2 DEF FlowReply
<1>3. ASSUME NEW w \in Workers, WorkerExit(w)
      PROVE  FlowTypes'
  BY <1>3 DEF WorkerExit
<1>4. ASSUME NEW w \in Workers, NEW f \in Fd, FlowData(w, f)
      PROVE  FlowTypes'
  BY <1>4 DEF FlowData
<1>5. ASSUME NEW w \in Workers, NEW f \in Fd, FlowEnd(w, f)
      PROVE  FlowTypes'
  BY <1>5 DEF FlowEnd, deleteTcpFlow
<1>6. CASE UNCHANGED flowVars
  BY <1>6 DEF flowVars
<1> QED
  BY <1>1, <1>2, <1>3, <1>4, <1>5, <1>6
  DEF Next, MainThread, StartThread, Shutdown, StopWorker, ClearWorkers, DeleteServer, Exit,
      InStop, Environment, Clients, Connect, HangUp, Signal, BindFails, ListenerCallback, Dispatch,
      AcceptReturns, ListenerExit, Accept, AcceptLeak, ThreadOnly, vars, srvVars
-----------------------------------------------------------------------------
(* Sequences without duplicates.                                           *)

Elems(s) == {s[i] : i \in DOMAIN s}
NoDup(s) == \A i, j \in DOMAIN s : s[i] = s[j] => i = j

\* Appending an element that is not there adds it, once.
LEMMA ElemsAppend ==
    ASSUME NEW S, NEW s \in Seq(S), NEW e \in S
    PROVE  /\ Elems(Append(s, e)) = Elems(s) \cup {e}
           /\ NoDup(s) /\ e \notin Elems(s) => NoDup(Append(s, e))
<1>1. /\ DOMAIN s = 1 .. Len(s) /\ DOMAIN Append(s, e) = 1 .. Len(s) + 1 /\ Len(s) \in Nat
      /\ \A i \in 1 .. Len(s) : Append(s, e)[i] = s[i]
      /\ Append(s, e)[Len(s) + 1] = e
  OBVIOUS
<1>2. Elems(Append(s, e)) = Elems(s) \cup {e}
  BY <1>1 DEF Elems
<1>3. ASSUME NoDup(s), e \notin Elems(s), NEW i \in 1 .. Len(s) + 1, NEW j \in 1 .. Len(s) + 1,
             Append(s, e)[i] = Append(s, e)[j]
      PROVE  i = j
  BY <1>1, <1>3 DEF Elems, NoDup
<1> QED
  BY <1>1, <1>2, <1>3 DEF NoDup

\* Popping the front takes just that element away.
LEMMA ElemsTail ==
    ASSUME NEW S, NEW s \in Seq(S), s # <<>>, NoDup(s)
    PROVE  /\ Elems(Tail(s)) = Elems(s) \ {Head(s)} /\ Head(s) \in Elems(s) /\ Head(s) \in S
           /\ NoDup(Tail(s))
<1>1. /\ DOMAIN s = 1 .. Len(s) /\ DOMAIN Tail(s) = 1 .. Len(s) - 1 /\ Len(s) \in Nat \ {0}
      /\ \A i \in 1 .. Len(s) - 1 : Tail(s)[i] = s[i + 1]
      /\ Head(s) = s[1]
  OBVIOUS
<1>2. Elems(Tail(s)) = Elems(s) \ {Head(s)}
  <2>1. ASSUME NEW i \in 1 .. Len(s) - 1
        PROVE  Tail(s)[i] \in Elems(s) \ {Head(s)}
    <3>1. i + 1 \in 1 .. Len(s) /\ i + 1 # 1 /\ 1 \in 1 .. Len(s)
      BY <1>1
    <3> QED
      BY <1>1, <3>1 DEF Elems, NoDup
  <2>2. ASSUME NEW i \in 1 .. Len(s), s[i] # Head(s)
        PROVE  s[i] \in Elems(Tail(s))
    <3>1. i - 1 \in 1 .. Len(s) - 1 /\ Tail(s)[i - 1] = s[i]
      BY <1>1, <2>2
    <3> QED
      BY <1>1, <3>1 DEF Elems
  <2> QED
    BY <1>1, <2>1, <2>2 DEF Elems
<1>3. ASSUME NEW i \in 1 .. Len(s) - 1, NEW j \in 1 .. Len(s) - 1, Tail(s)[i] = Tail(s)[j]
      PROVE  i = j
  <2>1. i + 1 = j + 1
    BY <1>1, <1>3 DEF NoDup
  <2> QED
    BY <2>1
<1>4. Head(s) \in Elems(s) /\ Head(s) \in S
  BY <1>1 DEF Elems
<1> QED
  BY <1>1, <1>2, <1>3, <1>4 DEF NoDup

\* Without duplicates there are as many elements as places.
LEMMA NoDupCounts ==
    ASSUME NEW S, NEW s \in Seq(S), NoDup(s)
    PROVE  Cardinality(Elems(s)) = Len(s)
<1>1. DOMAIN s = 1 .. Len(s) /\ Len(s) \in Nat /\ s = [i \in 1 .. Len(s) |-> s[i]]
  OBVIOUS
<1>2. s \in [1 .. Len(s) -> Elems(s)]
  BY <1>1 DEF Elems
<1>3. s \in Bijection(1 .. Len(s), Elems(s))
  BY <1>1, <1>2 DEF Bijection, Injection, Surjection, IsInjective, Elems, NoDup
<1> QED
  BY <1>1, <1>3, FS_CountingElements DEF ExistsBijection

-----------------------------------------------------------------------------
(* Who owns a descriptor.                                                  *)

\* The workers are started first and in order.
StartInv == \A t \in Thread : phase[t] = "new" <=> mainPc = "start" /\ t >= mainIdx

\* Only onAccept calls addFdToEvLoop, for the descriptor it has just accepted,
\* and while the listener's loop is in that callback.
CallInv ==
    /\ \A f \in Fd : conn[f] = "accepted" <=> dispatch = f
    /\ dispatch # NoFd => evPc[Listener] = "busy" /\ phase[Listener] = "loop"
    /\ \A t \in Thread :
        /\ lock[t] = "add" => dispatch # NoFd /\ adding[t] = dispatch /\ home[dispatch] = t
        /\ lock[t] # "add" => adding[t] = NoFd
        /\ evPc[t] = "drain" => lock[t] = "loop"

\* A connection is given to a worker when it is accepted.
HomeInv == \A f \in Fd :
    /\ conn[f] \in {"accepted", "queued", "open", "active"} => home[f] \in Workers
    /\ conn[f] \in {"none", "backlog"} => home[f] = NoWorker

\* What is queued at a worker, what has a flow, and what it is serving.
QueueInv ==
    /\ queue[Listener] = <<>>
    /\ \A w \in Workers : NoDup(queue[w])
    /\ \A w \in Workers : \A f \in Fd : f \in Elems(queue[w]) <=> conn[f] = "queued" /\ home[f] = w

SessionInv == \A w \in Workers : \A f \in Fd :
    f \in m_tcpSessions[w] <=> conn[f] \in {"open", "active"} /\ home[f] = w

ServingInv == \A w \in Workers : serving[w] # NoFd => evPc[w] = "busy"

OwnerInv == CallInv /\ HomeInv /\ QueueInv /\ SessionInv

\* Initially nothing is owned.
LEMMA OwnerInit == Init => StartInv /\ OwnerInv /\ ServingInv
<1> SUFFICES ASSUME Init
             PROVE  StartInv /\ OwnerInv /\ ServingInv
  OBVIOUS
<1>1. StartInv
  BY Threads DEF Init, STInit, StartInv
<1>2. CallInv /\ HomeInv /\ SessionInv /\ ServingInv
  BY Threads DEF Init, STInit, CallInv, HomeInv, SessionInv, ServingInv
<1>3. QueueInv
  BY Threads DEF Init, STInit, QueueInv, Elems, NoDup
<1> QED
  BY <1>1, <1>2, <1>3 DEF OwnerInv

-----------------------------------------------------------------------------
(* Every step of the server is a step of its service threads.              *)

\* onAccept may call addFdToEvLoop: the worker it has chosen was started, and
\* the descriptor it has just accepted is with no thread.
LEMMA DispatchIsThreads ==
    ASSUME STTypeInv, ServerTypes, StartInv, OwnerInv, Dispatch
    PROVE  [STNext]_stVars
<1> DEFINE to == home[dispatch]
<1>1. dispatch \in Fd /\ to \in Workers /\ to \in Thread /\ conn[dispatch] = "accepted"
  BY Threads DEF Dispatch, ServerTypes, NetTypes, OwnerInv, CallInv, HomeInv
<1>2. CASE AddWrite(to, dispatch)
  <2>1. phase[to] # "new"
    <3>1. phase[Listener] # "new"
      BY <1>1 DEF Dispatch, OwnerInv, CallInv
    <3>2. mainPc = "start" => Listener < mainIdx \/ mainIdx \notin Int
      BY <3>1, Threads DEF StartInv
    <3> QED
      BY <1>1, <3>2, Threads DEF StartInv, ServerTypes, MainTypes
  <2>2. ASSUME NEW t \in Thread
        PROVE  adding[t] # dispatch
    <3>1. lock[to] # "add"
      BY <1>2 DEF AddWrite
    <3> QED
      BY <1>1, <3>1, Threads DEF OwnerInv, CallInv
  <2>3. ASSUME NEW t \in Thread, NEW i \in DOMAIN queue[t]
        PROVE  queue[t][i] # dispatch
    <3>1. CASE t = Listener
      <4>1. DOMAIN queue[t] = {}
        BY <3>1 DEF OwnerInv, QueueInv
      <4> QED
        BY <4>1
    <3>2. CASE t \in Workers
      <4>1. dispatch \notin Elems(queue[t])
        BY <1>1, <3>2 DEF OwnerInv, QueueInv
      <4> QED
        BY <4>1 DEF Elems
    <3> QED
      BY <3>1, <3>2, Threads
  <2>4. NotOpen(dispatch)
    BY <2>2, <2>3 DEF NotOpen
  <2> QED
    BY <1>1, <1>2, <2>1, <2>4 DEF STNext
<1>3. CASE AddPush(to)
  BY <1>1, <1>3 DEF STNext
<1>4. CASE UNCHANGED stVars
  BY <1>4
<1> QED
  BY <1>2, <1>3, <1>4 DEF Dispatch

\* The other callbacks and the main thread call only what STNext has.
LEMMA StepIsThreads ==
    STTypeInv /\ ServerTypes /\ StartInv /\ OwnerInv /\ [Next]_vars => [STNext]_stVars
<1> SUFFICES ASSUME STTypeInv, ServerTypes, StartInv, OwnerInv, [Next]_vars
             PROVE  [STNext]_stVars
  OBVIOUS
<1>1. CASE StartThread
  BY <1>1 DEF StartThread, STNext, ServerTypes, MainTypes
<1>2. CASE Shutdown \/ StopWorker
  <2>1. \E t \in Thread : StopMark(t)
    BY <1>2, Threads DEF Shutdown, StopWorker
  <2> QED
    BY <2>1 DEF STNext
<1>3. CASE InStop
  BY <1>3 DEF InStop, STNext, ServerTypes, MainTypes
<1>4. ASSUME NEW f \in Fd, Accept(f)
      PROVE  [STNext]_stVars
  BY <1>4, Threads DEF Accept, STNext
<1>5. CASE Dispatch
  BY <1>5, DispatchIsThreads
<1>6. CASE AcceptReturns \/ ListenerExit
  BY <1>6, Threads DEF AcceptReturns, ListenerExit, STNext, LoopStep
<1>7. ASSUME NEW w \in Workers, ProcessEvent(w) \/ FlowReply(w) \/ WorkerExit(w)
      PROVE  [STNext]_stVars
  <2>1. DrainNext(w) \/ CallbackEnd(w) \/ ExitRead(w)
    BY <1>7 DEF ProcessEvent, FlowReply, WorkerExit
  <2> QED
    BY <2>1, Threads DEF STNext, LoopStep
<1>8. ASSUME NEW w \in Workers, NEW f \in Fd, FlowData(w, f)
      PROVE  [STNext]_stVars
  BY <1>8, Threads DEF FlowData, STNext
<1>9. ASSUME NEW t \in Thread, ThreadOnly(t)
      PROVE  [STNext]_stVars
  BY <1>9 DEF ThreadOnly, STNext, LoopStep
<1>10. CASE UNCHANGED stVars
  BY <1>10
<1> QED
  BY <1>1, <1>2, <1>3, <1>4, <1>5, <1>6, <1>7, <1>8, <1>9, <1>10
  DEF Next, MainThread, ClearWorkers, DeleteServer, Exit, Environment, Clients, Connect, HangUp,
      Signal, BindFails, ListenerCallback, AcceptLeak, FlowEnd, vars

\* StartInv survives every step.
LEMMA StartStep ==
    ASSUME STTypeInv, ServerTypes, StartInv, [Next]_vars
    PROVE  StartInv'
<1>1. mainIdx \in Int /\ mainIdx <= Listener /\ \A t \in Thread : t \in Int /\ t <= Listener
  BY Threads DEF ServerTypes, MainTypes
<1>2. CASE StartThread
  <2>1. /\ mainPc = "start" /\ mainIdx \in Thread
        /\ phase' = [phase EXCEPT ![mainIdx] = "spawned"]
        /\ \/ mainIdx = Listener /\ mainPc' = "serve"
           \/ mainIdx # Listener /\ mainIdx' = mainIdx + 1 /\ mainPc' = "start"
    BY <1>2 DEF StartThread, Start, Phase, ServerTypes, MainTypes
  <2>2. \A t \in Thread : phase'[t] = "new" <=> phase[t] = "new" /\ t # mainIdx
    BY <2>1 DEF STTypeInv, StateTypes
  <2>3. CASE mainIdx = Listener /\ mainPc' = "serve"
    BY <1>1, <2>1, <2>2, <2>3 DEF StartInv
  <2>4. CASE mainIdx # Listener /\ mainIdx' = mainIdx + 1 /\ mainPc' = "start"
    BY <1>1, <2>1, <2>2, <2>4 DEF StartInv
  <2> QED
    BY <2>1, <2>3, <2>4
<1>3. ASSUME mainPc' = "start" <=> mainPc = "start", mainPc = "start" => UNCHANGED mainIdx,
             \A t \in Thread : phase'[t] = "new" <=> phase[t] = "new"
      PROVE  StartInv'
  BY <1>3 DEF StartInv
<1>4. CASE BindFails
  <2>1. phase[Listener] = "spawned" /\ mainPc' = "aborted" /\ UNCHANGED phase
    BY <1>4 DEF BindFails, stVars
  <2>2. mainPc # "start"
    BY <1>1, <2>1, Threads DEF StartInv
  <2> QED
    BY <1>3, <2>1, <2>2
<1>5. ASSUME NEW t \in Thread, UNCHANGED <<mainPc, mainIdx>>,
             RunInit(t) \/ RunFail(t) \/ ExitRead(t) \/ Leave(t) \/ Notify(t)
      PROVE  StartInv'
  <2>1. \A u \in Thread : phase'[u] = "new" <=> phase[u] = "new"
    BY <1>5 DEF RunInit, RunFail, ExitRead, Leave, Notify, Phase, Loop, Looping, STTypeInv, StateTypes
  <2> QED
    BY <1>3, <1>5, <2>1
<1>6. CASE ListenerExit
  BY <1>5, <1>6, Threads DEF ListenerExit, mainVars
<1>7. ASSUME NEW w \in Workers, WorkerExit(w)
      PROVE  StartInv'
  BY <1>5, <1>7, Threads DEF WorkerExit, mainVars
<1>8. CASE Shutdown \/ StopWorker \/ ClearWorkers \/ DeleteServer \/ Exit
  BY <1>3, <1>8 DEF Shutdown, StopWorker, ClearWorkers, DeleteServer, Exit, StopMark, stVars
<1>9. CASE UNCHANGED <<mainPc, mainIdx, phase>>
  BY <1>3, <1>9
<1>10. CASE InStop \/ Dispatch \/ AcceptReturns
  BY <1>9, <1>10
  DEF InStop, Dispatch, AcceptReturns, StopStep, StopWrite, StopFail, StopCheck, StopBlock,
      StopSpurious, AddWrite, AddPush, CallbackEnd, stVars, srvVars, mainVars
<1>11. ASSUME NEW f \in Fd, Accept(f) \/ AcceptLeak(f) \/ Connect(f) \/ HangUp(f)
       PROVE  StartInv'
  BY <1>9, <1>11 DEF Accept, AcceptLeak, Connect, HangUp, CallbackBegin, stVars, mainVars
<1>12. ASSUME NEW w \in Workers, ProcessEvent(w) \/ FlowReply(w)
       PROVE  StartInv'
  BY <1>9, <1>12 DEF ProcessEvent, FlowReply, DrainNext, CallbackEnd, mainVars
<1>13. ASSUME NEW w \in Workers, NEW f \in Fd, FlowData(w, f) \/ FlowEnd(w, f)
       PROVE  StartInv'
  BY <1>9, <1>13 DEF FlowData, FlowEnd, CallbackBegin, stVars, mainVars
<1>14. ASSUME NEW t \in Thread, ThreadOnly(t)
       PROVE  StartInv'
  BY <1>5, <1>9, <1>14 DEF ThreadOnly, WakeRead, DrainLock, DrainDone, srvVars, mainVars
<1>15. CASE Signal
  BY <1>9, <1>15 DEF Signal, stVars
<1>16. CASE UNCHANGED vars
  BY <1>9, <1>16 DEF vars, stVars, srvVars, mainVars
<1> QED
  BY <1>2, <1>4, <1>6, <1>7, <1>8, <1>10, <1>11, <1>12, <1>13, <1>14, <1>15, <1>16
  DEF Next, MainThread, Environment, Clients, ListenerCallback

-----------------------------------------------------------------------------
(* The ownership is kept by every step.                                    *)

\* The front of a queue that is not empty.
LEMMA FrontOfQueue ==
    ASSUME STTypeInv, QueueInv, NEW w \in Workers, queue[w] # <<>>
    PROVE  /\ Head(queue[w]) \in Fd /\ conn[Head(queue[w])] = "queued" /\ home[Head(queue[w])] = w
           /\ Elems(Tail(queue[w])) = Elems(queue[w]) \ {Head(queue[w])}
           /\ NoDup(Tail(queue[w]))
<1>1. queue[w] \in Seq(Fd) /\ NoDup(queue[w])
  BY Threads DEF STTypeInv, SeqTypes, QueueInv
<1>2. /\ Elems(Tail(queue[w])) = Elems(queue[w]) \ {Head(queue[w])}
      /\ Head(queue[w]) \in Elems(queue[w]) /\ Head(queue[w]) \in Fd
      /\ NoDup(Tail(queue[w]))
  BY <1>1, ElemsTail
<1> QED
  BY <1>2 DEF QueueInv

\* What ProcessEvent does with it.
LEMMA ProcessedFd ==
    ASSUME STTypeInv, QueueInv, NEW w \in Workers, ProcessEvent(w)
    PROVE  LET fd == Head(queue[w])
           IN  /\ fd \in Fd /\ conn[fd] = "queued" /\ home[fd] = w
               /\ queue' = [queue EXCEPT ![w] = Tail(queue[w])]
               /\ Elems(Tail(queue[w])) = Elems(queue[w]) \ {fd} /\ NoDup(Tail(queue[w]))
               /\ \/ /\ m_processExiting[w] /\ UNCHANGED m_tcpSessions
                     /\ conn' = [conn EXCEPT ![fd] = "leaked"]
                  \/ /\ ~m_processExiting[w]
                     /\ conn' = [conn EXCEPT ![fd] = "open"]
                     /\ m_tcpSessions' = [m_tcpSessions EXCEPT ![w] = m_tcpSessions[w] \cup {fd}]
               /\ UNCHANGED <<dispatch, home, serving, peer>>
<1>1. queue[w] # <<>> /\ queue' = [queue EXCEPT ![w] = Tail(queue[w])]
  BY DEF ProcessEvent, DrainNext
<1> QED
  BY <1>1, FrontOfQueue DEF ProcessEvent, NewFlow, Conn

\* HomeInv survives every step.
LEMMA HomeStep ==
    ASSUME STTypeInv, ServerTypes, OwnerInv, [Next]_vars
    PROVE  HomeInv'
<1> USE Threads DEF OwnerInv, HomeInv, ServerTypes, NetTypes, ConnStates
<1>1. ASSUME NEW f \in Fd, Connect(f) \/ AcceptLeak(f)
      PROVE  HomeInv'
  BY <1>1 DEF Connect, AcceptLeak, Conn
<1>2. ASSUME NEW f \in Fd, Accept(f)
      PROVE  HomeInv'
  <2>1. m_index' \in Workers
    BY <1>2, NextWorker DEF Accept, MainTypes
  <2> QED
    BY <1>2, <2>1 DEF Accept, Conn
<1>3. CASE Dispatch
  BY <1>3 DEF Dispatch, CloseFailed, Conn
<1>4. CASE ListenerExit
  BY <1>4 DEF ListenerExit
<1>5. ASSUME NEW w \in Workers, ProcessEvent(w)
      PROVE  HomeInv'
  BY <1>5, ProcessedFd
<1>6. ASSUME NEW w \in Workers, WorkerExit(w)
      PROVE  HomeInv'
  BY <1>6 DEF WorkerExit
<1>7. ASSUME NEW w \in Workers, NEW f \in Fd, FlowData(w, f) \/ FlowEnd(w, f)
      PROVE  HomeInv'
  BY <1>7 DEF FlowData, FlowEnd, SessionInv
<1>8. CASE UNCHANGED <<conn, home>>
  BY <1>8
<1> QED
  BY <1>1, <1>2, <1>3, <1>4, <1>5, <1>6, <1>7, <1>8
  DEF Next, MainThread, StartThread, Shutdown, StopWorker, ClearWorkers, DeleteServer, Exit,
      InStop, Environment, Clients, HangUp, Signal, BindFails, ListenerCallback, AcceptReturns,
      FlowReply, ThreadOnly, vars, srvVars, netVars

\* SessionInv survives every step.
LEMMA SessionStep ==
    ASSUME STTypeInv, ServerTypes, OwnerInv, [Next]_vars
    PROVE  SessionInv'
<1> USE DEF OwnerInv, SessionInv, ServerTypes, NetTypes, FlowTypes, ConnStates
<1>1. ASSUME NEW f \in Fd, Connect(f) \/ AcceptLeak(f)
      PROVE  SessionInv'
  BY <1>1 DEF Connect, AcceptLeak, Conn, flowVars
<1>2. ASSUME NEW f \in Fd, Accept(f)
      PROVE  SessionInv'
  BY <1>2 DEF Accept, Conn, flowVars
<1>3. CASE Dispatch
  BY <1>3 DEF Dispatch, CloseFailed, Conn, flowVars
<1>4. CASE ListenerExit
  BY <1>4 DEF ListenerExit, flowVars
<1>5. ASSUME NEW w \in Workers, ProcessEvent(w)
      PROVE  SessionInv'
  BY <1>5, ProcessedFd
<1>6. ASSUME NEW w \in Workers, WorkerExit(w)
      PROVE  SessionInv'
  <2>1. UNCHANGED home /\ m_tcpSessions' = [m_tcpSessions EXCEPT ![w] = {}]
    BY <1>6 DEF WorkerExit
  <2>2. \A f \in Fd : conn'[f] = IF f \in m_tcpSessions[w]
                                 THEN IF conn[f] = "active" THEN "closed" ELSE "leaked"
                                 ELSE conn[f]
    BY <1>6 DEF WorkerExit
  <2> QED
    BY <2>1, <2>2
<1>7. ASSUME NEW w \in Workers, NEW f \in Fd, FlowData(w, f) \/ FlowEnd(w, f)
      PROVE  SessionInv'
  BY <1>7 DEF FlowData, FlowEnd, deleteTcpFlow
<1>8. CASE UNCHANGED <<conn, home, m_tcpSessions>>
  BY <1>8
<1> QED
  BY <1>1, <1>2, <1>3, <1>4, <1>5, <1>6, <1>7, <1>8
  DEF Next, MainThread, StartThread, Shutdown, StopWorker, ClearWorkers, DeleteServer, Exit,
      InStop, Environment, Clients, HangUp, Signal, BindFails, ListenerCallback, AcceptReturns,
      FlowReply, ThreadOnly, vars, srvVars, netVars, flowVars

\* QueueInv survives every step: a descriptor is queued once, by the one call
\* for it, and leaves the queue when it is processed.
LEMMA QueueStep ==
    ASSUME STTypeInv, ServerTypes, OwnerInv, [Next]_vars
    PROVE  QueueInv'
<1> USE DEF OwnerInv, ServerTypes, NetTypes, ConnStates
<1>1. ASSUME UNCHANGED queue,
             \A f \in Fd : \A w \in Workers :
                 conn'[f] = "queued" /\ home'[f] = w <=> conn[f] = "queued" /\ home[f] = w
      PROVE  QueueInv'
  BY <1>1 DEF QueueInv
<1>2. ASSUME NEW f \in Fd, Connect(f) \/ AcceptLeak(f)
      PROVE  QueueInv'
  BY <1>1, <1>2 DEF Connect, AcceptLeak, Conn, stVars
<1>3. ASSUME NEW f \in Fd, Accept(f)
      PROVE  QueueInv'
  BY <1>1, <1>3 DEF Accept, CallbackBegin, Conn
<1>4. CASE Dispatch
  <2> DEFINE to == home[dispatch]
  <2>1. dispatch \in Fd /\ conn[dispatch] = "accepted" /\ to \in Workers /\ UNCHANGED home
    BY <1>4 DEF Dispatch, CallInv, HomeInv
  <2>2. CASE AddWrite(to, dispatch) /\ UNCHANGED conn
    BY <1>1, <2>1, <2>2 DEF AddWrite
  <2>3. CASE AddFails(to) /\ CloseFailed /\ UNCHANGED stVars
    BY <1>1, <2>1, <2>3 DEF CloseFailed, Conn, stVars
  <2>4. CASE AddPush(to) /\ Conn(dispatch, "accepted", "queued")
    <3>1. adding[to] = dispatch /\ conn' = [conn EXCEPT ![dispatch] = "queued"]
      BY <2>1, <2>4, Threads DEF AddPush, Conn, CallInv
    <3>2. queue[to] \in Seq(Fd) /\ queue' = [queue EXCEPT ![to] = Append(queue[to], dispatch)]
      BY <2>1, <2>4, <3>1, Threads DEF AddPush, STTypeInv, SeqTypes
    <3>3. \A w \in Workers : dispatch \notin Elems(queue[w])
      BY <2>1 DEF QueueInv
    <3>4. /\ Elems(Append(queue[to], dispatch)) = Elems(queue[to]) \cup {dispatch}
          /\ NoDup(Append(queue[to], dispatch))
      BY <2>1, <3>2, <3>3, ElemsAppend DEF QueueInv
    <3>5. queue \in [Thread -> Seq(Fd)]
      BY DEF STTypeInv, SeqTypes
    <3>6. queue'[Listener] = <<>>
      BY <2>1, <3>2, <3>5, Threads DEF QueueInv
    <3>7. ASSUME NEW w \in Workers
          PROVE  NoDup(queue'[w]) /\ \A f \in Fd : f \in Elems(queue'[w]) <=> conn'[f] = "queued" /\ home'[f] = w
      <4>1. queue'[w] = IF w = to THEN Append(queue[to], dispatch) ELSE queue[w]
        BY <3>2, <3>5, Threads
      <4>2. \A f \in Fd : conn'[f] = IF f = dispatch THEN "queued" ELSE conn[f]
        BY <3>1
      <4>3. NoDup(queue[w]) /\ \A f \in Fd : f \in Elems(queue[w]) <=> conn[f] = "queued" /\ home[f] = w
        BY DEF QueueInv
      <4>4. CASE w = to
        BY <2>1, <3>4, <4>1, <4>2, <4>3, <4>4
      <4>5. CASE w # to
        BY <2>1, <4>1, <4>2, <4>3, <4>5
      <4> QED
        BY <4>4, <4>5
    <3> QED
      BY <3>6, <3>7 DEF QueueInv
  <2> QED
    BY <1>4, <2>2, <2>3, <2>4 DEF Dispatch
<1>5. CASE ListenerExit
  BY <1>1, <1>5 DEF ListenerExit, ExitRead
<1>6. ASSUME NEW w \in Workers, ProcessEvent(w)
      PROVE  QueueInv'
  <2> DEFINE fd == Head(queue[w])
  <2>1. /\ fd \in Fd /\ conn[fd] = "queued" /\ home[fd] = w
        /\ queue' = [queue EXCEPT ![w] = Tail(queue[w])]
        /\ Elems(Tail(queue[w])) = Elems(queue[w]) \ {fd} /\ NoDup(Tail(queue[w]))
        /\ \E s \in {"leaked", "open"} : conn' = [conn EXCEPT ![fd] = s]
        /\ UNCHANGED home
    BY <1>6, ProcessedFd
  <2>2. queue \in [Thread -> Seq(Fd)]
    BY DEF STTypeInv, SeqTypes
  <2>3. queue'[Listener] = <<>>
    BY <2>1, <2>2, Threads DEF QueueInv
  <2>4. ASSUME NEW v \in Workers
        PROVE  NoDup(queue'[v]) /\ \A f \in Fd : f \in Elems(queue'[v]) <=> conn'[f] = "queued" /\ home'[f] = v
    <3>1. queue'[v] = IF v = w THEN Tail(queue[w]) ELSE queue[v]
      BY <2>1, <2>2, Threads
    <3>2. \A f \in Fd : (conn'[f] = "queued" <=> conn[f] = "queued" /\ f # fd) /\ home'[f] = home[f]
      BY <2>1
    <3>3. NoDup(queue[v]) /\ \A f \in Fd : f \in Elems(queue[v]) <=> conn[f] = "queued" /\ home[f] = v
      BY DEF QueueInv
    <3>4. CASE v = w
      BY <2>1, <3>1, <3>2, <3>3, <3>4
    <3>5. CASE v # w
      BY <2>1, <3>1, <3>2, <3>3, <3>5
    <3> QED
      BY <3>4, <3>5
  <2> QED
    BY <2>3, <2>4 DEF QueueInv
<1>7. ASSUME NEW w \in Workers, WorkerExit(w)
      PROVE  QueueInv'
  <2>1. UNCHANGED <<queue, home>>
    BY <1>7 DEF WorkerExit, ExitRead
  <2>2. \A f \in Fd : conn'[f] = "queued" <=> conn[f] = "queued"
    BY <1>7 DEF WorkerExit, SessionInv
  <2> QED
    BY <1>1, <2>1, <2>2
<1>8. ASSUME NEW w \in Workers, NEW f \in Fd, FlowData(w, f) \/ FlowEnd(w, f)
      PROVE  QueueInv'
  <2>1. UNCHANGED <<queue, home>>
    BY <1>8 DEF FlowData, FlowEnd, CallbackBegin, stVars
  <2>2. conn[f] # "queued" /\ \E s \in {"active", "closed"} : conn' = [conn EXCEPT ![f] = s]
    BY <1>8 DEF FlowData, FlowEnd, SessionInv
  <2> QED
    BY <1>1, <2>1, <2>2
<1>9. CASE UNCHANGED <<conn, home, queue>>
  BY <1>1, <1>9
<1> QED
  BY <1>2, <1>3, <1>4, <1>5, <1>6, <1>7, <1>8, <1>9
  DEF Next, MainThread, StartThread, Shutdown, StopWorker, ClearWorkers, DeleteServer, Exit,
      InStop, Environment, Clients, HangUp, Signal, BindFails, ListenerCallback, AcceptReturns,
      FlowReply, ThreadOnly, vars, srvVars, netVars, Start, StopMark, StopStep, StopWrite, StopFail,
      StopCheck, StopBlock, StopSpurious, CallbackEnd, RunInit, RunFail, WakeRead, DrainLock,
      DrainDone, Leave, Notify, stVars

\* A thread that runs, reads a 'c', takes or leaves the lock: the lock is the
\* loop's while it drains, so none of it disturbs a call of addFdToEvLoop.
LEMMA ThreadKeepsCall ==
    ASSUME STTypeInv, CallInv, NEW t \in Thread, ThreadOnly(t)
    PROVE  CallInv'
<1>1. UNCHANGED <<conn, dispatch, home>>
  BY DEF ThreadOnly, srvVars, netVars
<1>2. CASE RunInit(t) \/ RunFail(t) \/ Leave(t) \/ Notify(t)
  <2>1. UNCHANGED <<lock, adding, evPc>> /\ phase[t] # "loop"
        /\ \E p : phase' = [phase EXCEPT ![t] = p]
    BY <1>2 DEF RunInit, RunFail, Leave, Notify, Phase
  <2>2. phase[Listener] = "loop" => phase'[Listener] = "loop"
    BY <2>1, Threads DEF STTypeInv, StateTypes
  <2> QED
    BY <1>1, <2>1, <2>2 DEF CallInv
<1>3. CASE WakeRead(t)
  BY <1>1, <1>3, Threads DEF WakeRead, Loop, CallInv, STTypeInv, StateTypes
<1>4. CASE DrainLock(t)
  BY <1>1, <1>4, Threads DEF DrainLock, Loop, CallInv, STTypeInv, StateTypes
<1>5. CASE DrainDone(t)
  BY <1>1, <1>5, Threads DEF DrainDone, Loop, CallInv, STTypeInv, StateTypes
<1> QED
  BY <1>2, <1>3, <1>4, <1>5 DEF ThreadOnly

\* The call itself: it locks, pushes what it was given, and returns.
LEMMA DispatchKeepsCall ==
    ASSUME STTypeInv, ServerTypes, CallInv, HomeInv, Dispatch
    PROVE  CallInv'
<1> DEFINE to == home[dispatch]
<1>1. /\ dispatch \in Fd /\ to \in Thread /\ UNCHANGED <<home, evPc, phase>>
      /\ evPc[Listener] = "busy" /\ phase[Listener] = "loop"
  BY Threads DEF Dispatch, AddWrite, AddPush, stVars, ServerTypes, NetTypes, CallInv, HomeInv
<1>2. /\ conn \in [Fd -> ConnStates]
      /\ lock \in [Thread -> {"free", "loop", "add"}]
      /\ adding \in [Thread -> Fd \cup {NoFd}]
  BY DEF ServerTypes, NetTypes, STTypeInv, SeqTypes, StateTypes
<1>3. CASE AddWrite(to, dispatch) /\ UNCHANGED <<conn, dispatch>>
  <2>1. /\ lock' = [lock EXCEPT ![to] = "add"] /\ adding' = [adding EXCEPT ![to] = dispatch]
        /\ lock[to] = "free" /\ UNCHANGED <<conn, dispatch>>
    BY <1>3 DEF AddWrite
  <2>2. ASSUME NEW t \in Thread
        PROVE  /\ lock'[t] = "add" => adding'[t] = dispatch /\ home[dispatch] = t
               /\ lock'[t] # "add" => adding'[t] = NoFd
               /\ evPc[t] = "drain" => lock'[t] = "loop"
    <3>1. CASE t = to
      BY <1>1, <1>2, <2>1, <3>1 DEF CallInv
    <3>2. CASE t # to
      BY <1>1, <1>2, <2>1, <3>2 DEF CallInv
    <3> QED
      BY <3>1, <3>2
  <2>3. dispatch # NoFd
    BY <1>1, Threads
  <2> QED
    BY <1>1, <2>1, <2>2, <2>3 DEF CallInv
<1>4. CASE AddPush(to) /\ Conn(dispatch, "accepted", "queued") /\ dispatch' = NoFd
  <2>1. /\ lock' = [lock EXCEPT ![to] = "free"] /\ adding' = [adding EXCEPT ![to] = NoFd]
        /\ conn' = [conn EXCEPT ![dispatch] = "queued"] /\ conn[dispatch] = "accepted"
        /\ lock[to] = "add"
    BY <1>4 DEF AddPush, Conn
  <2>2. \A f \in Fd : conn'[f] # "accepted" /\ dispatch' # f
    BY <1>1, <1>2, <1>4, <2>1, Threads DEF CallInv
  <2>3. ASSUME NEW t \in Thread
        PROVE  /\ lock'[t] # "add" /\ adding'[t] = NoFd
               /\ evPc[t] = "drain" => lock'[t] = "loop"
    BY <1>1, <1>2, <2>1 DEF CallInv
  <2> QED
    BY <1>1, <1>4, <2>2, <2>3 DEF CallInv
<1>5. CASE AddFails(to) /\ CloseFailed /\ dispatch' = NoFd /\ UNCHANGED stVars
  BY <1>1, <1>2, <1>5, Threads DEF AddFails, CloseFailed, Conn, stVars, CallInv
<1> QED
  BY <1>3, <1>4, <1>5 DEF Dispatch

\* CallInv survives every step.
LEMMA CallStep ==
    ASSUME STTypeInv, ServerTypes, OwnerInv, [Next]_vars
    PROVE  CallInv'
<1> USE DEF OwnerInv
<1> DEFINE Same == \A f \in Fd : conn'[f] = "accepted" <=> conn[f] = "accepted"
<1>1. ASSUME UNCHANGED <<lock, adding, evPc, dispatch, home>>, Same,
             phase[Listener] = "loop" /\ evPc[Listener] = "busy" => phase'[Listener] = "loop"
      PROVE  CallInv'
  BY <1>1 DEF CallInv
<1>2. CASE StartThread
  <2>1. phase[Listener] = "loop" => phase'[Listener] = "loop"
    BY <1>2, Threads DEF StartThread, Start, Phase, STTypeInv, StateTypes
  <2> QED
    BY <1>1, <1>2, <2>1 DEF StartThread, Start, netVars
<1>3. CASE Shutdown \/ StopWorker \/ InStop
  <2>1. UNCHANGED <<phase, lock, adding, evPc, dispatch, home, conn>>
    BY <1>3
    DEF Shutdown, StopWorker, InStop, StopMark, StopStep, StopWrite, StopFail, StopCheck,
        StopBlock, StopSpurious, srvVars, netVars
  <2> QED
    BY <1>1, <2>1
<1>4. CASE Signal \/ ClearWorkers \/ DeleteServer \/ Exit \/ BindFails
  BY <1>1, <1>4 DEF Signal, ClearWorkers, DeleteServer, Exit, BindFails, stVars, netVars
<1>5. ASSUME NEW f \in Fd, Connect(f) \/ HangUp(f) \/ AcceptLeak(f)
      PROVE  CallInv'
  <2>1. UNCHANGED <<stVars, dispatch, home>> /\ Same
    BY <1>5 DEF Connect, HangUp, AcceptLeak, Conn, ServerTypes, NetTypes
  <2> QED
    BY <1>1, <2>1 DEF stVars
<1>6. ASSUME NEW f \in Fd, Accept(f)
      PROVE  CallInv'
  <2>1. /\ evPc[Listener] = "poll" /\ phase[Listener] = "loop" /\ UNCHANGED <<phase, lock, adding>>
        /\ evPc' = [evPc EXCEPT ![Listener] = "busy"]
        /\ dispatch' = f /\ conn' = [conn EXCEPT ![f] = "accepted"]
    BY <1>6 DEF Accept, CallbackBegin, Loop, Conn, listening
  <2>2. dispatch = NoFd
    BY <2>1 DEF CallInv
  <2>3. \A t \in Thread : lock[t] # "add" /\ adding[t] = NoFd
    BY <2>2 DEF CallInv
  <2>4. \A g \in Fd : conn'[g] = "accepted" <=> g = f
    BY <2>1, <2>2, Threads DEF CallInv, ServerTypes, NetTypes
  <2>5. evPc' \in [Thread -> {"poll", "lock", "drain", "busy"}] /\ evPc'[Listener] = "busy"
        /\ \A t \in Thread : evPc'[t] = "drain" => evPc[t] = "drain"
    BY <2>1, Threads DEF STTypeInv, StateTypes
  <2> QED
    BY <2>1, <2>3, <2>4, <2>5 DEF CallInv
<1>7. CASE Dispatch
  BY <1>7, DispatchKeepsCall
<1>8. CASE AcceptReturns
  BY <1>8, Threads DEF AcceptReturns, CallbackEnd, Loop, srvVars, netVars, CallInv, STTypeInv, StateTypes
<1>9. CASE ListenerExit
  <2>1. UNCHANGED <<lock, adding, evPc, dispatch, home>> /\ evPc[Listener] = "poll" /\ Same
    BY <1>9, Threads DEF ListenerExit, ExitRead, Loop, STTypeInv, StateTypes
  <2> QED
    BY <1>1, <2>1
<1>10. ASSUME NEW w \in Workers, ProcessEvent(w)
       PROVE  CallInv'
  <2>1. Same /\ UNCHANGED <<dispatch, home>>
    BY <1>10, ProcessedFd DEF ServerTypes, NetTypes
  <2>2. UNCHANGED <<lock, adding, evPc, phase>>
    BY <1>10, Threads DEF ProcessEvent, DrainNext, Loop, STTypeInv, StateTypes
  <2> QED
    BY <1>1, <2>1, <2>2
<1>11. ASSUME NEW w \in Workers, WorkerExit(w)
       PROVE  CallInv'
  <2>1. Same /\ UNCHANGED <<dispatch, home>>
    BY <1>11 DEF WorkerExit, SessionInv
  <2>2. UNCHANGED <<lock, adding, evPc>> /\ phase'[Listener] = phase[Listener]
    BY <1>11, Threads DEF WorkerExit, ExitRead, Loop, STTypeInv, StateTypes
  <2> QED
    BY <1>1, <2>1, <2>2
<1>12. ASSUME NEW w \in Workers, NEW f \in Fd, FlowEnd(w, f)
       PROVE  CallInv'
  <2>1. Same /\ UNCHANGED <<dispatch, home, stVars>>
    BY <1>12 DEF FlowEnd, SessionInv, ServerTypes, NetTypes
  <2> QED
    BY <1>1, <2>1 DEF stVars
<1>13. ASSUME NEW w \in Workers, NEW c \in {"poll", "busy"},
              evPc' = [evPc EXCEPT ![w] = c], UNCHANGED <<lock, adding, phase, dispatch, home>>, Same
       PROVE  CallInv'
  <2>1. /\ evPc'[Listener] = evPc[Listener]
        /\ \A t \in Thread : evPc'[t] = "drain" => evPc[t] = "drain"
    BY <1>13, Threads DEF STTypeInv, StateTypes
  <2> QED
    BY <1>13, <2>1 DEF CallInv
<1>14. ASSUME NEW w \in Workers, NEW f \in Fd, FlowData(w, f)
       PROVE  CallInv'
  <2>1. Same
    BY <1>14 DEF FlowData, SessionInv, ServerTypes, NetTypes
  <2> QED
    BY <1>13, <1>14, <2>1 DEF FlowData, CallbackBegin, Loop
<1>15. ASSUME NEW w \in Workers, FlowReply(w)
       PROVE  CallInv'
  BY <1>13, <1>15 DEF FlowReply, CallbackEnd, Loop
<1>16. ASSUME NEW t \in Thread, ThreadOnly(t)
       PROVE  CallInv'
  BY <1>16, ThreadKeepsCall
<1>17. CASE UNCHANGED vars
  BY <1>1, <1>17 DEF vars, stVars, srvVars, netVars
<1> QED
  BY <1>2, <1>3, <1>4, <1>5, <1>6, <1>7, <1>8, <1>9, <1>10, <1>11, <1>12, <1>14, <1>15, <1>16, <1>17
  DEF Next, MainThread, Environment, Clients, ListenerCallback

\* ServingInv survives every step: a worker serves from within a callback.
LEMMA ServingStep ==
    ASSUME STTypeInv, ServerTypes, ServingInv, [Next]_vars
    PROVE  ServingInv'
<1> USE Threads DEF ServingInv, STTypeInv, StateTypes, ServerTypes, FlowTypes
<1>1. ASSUME NEW t \in Thread, evPc[t] # "busy" \/ t = Listener, NEW c,
             evPc' = [evPc EXCEPT ![t] = c], UNCHANGED serving
      PROVE  ServingInv'
  <2>1. \A w \in Workers : serving[w] # NoFd => w # t
    BY <1>1
  <2>2. \A w \in Workers : w # t => evPc'[w] = evPc[w]
    BY <1>1
  <2> QED
    BY <1>1, <2>1, <2>2
<1>2. CASE UNCHANGED <<evPc, serving>>
  BY <1>2
<1>3. CASE StartThread \/ Shutdown \/ StopWorker \/ InStop
  BY <1>2, <1>3
  DEF StartThread, Start, Shutdown, StopWorker, InStop, StopMark, StopStep, StopWrite, StopFail,
      StopCheck, StopBlock, StopSpurious, srvVars, flowVars
<1>4. CASE Signal \/ ClearWorkers \/ DeleteServer \/ Exit \/ BindFails
  BY <1>2, <1>4 DEF Signal, ClearWorkers, DeleteServer, Exit, BindFails, stVars, flowVars
<1>5. ASSUME NEW f \in Fd, Connect(f) \/ HangUp(f) \/ AcceptLeak(f)
      PROVE  ServingInv'
  BY <1>2, <1>5 DEF Connect, HangUp, AcceptLeak, stVars, flowVars
<1>6. ASSUME NEW f \in Fd, Accept(f)
      PROVE  ServingInv'
  BY <1>1, <1>6 DEF Accept, CallbackBegin, Loop, flowVars
<1>7. CASE Dispatch
  BY <1>2, <1>7 DEF Dispatch, AddWrite, AddPush, stVars, flowVars
<1>8. CASE AcceptReturns
  BY <1>1, <1>8 DEF AcceptReturns, CallbackEnd, Loop, srvVars, flowVars
<1>9. CASE ListenerExit
  BY <1>1, <1>9 DEF ListenerExit, ExitRead, Loop, flowVars
<1>10. ASSUME NEW w \in Workers, ProcessEvent(w) \/ WorkerExit(w)
       PROVE  ServingInv'
  <2>1. evPc[w] # "busy" /\ UNCHANGED serving /\ \E c : evPc' = [evPc EXCEPT ![w] = c]
    BY <1>10 DEF ProcessEvent, WorkerExit, DrainNext, ExitRead, Loop
  <2> QED
    BY <1>1, <2>1
<1>11. ASSUME NEW w \in Workers, NEW f \in Fd, FlowData(w, f)
       PROVE  ServingInv'
  BY <1>11 DEF FlowData, CallbackBegin, Loop
<1>12. ASSUME NEW w \in Workers, NEW f \in Fd, FlowEnd(w, f)
       PROVE  ServingInv'
  BY <1>2, <1>12 DEF FlowEnd, stVars
<1>13. ASSUME NEW w \in Workers, FlowReply(w)
       PROVE  ServingInv'
  BY <1>13 DEF FlowReply, CallbackEnd, Loop
<1>14. ASSUME NEW t \in Thread, ThreadOnly(t)
       PROVE  ServingInv'
  <2>1. UNCHANGED serving
    BY <1>14 DEF ThreadOnly, srvVars, flowVars
  <2>2. CASE RunInit(t) \/ RunFail(t) \/ Leave(t) \/ Notify(t)
    BY <1>2, <2>1, <2>2 DEF RunInit, RunFail, Leave, Notify
  <2>3. CASE WakeRead(t) \/ DrainLock(t) \/ DrainDone(t)
    <3>1. evPc[t] # "busy" /\ \E c : evPc' = [evPc EXCEPT ![t] = c]
      BY <2>3 DEF WakeRead, DrainLock, DrainDone, Loop
    <3> QED
      BY <1>1, <2>1, <3>1
  <2> QED
    BY <1>14, <2>2, <2>3 DEF ThreadOnly
<1>15. CASE UNCHANGED vars
  BY <1>2, <1>15 DEF vars, stVars, srvVars, flowVars
<1> QED
  BY <1>3, <1>4, <1>5, <1>6, <1>7, <1>8, <1>9, <1>10, <1>11, <1>12, <1>13, <1>14, <1>15
  DEF Next, MainThread, Environment, Clients, ListenerCallback

-----------------------------------------------------------------------------
(* What holds whatever fails.                                              *)

ServerInv == STTypeInv /\ ServerTypes /\ StartInv /\ OwnerInv /\ ServingInv

\* ServerInv survives every step; that of the service threads it makes keeps
\* the types of their variables.
LEMMA ServerStep == ServerInv /\ [Next]_vars => ServerInv' /\ [STNext]_stVars
<1> SUFFICES ASSUME ServerInv, [Next]_vars
             PROVE  ServerInv' /\ [STNext]_stVars
  OBVIOUS
<1>1. STTypeInv /\ ServerTypes /\ StartInv /\ OwnerInv /\ ServingInv
  BY DEF ServerInv
<1>2. [STNext]_stVars
  BY <1>1, StepIsThreads
<1>3. STTypeInv'
  BY <1>1, <1>2, SeqStep, StateStep, FlagStep DEF STTypeInv
<1>4. ServerTypes'
  BY <1>1, MainTypesStep, NetTypesStep, FlowTypesStep DEF ServerTypes, STTypeInv
<1>5. StartInv' /\ ServingInv'
  BY <1>1, StartStep, ServingStep
<1>6. OwnerInv'
  BY <1>1, CallStep, HomeStep, QueueStep, SessionStep DEF OwnerInv
<1> QED
  BY <1>2, <1>3, <1>4, <1>5, <1>6 DEF ServerInv

\* The invariant, for the proofs below.
LEMMA ServerAlways == Spec => []ServerInv /\ [][STNext]_stVars
<1>1. Init => ServerInv
  BY STTypeInit, ServerTypesInit, OwnerInit DEF Init, ServerInv
<1> QED
  BY <1>1, ServerStep, PTL DEF Spec

\* The server uses its threads as ServiceThread allows: whatever is shown of
\* STSpec holds of the server's workers and listener.
THEOREM ServerUsesThreads == Spec => IsServiceThreads
<1>1. Init => STInit
  BY DEF Init
<1> QED
  BY <1>1, ServerAlways, PTL DEF Spec, STSpec, IsServiceThreads

\* Every variable of the server keeps its type, whatever fails.
THEOREM ServerTypeCorrect == Spec => []TypeOK
<1>1. STTypeInv /\ ServerTypes => TypeOK
  BY DEF STTypeInv, SeqTypes, StateTypes, FlagTypes, STTypeOK, ServerTypes, MainTypes, NetTypes,
         FlowTypes, TypeOK
<1>2. ServerInv => TypeOK
  BY <1>1 DEF ServerInv
<1> QED
  BY <1>2, ServerAlways, PTL

\* A descriptor the server holds is in exactly one place, at the worker that
\* round robin chose, whatever fails and wherever a stop comes.
THEOREM OneOwnerCorrect == Spec => []OneOwner
<1>1. ASSUME ServerInv
      PROVE  OneOwner
  <2>1. \A w \in Workers : Queued(w) = Elems(queue[w])
    BY DEF Queued, Elems
  <2>2. \A w \in Workers : queue[w] \in Seq(Fd) /\ NoDup(queue[w])
    BY <1>1, Threads DEF ServerInv, STTypeInv, SeqTypes, OwnerInv, QueueInv
  <2>3. \A w \in Workers : Cardinality(Queued(w)) = Len(queue[w])
    BY <2>1, <2>2, NoDupCounts
  <2> QED
    BY <1>1, <2>1, <2>3 DEF ServerInv, OwnerInv, CallInv, QueueInv, SessionInv, OneOwner
<1> QED
  BY <1>1, ServerAlways, PTL

-----------------------------------------------------------------------------
(* Round robin.                                                            *)

GivenTo(w) == {f \in Fd : home[f] = w}

\* In the round under way the workers up to m_index have had their turn, the
\* first one's is the last.
BalanceInv ==
    /\ \A w \in Workers : IsFiniteSet(GivenTo(w))
    /\ \A w \in Workers : Given(w) = Given(0) + IF w \in 1 .. m_index THEN 1 ELSE 0

\* Initially no worker has a connection.
LEMMA BalanceInit == Init => BalanceInv
<1> SUFFICES ASSUME Init
             PROVE  BalanceInv
  OBVIOUS
<1>1. \A w \in Workers : GivenTo(w) = {}
  BY Threads DEF Init, GivenTo
<1>2. \A w \in Workers : Given(w) = 0 /\ w \notin 1 .. m_index
  BY <1>1, FS_EmptySet DEF Init, Given, GivenTo
<1>3. \A w \in Workers : IsFiniteSet(GivenTo(w))
  BY <1>1, FS_EmptySet
<1>4. Given(0) = 0
  BY <1>2, Threads
<1> QED
  BY <1>2, <1>3, <1>4 DEF BalanceInv

\* A connection that is accepted counts for the worker it is given to.
LEMMA AcceptCounts ==
    ASSUME ServerInv, BalanceInv, NEW f \in Fd, Accept(f), NEW w \in Workers
    PROVE  /\ IsFiniteSet(GivenTo(w)') /\ Given(w) \in Nat
           /\ Given(w)' = Given(w) + IF w = m_index' THEN 1 ELSE 0
<1>1. /\ home' = [home EXCEPT ![f] = m_index'] /\ home[f] = NoWorker /\ NoWorker \notin Workers
      /\ home \in [Fd -> Workers \cup {NoWorker}]
  BY Threads DEF Accept, Conn, ServerInv, OwnerInv, HomeInv, ServerTypes, NetTypes
<1>2. IsFiniteSet(GivenTo(w)) /\ f \notin GivenTo(w) /\ Given(w) = Cardinality(GivenTo(w))
  BY <1>1 DEF BalanceInv, GivenTo, Given
<1>3. Given(w) \in Nat
  BY <1>2, FS_CardinalityType
<1>4. CASE w = m_index'
  <2>1. GivenTo(w)' = GivenTo(w) \cup {f}
    BY <1>1, <1>4 DEF GivenTo
  <2>2. IsFiniteSet(GivenTo(w)') /\ Cardinality(GivenTo(w)') = Cardinality(GivenTo(w)) + 1
    BY <1>2, <2>1, FS_AddElement
  <2>3. Given(w)' = Cardinality(GivenTo(w)')
    BY DEF Given, GivenTo
  <2> QED
    BY <1>2, <1>3, <1>4, <2>2, <2>3
<1>5. CASE w # m_index'
  <2>1. GivenTo(w)' = GivenTo(w)
    BY <1>1, <1>5 DEF GivenTo
  <2>2. Given(w)' = Cardinality(GivenTo(w)')
    BY DEF Given, GivenTo
  <2> QED
    BY <1>2, <1>3, <1>5, <2>1, <2>2
<1> QED
  BY <1>4, <1>5

\* BalanceInv survives every step.
LEMMA BalanceStep == ServerInv /\ BalanceInv /\ [Next]_vars => BalanceInv'
<1> SUFFICES ASSUME ServerInv, BalanceInv, [Next]_vars
             PROVE  BalanceInv'
  OBVIOUS
<1>1. ASSUME NEW f \in Fd, Accept(f)
      PROVE  BalanceInv'
  <2>1. /\ m_index \in Workers /\ 0 \in Workers /\ m_index' \in Workers
        /\ m_index' = IF m_index + 1 = m_numWorker THEN 0 ELSE m_index + 1
    BY <1>1, Threads, NextWorker DEF Accept, ServerInv, ServerTypes, MainTypes
  <2>2. \A w \in Workers :
            /\ IsFiniteSet(GivenTo(w)') /\ Given(w) \in Nat
            /\ Given(w)' = Given(w) + IF w = m_index' THEN 1 ELSE 0
    BY <1>1, AcceptCounts
  <2>3. \A w \in Workers : Given(w) = Given(0) + IF w \in 1 .. m_index THEN 1 ELSE 0
    BY DEF BalanceInv
  <2>4. \A w \in Workers : w \in Nat /\ w < m_numWorker /\ m_numWorker \in Nat
    BY Threads
  <2>5. Given(0)' = Given(0) + IF 0 = m_index' THEN 1 ELSE 0
    BY <2>1, <2>2
  <2>6. ASSUME NEW w \in Workers
        PROVE  Given(w)' = Given(0)' + IF w \in 1 .. m_index' THEN 1 ELSE 0
    <3>1. /\ Given(w)' = Given(w) + IF w = m_index' THEN 1 ELSE 0
          /\ Given(w) = Given(0) + IF w \in 1 .. m_index THEN 1 ELSE 0
          /\ Given(0) \in Nat /\ Given(w) \in Nat
          /\ w \in Nat /\ w < m_numWorker /\ m_index \in Nat /\ m_numWorker \in Nat
      BY <2>1, <2>2, <2>3, <2>4
    <3>2. CASE m_index + 1 = m_numWorker
      BY <2>1, <2>5, <3>1, <3>2
    <3>3. CASE m_index + 1 # m_numWorker
      BY <2>1, <2>5, <3>1, <3>3
    <3> QED
      BY <3>2, <3>3
  <2> QED
    BY <2>2, <2>6 DEF BalanceInv
<1>2. CASE UNCHANGED <<home, m_index>>
  BY <1>2 DEF BalanceInv, GivenTo, Given
<1> QED
  BY <1>1, <1>2
  DEF Next, MainThread, StartThread, Shutdown, StopWorker, ClearWorkers, DeleteServer, Exit,
      InStop, Environment, Clients, Connect, HangUp, Signal, BindFails, ListenerCallback, Dispatch,
      AcceptReturns, ListenerExit, AcceptLeak, ProcessEvent, FlowReply, WorkerExit, FlowData, FlowEnd,
      ThreadOnly, vars, srvVars, netVars

\* The invariant, for the theorem and for the shutdown below.
LEMMA BalanceAlways == Spec => []BalanceInv
BY BalanceInit, BalanceStep, ServerAlways, PTL DEF Spec

\* No worker is given two connections more than another, however many workers
\* and connections there are.
THEOREM RoundRobinCorrect == Spec => []RoundRobinBalanced
<1>1. ASSUME ServerInv, BalanceInv
      PROVE  RoundRobinBalanced
  <2>1. \A w \in Workers : Given(w) = Given(0) + IF w \in 1 .. m_index THEN 1 ELSE 0
    BY <1>1 DEF BalanceInv
  <2>2. Given(0) \in Nat
    BY <1>1, Threads, FS_CardinalityType DEF BalanceInv, Given, GivenTo
  <2> QED
    BY <2>1, <2>2 DEF RoundRobinBalanced
<1> QED
  BY <1>1, ServerAlways, BalanceAlways, PTL

-----------------------------------------------------------------------------
(* Shutdown, when clients and signals wait until every thread has          *)
(* initialized (~StartupRace).                                             *)

\* No thread initializes twice, and one that failed stays so.
LEMMA PhaseForward ==
    ASSUME STTypeInv, [STNext]_stVars, NEW u \in Thread
    PROVE  /\ phase[u] \notin {"new", "spawned"} => phase'[u] \notin {"new", "spawned"}
           /\ phase[u] = "failed" => phase'[u] = "failed"
           /\ phase'[u] = "failed" => phase[u] = "failed" \/ "init" \in Faults
<1>1. phase \in [Thread -> Phases]
  BY DEF STTypeInv, StateTypes
<1>2. ASSUME NEW t \in Thread,
             Start(t) \/ RunInit(t) \/ RunFail(t) \/ ExitRead(t) \/ Leave(t) \/ Notify(t)
      PROVE  /\ phase[u] \notin {"new", "spawned"} => phase'[u] \notin {"new", "spawned"}
             /\ phase[u] = "failed" => phase'[u] = "failed"
             /\ phase'[u] = "failed" => phase[u] = "failed" \/ "init" \in Faults
  BY <1>1, <1>2 DEF Start, RunInit, RunFail, ExitRead, Leave, Notify, Phase, Loop, Looping
<1>3. CASE UNCHANGED phase
  BY <1>3
<1> QED
  BY <1>2, <1>3
  DEF STNext, LoopStep, StopStep, WakeRead, DrainLock, DrainNext, DrainDone, CallbackBegin,
      CallbackEnd, AddWrite, AddPush, StopMark, StopWrite, StopFail, StopCheck, StopBlock,
      StopSpurious, stVars

\* Nothing connects and nothing is signalled before.
ReadyInv == done \/ (\E f \in Fd : conn[f] # "none") => Initialized

\* ReadyInv survives every step.
LEMMA ReadyStep ==
    ASSUME ~StartupRace, ServerInv, ReadyInv, [Next]_vars, [STNext]_stVars
    PROVE  ReadyInv'
<1>1. CASE Initialized
  BY <1>1, PhaseForward DEF Initialized, ReadyInv, ServerInv
<1>2. CASE ~Initialized
  <2>1. ~done /\ \A f \in Fd : conn[f] = "none"
    BY <1>2 DEF ReadyInv
  <2>2. dispatch = NoFd /\ \A w \in Workers : m_tcpSessions[w] = {}
    <3>1. dispatch \in Fd \cup {NoFd} /\ \A w \in Workers : m_tcpSessions[w] \subseteq Fd
      BY DEF ServerInv, ServerTypes, NetTypes, FlowTypes
    <3> QED
      BY <2>1, <3>1 DEF ServerInv, OwnerInv, CallInv, SessionInv
  <2>3. ASSUME UNCHANGED done, \A f \in Fd : conn'[f] = conn[f]
        PROVE  ReadyInv'
    BY <2>1, <2>3 DEF ReadyInv
  <2>4. ~Signal /\ ~Dispatch
    BY <1>2, <2>2 DEF Signal, Dispatch
  <2>5. \A f \in Fd : ~Connect(f) /\ ~Accept(f) /\ ~AcceptLeak(f)
    BY <1>2, <2>1 DEF Connect, Accept, AcceptLeak, Conn
  <2>6. \A w \in Workers : ~ProcessEvent(w)
    BY <2>1, ProcessedFd DEF ServerInv, OwnerInv
  <2>7. \A w \in Workers : \A f \in Fd : ~FlowData(w, f) /\ ~FlowEnd(w, f)
    BY <2>2 DEF FlowData, FlowEnd
  <2>8. CASE ListenerExit
    BY <2>1, <2>3, <2>8 DEF ListenerExit, mainVars
  <2>9. ASSUME NEW w \in Workers, WorkerExit(w)
        PROVE  ReadyInv'
    BY <2>2, <2>3, <2>9 DEF WorkerExit, mainVars
  <2>10. CASE UNCHANGED <<done, conn>>
    BY <2>3, <2>10
  <2> QED
    BY <2>4, <2>5, <2>6, <2>7, <2>8, <2>9, <2>10
    DEF Next, MainThread, StartThread, Shutdown, StopWorker, ClearWorkers, DeleteServer, Exit,
        InStop, Environment, Clients, HangUp, BindFails, ListenerCallback, AcceptReturns,
        FlowReply, ThreadOnly, vars, srvVars, netVars, mainVars
<1> QED
  BY <1>1, <1>2

\* In which order shutdown and stopWorkers come to a thread.
Rank(t) == IF t = Listener THEN 0 ELSE t + 1

\* The threads before mainIdx were stopped, those after it were not; and no
\* worker is told to stop before stop() has returned for the listener.
OrderInv ==
    /\ mainPc \in {"start", "serve"} => \A t \in Thread : stop[t] = "none"
    /\ mainPc = "stop" => \A t \in Thread :
        /\ Rank(t) < Rank(mainIdx) => Stopped(t)
        /\ Rank(t) > Rank(mainIdx) => stop[t] = "none"
    /\ mainPc \in {"delete", "return", "exited"} => \A t \in Thread : Stopped(t)
    /\ \A w \in Workers : stop[w] # "none" => Stopped(Listener)
    /\ \A t \in Thread : stop[t] # "none" => done
    /\ \A t \in Thread : m_processExiting[t] => stop[t] # "none"

\* What a step of stop() does to where the calls of stop() are.
LEMMA StopMoves ==
    ASSUME STTypeInv, NEW t \in Thread, StopStep(t) \/ StopSpurious(t)
    PROVE  /\ stop[t] \notin {"none", "ok", "failed"} /\ stop'[t] # "none"
           /\ \A u \in Thread : u # t => stop'[u] = stop[u]
           /\ UNCHANGED <<phase, queue, m_processExiting>>
BY DEF StopStep, StopWrite, StopFail, StopCheck, StopBlock, StopSpurious, Stop, STTypeInv, StateTypes,
       StopStates

\* What a first step of stop() does.
LEMMA MarkMoves ==
    ASSUME STTypeInv, NEW t \in Thread, StopMark(t)
    PROVE  /\ stop[t] = "none" /\ stop'[t] = "write"
           /\ \A u \in Thread : u # t => stop'[u] = stop[u] /\ m_processExiting'[u] = m_processExiting[u]
           /\ UNCHANGED <<phase, queue, pipe>>
BY DEF StopMark, Stop, STTypeInv, StateTypes, FlagTypes

\* Notify ends no call of stop() and begins none.
LEMMA NotifyMoves ==
    ASSUME STTypeInv, NEW t \in Thread, Notify(t)
    PROVE  /\ \A u \in Thread : \/ stop'[u] = stop[u]
                                \/ stop[u] = "waiting" /\ stop'[u] = "check"
           /\ UNCHANGED <<queue, pipe, m_processExiting>>
           /\ phase[t] = "exited" /\ phase' = [phase EXCEPT ![t] = "gone"]
BY DEF Notify, Phase, STTypeInv, StateTypes

\* A thread runs, except for Notify, without touching a call of stop().
LEMMA ThreadOnlyStops ==
    ASSUME NEW t \in Thread, ThreadOnly(t), ~Notify(t)
    PROVE  UNCHANGED <<stop, m_processExiting>>
BY DEF ThreadOnly, RunInit, RunFail, WakeRead, DrainLock, DrainDone, Leave

\* OrderInv survives every step.
LEMMA OrderStep ==
    ASSUME ServerInv, OrderInv, [Next]_vars
    PROVE  OrderInv'
<1> USE DEF ServerInv, Stopped
<1>1. /\ \A t \in Thread : t \in Nat /\ t <= Listener /\ (t \in Workers <=> t < Listener)
      /\ Listener \in Nat /\ Listener \in Thread /\ Listener > 0
      /\ mainIdx \in Thread /\ mainIdx \in Nat /\ mainIdx <= Listener
  BY Threads DEF ServerTypes, MainTypes
<1>2. ASSUME UNCHANGED <<mainPc, mainIdx>>, done => done',
             \A t \in Thread : /\ stop'[t] = "none" <=> stop[t] = "none"
                               /\ Stopped(t) => stop'[t] = stop[t]
                               /\ m_processExiting'[t] => m_processExiting[t]
      PROVE  OrderInv'
  <2>1. \A t \in Thread : Stopped(t) => Stopped(t)'
    BY <1>2
  <2>2. \A w \in Workers : stop'[w] # "none" => Stopped(Listener)'
    <3>1. \A w \in Workers : stop'[w] # "none" => stop[w] # "none"
      BY <1>2, Threads
    <3>2. (\E w \in Workers : stop[w] # "none") => Stopped(Listener)
      BY DEF OrderInv
    <3>3. Stopped(Listener) => Stopped(Listener)'
      BY <1>1, <2>1
    <3> HIDE DEF Stopped
    <3> QED
      BY <3>1, <3>2, <3>3
  <2>3. mainPc' = "stop" => \A t \in Thread :
            /\ Rank(t) < Rank(mainIdx') => Stopped(t)'
            /\ Rank(t) > Rank(mainIdx') => stop'[t] = "none"
    <3> HIDE DEF Stopped
    <3> QED
      BY <1>2, <2>1 DEF OrderInv
  <2>4. mainPc' \in {"delete", "return", "exited"} => \A t \in Thread : Stopped(t)'
    <3> HIDE DEF Stopped
    <3> QED
      BY <1>2, <2>1 DEF OrderInv
  <2>5. /\ mainPc' \in {"start", "serve"} => \A t \in Thread : stop'[t] = "none"
        /\ \A t \in Thread : m_processExiting'[t] => stop'[t] # "none"
    BY <1>2 DEF OrderInv
  <2>6. \A t \in Thread : stop'[t] # "none" => done'
    BY <1>2 DEF OrderInv
  <2> QED
    BY <2>2, <2>3, <2>4, <2>5, <2>6 DEF OrderInv
<1>3. CASE StartThread
  <2>1. /\ UNCHANGED <<stop, m_processExiting, done>>
        /\ mainPc = "start" /\ mainPc' \in {"start", "serve"}
    BY <1>3 DEF StartThread, Start
  <2> QED
    BY <2>1 DEF OrderInv
<1>4. CASE Shutdown
  <2>1. /\ mainPc = "serve" /\ mainPc' = "stop" /\ mainIdx' = Listener /\ done /\ done'
        /\ stop[Listener] = "none" /\ stop'[Listener] = "write"
        /\ \A u \in Thread : u # Listener => stop'[u] = stop[u] /\ m_processExiting'[u] = m_processExiting[u]
    BY <1>1, <1>4, MarkMoves DEF Shutdown
  <2>2. \A t \in Thread : t # Listener => stop'[t] = "none" /\ ~m_processExiting'[t]
    BY <2>1 DEF OrderInv
  <2>3. \A t \in Thread : t # Listener <=> Rank(t) > Rank(Listener)
    BY <1>1 DEF Rank
  <2>5. \A t \in Thread : m_processExiting'[t] => stop'[t] # "none"
    BY <2>1, <2>2
  <2>6. \A t \in Thread : ~(Rank(t) < Rank(Listener))
    BY <1>1 DEF Rank
  <2>7. \A w \in Workers : stop'[w] = "none"
    BY <2>2, Threads
  <2> QED
    BY <2>1, <2>2, <2>3, <2>5, <2>6, <2>7 DEF OrderInv
<1>5. CASE StopWorker
  <2> DEFINE next == mainIdx'
  <2>1. /\ mainPc = "stop" /\ mainPc' = "stop" /\ Stopped(mainIdx) /\ UNCHANGED done
        /\ next = NextToStop(mainIdx) /\ next \in Workers /\ next \in Thread
        /\ stop[next] = "none" /\ stop'[next] = "write"
        /\ \A u \in Thread : u # next => stop'[u] = stop[u] /\ m_processExiting'[u] = m_processExiting[u]
    <3>1. next \in Workers /\ next \in Thread /\ StopMark(next)
      BY <1>5, Threads DEF StopWorker
    <3> QED
      BY <1>5, <3>1, MarkMoves DEF StopWorker
  <2>2. Rank(next) = Rank(mainIdx) + 1
    BY <1>1, <2>1 DEF Rank, NextToStop
  <2>3. \A t \in Thread : Rank(t) \in Nat /\ (Rank(t) = Rank(mainIdx) => t = mainIdx)
    BY <1>1 DEF Rank
  <2>4. ASSUME NEW t \in Thread
        PROVE  /\ Rank(t) < Rank(next) => Stopped(t)'
               /\ Rank(t) > Rank(next) => stop'[t] = "none"
    <3>1. Rank(t) < Rank(next) => Rank(t) < Rank(mainIdx) \/ t = mainIdx
      BY <1>1, <2>2, <2>3
    <3>2. Rank(t) > Rank(next) => Rank(t) > Rank(mainIdx) /\ t # next
      BY <1>1, <2>1, <2>2, <2>3
    <3> QED
      BY <2>1, <3>1, <3>2 DEF OrderInv
  <2>5. Stopped(Listener)' /\ Listener # next
    <3>1. Rank(Listener) < Rank(next) /\ Listener # next
      BY <1>1, <2>1, <2>2, <2>3 DEF Rank
    <3> QED
      BY <1>1, <2>4, <3>1
  <2>6. done
    BY <1>1, <2>1 DEF OrderInv
  <2> QED
    BY <1>1, <2>1, <2>4, <2>5, <2>6 DEF OrderInv
<1>6. CASE InStop
  <2>1. /\ mainPc = "stop" /\ UNCHANGED <<mainPc, mainIdx, done, m_processExiting>>
        /\ ~Stopped(mainIdx) /\ stop[mainIdx] # "none" /\ stop'[mainIdx] # "none"
        /\ \A u \in Thread : u # mainIdx => stop'[u] = stop[u]
    BY <1>1, <1>6, StopMoves DEF InStop, srvVars, mainVars
  <2> QED
    BY <1>2, <2>1
<1>7. CASE ClearWorkers
  <2>1. /\ mainPc = "stop" /\ Stopped(mainIdx) /\ NextToStop(mainIdx) = Listener
        /\ mainPc' = "delete" /\ UNCHANGED <<stop, m_processExiting, done>>
    BY <1>7 DEF ClearWorkers, stVars
  <2>2. \A t \in Thread : t = mainIdx \/ Rank(t) < Rank(mainIdx)
    <3>1. mainIdx # Listener /\ mainIdx + 1 = Listener
      BY <1>1, <2>1 DEF NextToStop
    <3> QED
      BY <1>1, <3>1 DEF Rank
  <2> QED
    BY <2>1, <2>2 DEF OrderInv
<1>8. CASE DeleteServer \/ Exit
  <2>1. /\ mainPc \in {"delete", "return"} /\ mainPc' \in {"return", "exited"}
        /\ UNCHANGED <<stop, m_processExiting, done>>
    BY <1>8 DEF DeleteServer, Exit, stVars
  <2> QED
    BY <2>1 DEF OrderInv
<1>9. CASE BindFails
  <2>1. mainPc' = "aborted" /\ UNCHANGED <<stop, m_processExiting, done>>
    BY <1>9 DEF BindFails, stVars
  <2> QED
    BY <2>1 DEF OrderInv
<1>10. CASE Signal
  BY <1>2, <1>10 DEF Signal, stVars
<1>11. ASSUME NEW t \in Thread, ThreadOnly(t)
       PROVE  OrderInv'
  <2>1. UNCHANGED <<mainPc, mainIdx, done>>
    BY <1>11 DEF ThreadOnly, srvVars, mainVars
  <2> QED
    BY <1>2, <1>11, <2>1, NotifyMoves, ThreadOnlyStops
<1>12. CASE UNCHANGED <<mainPc, mainIdx, done, stop, m_processExiting>>
  BY <1>2, <1>12
<1>13. ASSUME NEW f \in Fd, Connect(f) \/ HangUp(f) \/ Accept(f) \/ AcceptLeak(f)
       PROVE  OrderInv'
  BY <1>12, <1>13 DEF Connect, HangUp, Accept, AcceptLeak, CallbackBegin, stVars, mainVars
<1>14. CASE Dispatch \/ AcceptReturns \/ ListenerExit
  BY <1>12, <1>14
  DEF Dispatch, AcceptReturns, ListenerExit, AddWrite, AddPush, CallbackEnd, ExitRead, stVars,
      srvVars, mainVars
<1>15. ASSUME NEW w \in Workers, ProcessEvent(w) \/ FlowReply(w) \/ WorkerExit(w)
       PROVE  OrderInv'
  BY <1>12, <1>15 DEF ProcessEvent, FlowReply, WorkerExit, DrainNext, CallbackEnd, ExitRead, mainVars
<1>16. ASSUME NEW w \in Workers, NEW f \in Fd, FlowData(w, f) \/ FlowEnd(w, f)
       PROVE  OrderInv'
  BY <1>12, <1>16 DEF FlowData, FlowEnd, CallbackBegin, stVars, mainVars
<1>17. CASE UNCHANGED vars
  BY <1>12, <1>17 DEF vars, stVars, srvVars, mainVars
<1> QED
  BY <1>3, <1>4, <1>5, <1>6, <1>7, <1>8, <1>9, <1>10, <1>11, <1>13, <1>14, <1>15, <1>16, <1>17
  DEF Next, MainThread, Environment, Clients, ListenerCallback

\* The order of the stops is kept, for the theorems below.
LEMMA OrderAlways == Spec => []OrderInv
<1>1. ASSUME Init
      PROVE  OrderInv
  <2>1. mainPc = "start" /\ \A t \in Thread : stop[t] = "none" /\ ~m_processExiting[t]
    BY <1>1 DEF Init, STInit
  <2>2. \A w \in Workers : w \in Thread
    BY Threads
  <2> QED
    BY <2>1, <2>2 DEF OrderInv
<1>2. ServerInv /\ OrderInv /\ [Next]_vars => OrderInv'
  BY OrderStep
<1> QED
  BY <1>1, <1>2, ServerAlways, PTL DEF Spec

\* Clients and signals come late, for the theorems below.
LEMMA ReadyAlways ==
    ASSUME ~StartupRace
    PROVE  Spec => []ReadyInv
<1>1. Init => ReadyInv
  BY DEF Init, ReadyInv
<1>2. ServerInv /\ ReadyInv /\ [Next]_vars /\ [STNext]_stVars => ReadyInv'
  BY ReadyStep
<1> QED
  BY <1>1, <1>2, ServerAlways, PTL DEF Spec

\* Who touches a pipe: the thread reads its own, onAccept writes to the worker
\* it has chosen, and stop() to its thread.
LEMMA PipeMoves ==
    ASSUME ServerInv, [Next]_vars, NEW t \in Thread
    PROVE  \/ pipe'[t] = pipe[t]
           \/ pipe[t] # <<>> /\ pipe'[t] = Tail(pipe[t]) /\ UNCHANGED stop
           \/ Dispatch /\ t = home[dispatch] /\ AddWrite(t, dispatch)
           \/ StopWrite(t)
<1> DEFINE Goal == \/ pipe'[t] = pipe[t]
                   \/ pipe[t] # <<>> /\ pipe'[t] = Tail(pipe[t]) /\ UNCHANGED stop
                   \/ Dispatch /\ t = home[dispatch] /\ AddWrite(t, dispatch)
                   \/ StopWrite(t)
<1>1. pipe \in [Thread -> Seq({"c", "e"})]
  BY DEF ServerInv, STTypeInv, SeqTypes
<1>2. ASSUME NEW u \in Thread, ExitRead(u) \/ WakeRead(u)
      PROVE  Goal
  BY <1>1, <1>2 DEF ExitRead, WakeRead, Read
<1>3. CASE Dispatch
  <2>1. CASE AddWrite(home[dispatch], dispatch)
    BY <1>1, <1>3, <2>1 DEF AddWrite, Write
  <2>2. CASE UNCHANGED pipe
    BY <2>2
  <2> QED
    BY <1>3, <2>1, <2>2 DEF Dispatch, AddPush, stVars
<1>4. CASE InStop
  <2>1. CASE StopWrite(mainIdx)
    BY <1>1, <2>1 DEF StopWrite, Write
  <2>2. CASE UNCHANGED pipe
    BY <2>2
  <2> QED
    BY <1>4, <2>1, <2>2 DEF InStop, StopStep, StopFail, StopCheck, StopBlock, StopSpurious
<1>5. CASE ListenerExit
  BY <1>2, <1>5, Threads DEF ListenerExit
<1>6. ASSUME NEW w \in Workers, WorkerExit(w)
      PROVE  Goal
  BY <1>2, <1>6, Threads DEF WorkerExit
<1>7. ASSUME NEW u \in Thread, ThreadOnly(u)
      PROVE  Goal
  <2>1. CASE UNCHANGED pipe
    BY <2>1
  <2> QED
    BY <1>2, <1>7, <2>1 DEF ThreadOnly, RunInit, RunFail, DrainLock, DrainDone, Leave, Notify
<1>8. CASE UNCHANGED pipe
  BY <1>8
<1>9. ASSUME NEW f \in Fd, Accept(f) \/ AcceptLeak(f) \/ Connect(f) \/ HangUp(f)
      PROVE  Goal
  BY <1>8, <1>9 DEF Accept, AcceptLeak, Connect, HangUp, CallbackBegin, stVars
<1>10. ASSUME NEW w \in Workers, ProcessEvent(w) \/ FlowReply(w)
       PROVE  Goal
  BY <1>8, <1>10 DEF ProcessEvent, FlowReply, DrainNext, CallbackEnd
<1>11. ASSUME NEW w \in Workers, NEW f \in Fd, FlowData(w, f) \/ FlowEnd(w, f)
       PROVE  Goal
  BY <1>8, <1>11 DEF FlowData, FlowEnd, CallbackBegin, stVars
<1>12. CASE StartThread \/ Shutdown \/ StopWorker
  BY <1>8, <1>12 DEF StartThread, Start, Shutdown, StopWorker, StopMark
<1>13. CASE ClearWorkers \/ DeleteServer \/ Exit \/ Signal \/ BindFails \/ AcceptReturns
  BY <1>8, <1>13 DEF ClearWorkers, DeleteServer, Exit, Signal, BindFails, AcceptReturns,
                     CallbackEnd, stVars
<1>14. CASE UNCHANGED vars
  BY <1>8, <1>14 DEF vars, stVars
<1> QED
  BY <1>3, <1>4, <1>5, <1>6, <1>7, <1>9, <1>10, <1>11, <1>12, <1>13, <1>14
  DEF Next, MainThread, Environment, Clients, ListenerCallback

\* How a call of stop() goes on.
LEMMA StopChanges ==
    ASSUME STTypeInv, [STNext]_stVars, NEW t \in Thread
    PROVE  \/ stop'[t] = stop[t]
           \/ stop[t] = "none" /\ stop'[t] = "write"
           \/ stop[t] = "write" /\ StopFail(t) /\ stop'[t] = "failed"
           \/ stop[t] \notin {"none", "ok", "failed"} /\ stop'[t] \notin {"none", "write", "failed"}
<1> DEFINE Goal == \/ stop'[t] = stop[t]
                   \/ stop[t] = "none" /\ stop'[t] = "write"
                   \/ stop[t] = "write" /\ StopFail(t) /\ stop'[t] = "failed"
                   \/ /\ stop[t] \notin {"none", "ok", "failed"}
                      /\ stop'[t] \notin {"none", "write", "failed"}
<1>1. stop \in [Thread -> StopStates]
  BY DEF STTypeInv, StateTypes
<1>2. ASSUME NEW u \in Thread, StopMark(u)
      PROVE  Goal
  BY <1>1, <1>2 DEF StopMark, Stop
<1>3. ASSUME NEW u \in Thread, StopFail(u)
      PROVE  Goal
  <2>1. stop[u] = "write" /\ stop' = [stop EXCEPT ![u] = "failed"]
    BY <1>3 DEF StopFail, Stop
  <2>2. CASE u = t
    BY <1>1, <1>3, <2>1, <2>2
  <2>3. CASE u # t
    BY <1>1, <2>1, <2>3
  <2> QED
    BY <2>2, <2>3
<1>4. ASSUME NEW u \in Thread, StopWrite(u) \/ StopCheck(u) \/ StopBlock(u) \/ StopSpurious(u)
      PROVE  Goal
  <2>1. /\ stop[u] \notin {"none", "ok", "failed"}
        /\ \E c \in {"check", "ok", "blocking", "waiting"} : stop' = [stop EXCEPT ![u] = c]
    BY <1>4 DEF StopWrite, StopCheck, StopBlock, StopSpurious, Stop
  <2> QED
    BY <1>1, <2>1
<1>5. ASSUME NEW u \in Thread, Notify(u)
      PROVE  Goal
  BY <1>1, <1>5 DEF Notify
<1>6. CASE UNCHANGED stop
  BY <1>6
<1> QED
  BY <1>2, <1>3, <1>4, <1>5, <1>6
  DEF STNext, LoopStep, StopStep, Start, RunInit, RunFail, ExitRead, WakeRead, DrainLock,
      DrainNext, DrainDone, CallbackBegin, CallbackEnd, Leave, AddWrite, AddPush, stVars

\* Nobody but stop() writes to the listener, so its write finds room, and
\* fails only if the listener has failed to initialize.
ListenerInv ==
    /\ stop[Listener] \in {"none", "write", "failed"} => pipe[Listener] = <<>>
    /\ stop[Listener] = "failed" => phase[Listener] = "failed"

\* ListenerInv survives every step.
LEMMA ListenerStep ==
    ASSUME ServerInv, OrderInv, ReadyInv, ListenerInv, [Next]_vars, [STNext]_stVars
    PROVE  ListenerInv'
<1>1. /\ Listener \in Thread /\ pipe \in [Thread -> Seq({"c", "e"})]
      /\ phase \in [Thread -> Phases] /\ stop \in [Thread -> StopStates] /\ STTypeInv
  BY Threads DEF ServerInv, STTypeInv, SeqTypes, StateTypes
<1>2. stop[Listener] \in {"none", "write", "failed"}
          \/ stop'[Listener] \notin {"none", "write", "failed"}
  BY <1>1, StopChanges DEF StopStates
<1>3. stop[Listener] \in {"none", "write", "failed"} =>
          stop'[Listener] \notin {"none", "write", "failed"} \/ pipe'[Listener] = <<>>
  <2>1. ~(Dispatch /\ Listener = home[dispatch])
    BY Threads DEF Dispatch, ServerInv, ServerTypes, NetTypes, OwnerInv, CallInv, HomeInv
  <2>2. StopWrite(Listener) => stop'[Listener] = "check"
    BY <1>1 DEF StopWrite, Stop
  <2> QED
    BY <1>1, <2>1, <2>2, PipeMoves DEF ListenerInv
<1>4. stop'[Listener] = "failed" => phase'[Listener] = "failed"
  <2>1. CASE StopFail(Listener) /\ stop[Listener] = "write"
    <3>1. phase[Listener] \notin {"new", "spawned"}
      BY <1>1, <2>1 DEF OrderInv, ReadyInv, Initialized
    <3>2. pipe[Listener] = <<>>
      BY <2>1 DEF ListenerInv
    <3>3. phase[Listener] = "failed"
      BY <2>1, <3>1, <3>2, ThreadAssumption DEF StopFail, CanWrite, HasSockets
    <3> QED
      BY <2>1, <3>3 DEF StopFail
  <2>2. CASE stop[Listener] = "failed"
    BY <1>1, <2>2, PhaseForward DEF ListenerInv
  <2> QED
    BY <1>1, <2>1, <2>2, StopChanges
<1> QED
  BY <1>2, <1>3, <1>4 DEF ListenerInv

\* The invariant, for the theorems below.
LEMMA ListenerAlways ==
    ASSUME ~StartupRace
    PROVE  Spec => []ListenerInv
<1>1. Init => ListenerInv
  BY Threads DEF Init, STInit, ListenerInv
<1>2. ServerInv /\ OrderInv /\ ReadyInv /\ ListenerInv /\ [Next]_vars /\ [STNext]_stVars
        => ListenerInv'
  BY ListenerStep
<1> QED
  BY <1>1, <1>2, ServerAlways, OrderAlways, ReadyAlways, PTL DEF Spec

\* What shutdown relies on, that of the service threads included.
ShutdownInv == OrderInv /\ ReadyInv /\ ListenerInv /\ StopMeansExited /\ AskedInv

\* The invariant, for the theorems below.
LEMMA ShutdownAlways ==
    ASSUME ~StartupRace
    PROVE  Spec => []ShutdownInv
<1>1. Spec => []StopMeansExited /\ []AskedInv
  BY ServerUsesThreads, StopMeansExitedCorrect, AskedAlways, PTL DEF IsServiceThreads
<1>2. Spec => []ReadyInv
  BY ReadyAlways
<1>3. Spec => []ListenerInv
  BY ListenerAlways
<1>4. OrderInv /\ ReadyInv /\ ListenerInv /\ StopMeansExited /\ AskedInv => ShutdownInv
  BY DEF ShutdownInv
<1> QED
  BY <1>1, <1>2, <1>3, <1>4, OrderAlways, PTL

\* When stop() is called for a worker the listener has left its loop or never
\* had one, so no addFdToEvLoop is under way and none will be.
LEMMA NoCallAfterStop ==
    ASSUME ServerInv, ShutdownInv, NEW w \in Workers, stop[w] # "none"
    PROVE  dispatch = NoFd /\ \A t \in Thread : lock[t] # "add"
<1>1. Stopped(Listener)
  BY DEF ShutdownInv, OrderInv
<1>2. phase[Listener] # "loop"
  BY <1>1, Threads DEF ShutdownInv, ListenerInv, StopMeansExited, m_exited, Stopped
<1> QED
  BY <1>2 DEF ServerInv, OwnerInv, CallInv

\* A queue is popped by its loop or grows by a call of addFdToEvLoop.
LEMMA QueueMoves ==
    ASSUME STTypeInv, [STNext]_stVars, NEW t \in Thread
    PROVE  \/ queue'[t] = queue[t]
           \/ queue[t] # <<>> /\ queue'[t] = Tail(queue[t])
           \/ lock[t] = "add"
<1> DEFINE Goal == \/ queue'[t] = queue[t]
                   \/ queue[t] # <<>> /\ queue'[t] = Tail(queue[t])
                   \/ lock[t] = "add"
<1>1. queue \in [Thread -> Seq(Fd)]
  BY DEF STTypeInv, SeqTypes
<1>2. ASSUME NEW u \in Thread, DrainNext(u)
      PROVE  Goal
  BY <1>1, <1>2 DEF DrainNext
<1>3. ASSUME NEW u \in Thread, AddPush(u)
      PROVE  Goal
  BY <1>1, <1>3 DEF AddPush
<1>4. CASE UNCHANGED queue
  BY <1>4
<1> QED
  BY <1>2, <1>3, <1>4
  DEF STNext, LoopStep, StopStep, Start, RunInit, RunFail, ExitRead, WakeRead, DrainLock,
      DrainDone, CallbackBegin, CallbackEnd, Leave, Notify, AddWrite, StopMark, StopWrite,
      StopFail, StopCheck, StopBlock, StopSpurious, stVars

\* Shutdown stops the listener first, so that nothing is given to a worker
\* once that is marked as exiting.
THEOREM NoDispatchCorrect ==
    ASSUME ~StartupRace
    PROVE  Spec => NoDispatchToStopped
<1>1. ASSUME ServerInv, ShutdownInv, [STNext]_stVars, NEW w \in Workers, m_processExiting[w]
      PROVE  Len(queue'[w]) <= Len(queue[w])
  <2>1. w \in Thread /\ queue[w] \in Seq(Fd)
    BY <1>1, Threads DEF ServerInv, STTypeInv, SeqTypes
  <2>2. stop[w] # "none"
    BY <1>1, <2>1 DEF ShutdownInv, OrderInv
  <2>3. lock[w] # "add"
    BY <1>1, <2>1, <2>2, NoCallAfterStop
  <2>4. queue'[w] = queue[w] \/ (queue[w] # <<>> /\ queue'[w] = Tail(queue[w]))
    BY <1>1, <2>1, <2>3, QueueMoves DEF ServerInv
  <2>5. CASE queue'[w] = queue[w]
    BY <2>1, <2>5
  <2>6. CASE queue[w] # <<>> /\ queue'[w] = Tail(queue[w])
    BY <2>1, <2>6
  <2> QED
    BY <2>4, <2>5, <2>6
<1>2. ServerInv /\ ShutdownInv /\ [STNext]_stVars
        => \A w \in Workers : m_processExiting[w] => Len(queue'[w]) <= Len(queue[w])
  BY <1>1
<1> QED
  BY <1>2, ServerAlways, ShutdownAlways, PTL DEF NoDispatchToStopped

-----------------------------------------------------------------------------
(* What a worker leaves behind.                                            *)

\* The 'e' is the last byte a worker is sent.
LastInv == \A w \in Workers : \A i \in DOMAIN pipe[w] : pipe[w][i] = "e" => i = Len(pipe[w])

\* The byte appended to bytes without an 'e' may be one.
LEMMA LastAppended ==
    ASSUME NEW s \in Seq({"c", "e"}), ~Has(s, "e"), NEW b \in {"c", "e"},
           NEW i \in DOMAIN Append(s, b), Append(s, b)[i] = "e"
    PROVE  i = Len(Append(s, b))
<1>1. /\ DOMAIN s = 1 .. Len(s) /\ DOMAIN Append(s, b) = 1 .. Len(s) + 1 /\ Len(s) \in Nat
      /\ Len(Append(s, b)) = Len(s) + 1
      /\ \A j \in 1 .. Len(s) : Append(s, b)[j] = s[j]
  OBVIOUS
<1>2. i \notin 1 .. Len(s)
  BY <1>1 DEF Has
<1> QED
  BY <1>1, <1>2

\* LastInv survives every step.
LEMMA LastStep ==
    ASSUME ServerInv, ShutdownInv, LastInv, [Next]_vars
    PROVE  LastInv'
<1> SUFFICES ASSUME NEW w \in Workers, NEW i \in DOMAIN pipe'[w], pipe'[w][i] = "e"
             PROVE  i = Len(pipe'[w])
  BY DEF LastInv
<1>1. w \in Thread /\ pipe \in [Thread -> Seq({"c", "e"})] /\ pipe[w] \in Seq({"c", "e"})
  BY Threads DEF ServerInv, STTypeInv, SeqTypes
<1>2. CASE pipe'[w] = pipe[w]
  BY <1>2 DEF LastInv
<1>3. CASE pipe[w] # <<>> /\ pipe'[w] = Tail(pipe[w])
  <2> DEFINE s == pipe[w]
  <2>1. /\ DOMAIN s = 1 .. Len(s) /\ DOMAIN Tail(s) = 1 .. Len(s) - 1 /\ Len(s) \in Nat \ {0}
        /\ Len(Tail(s)) = Len(s) - 1
        /\ \A j \in 1 .. Len(s) - 1 : Tail(s)[j] = s[j + 1]
    BY <1>1, <1>3
  <2>2. i + 1 \in DOMAIN s /\ s[i + 1] = "e" /\ i \in Nat
    BY <1>3, <2>1
  <2>3. i + 1 = Len(s)
    BY <2>2 DEF LastInv
  <2> QED
    BY <1>3, <2>1, <2>2, <2>3
<1>4. ASSUME stop[w] \in {"none", "write"}, NEW b \in {"c", "e"},
             pipe'[w] \in {pipe[w], Append(pipe[w], b)}
      PROVE  i = Len(pipe'[w])
  <2>1. ~Has(pipe[w], "e")
    BY <1>1, <1>4 DEF ShutdownInv, AskedInv
  <2>2. CASE pipe'[w] = Append(pipe[w], b)
    BY <1>1, <2>1, <2>2, LastAppended
  <2> QED
    BY <1>2, <1>4, <2>2
<1>5. CASE Dispatch /\ w = home[dispatch] /\ AddWrite(w, dispatch)
  <2>1. stop[w] = "none"
    BY <1>5, NoCallAfterStop DEF Dispatch
  <2>2. pipe'[w] \in {pipe[w], Append(pipe[w], "c")}
    BY <1>1, <1>5 DEF AddWrite, Write
  <2> QED
    BY <1>4, <2>1, <2>2
<1>6. CASE StopWrite(w)
  <2>1. stop[w] = "write" /\ pipe'[w] \in {pipe[w], Append(pipe[w], "e")}
    BY <1>1, <1>6 DEF StopWrite, Stop, Write
  <2> QED
    BY <1>4, <2>1
<1> QED
  BY <1>1, <1>2, <1>3, <1>5, <1>6, PipeMoves

\* A worker comes to leave its loop by cleanState.
LEMMA LeaveMoves ==
    ASSUME ServerInv, [Next]_vars, NEW w \in Workers, phase'[w] \in {"leaving", "exited", "gone"}
    PROVE  phase[w] \in {"leaving", "exited", "gone"} \/ WorkerExit(w)
<1> DEFINE Gone(p) == p \in {"leaving", "exited", "gone"}
           Goal == Gone(phase[w]) \/ WorkerExit(w)
<1>1. phase \in [Thread -> Phases] /\ w \in Thread /\ w # Listener
  BY Threads DEF ServerInv, STTypeInv, StateTypes
<1>2. CASE StartThread
  BY <1>1, <1>2 DEF StartThread, Start, Phase
<1>3. CASE ListenerExit
  BY <1>1, <1>3 DEF ListenerExit, ExitRead
<1>4. ASSUME NEW v \in Workers, WorkerExit(v)
      PROVE  Goal
  BY <1>1, <1>4 DEF WorkerExit, ExitRead
<1>5. ASSUME NEW t \in Thread, RunInit(t) \/ RunFail(t) \/ Leave(t) \/ Notify(t)
      PROVE  Goal
  BY <1>1, <1>5 DEF RunInit, RunFail, Leave, Notify, Phase
<1>6. CASE UNCHANGED phase
  BY <1>6
<1>7. ASSUME NEW t \in Thread, ThreadOnly(t)
      PROVE  Goal
  BY <1>5, <1>6, <1>7 DEF ThreadOnly, WakeRead, DrainLock, DrainDone
<1>8. CASE Shutdown \/ InStop \/ StopWorker \/ Dispatch \/ AcceptReturns
  BY <1>6, <1>8 DEF Shutdown, InStop, StopWorker, StopMark, StopStep, StopWrite, StopFail, StopCheck,
      StopBlock, StopSpurious, Dispatch, AcceptReturns, AddWrite, AddPush, CallbackEnd, stVars
<1>9. CASE ClearWorkers \/ DeleteServer \/ Exit \/ Signal \/ BindFails
  BY <1>6, <1>9 DEF ClearWorkers, DeleteServer, Exit, Signal, BindFails, stVars
<1>10. ASSUME NEW f \in Fd, Connect(f) \/ HangUp(f) \/ Accept(f) \/ AcceptLeak(f)
       PROVE  Goal
  BY <1>6, <1>10 DEF Connect, HangUp, Accept, AcceptLeak, CallbackBegin, stVars
<1>11. ASSUME NEW v \in Workers, ProcessEvent(v) \/ FlowReply(v)
       PROVE  Goal
  BY <1>6, <1>11 DEF ProcessEvent, FlowReply, DrainNext, CallbackEnd
<1>12. ASSUME NEW v \in Workers, NEW f \in Fd, FlowData(v, f) \/ FlowEnd(v, f)
       PROVE  Goal
  BY <1>6, <1>12 DEF FlowData, FlowEnd, CallbackBegin, stVars
<1>13. CASE UNCHANGED vars
  BY <1>6, <1>13 DEF vars, stVars
<1> QED
  BY <1>2, <1>3, <1>4, <1>7, <1>8, <1>9, <1>10, <1>11, <1>12, <1>13
  DEF Next, MainThread, Environment, Clients, ListenerCallback

\* A worker whose queue and table are empty gets a flow and serves one only
\* by looking at its queue.
LEMMA EmptyStays ==
    ASSUME ServerInv, [Next]_vars, NEW w \in Workers,
           queue[w] = <<>>, m_tcpSessions[w] = {}, serving[w] = NoFd
    PROVE  m_tcpSessions'[w] = {} /\ serving'[w] = NoFd
<1> DEFINE Goal == m_tcpSessions'[w] = {} /\ serving'[w] = NoFd
<1>1. /\ m_tcpSessions \in [Workers -> SUBSET Fd]
      /\ serving \in [Workers -> Fd \cup {NoFd}]
  BY DEF ServerInv, ServerTypes, FlowTypes
<1>2. ASSUME NEW v \in Workers, ProcessEvent(v)
      PROVE  Goal
  <2>1. v # w
    BY <1>2 DEF ProcessEvent, DrainNext
  <2> QED
    BY <1>1, <1>2, <2>1 DEF ProcessEvent, NewFlow
<1>3. ASSUME NEW v \in Workers, WorkerExit(v) \/ FlowReply(v)
      PROVE  Goal
  BY <1>1, <1>3 DEF WorkerExit, FlowReply
<1>4. ASSUME NEW v \in Workers, NEW f \in Fd, FlowData(v, f) \/ FlowEnd(v, f)
      PROVE  Goal
  BY <1>1, <1>4 DEF FlowData, FlowEnd, deleteTcpFlow
<1>5. CASE UNCHANGED flowVars
  BY <1>5 DEF flowVars
<1> QED
  BY <1>2, <1>3, <1>4, <1>5
  DEF Next, MainThread, StartThread, Shutdown, StopWorker, ClearWorkers, DeleteServer, Exit,
      InStop, Environment, Clients, Connect, HangUp, Signal, BindFails, ListenerCallback, Dispatch,
      AcceptReturns, ListenerExit, Accept, AcceptLeak, ThreadOnly, vars, srvVars

\* WorkerLeavesNothing survives every step: the 'e' is read from a pipe that
\* holds nothing else, so the queue has been looked at; and then nothing comes.
LEMMA LeaveStep ==
    ASSUME ServerInv, ShutdownInv, DrainInv, LastInv, WorkerLeavesNothing, [Next]_vars, [STNext]_stVars
    PROVE  WorkerLeavesNothing'
<1> SUFFICES ASSUME NEW w \in Workers, phase'[w] \in {"leaving", "exited", "gone"}
             PROVE  queue'[w] = <<>> /\ m_tcpSessions'[w] = {} /\ serving'[w] = NoFd
  BY DEF WorkerLeavesNothing
<1>1. w \in Thread /\ pipe[w] \in Seq({"c", "e"})
  BY Threads DEF ServerInv, STTypeInv, SeqTypes
<1>2. CASE WorkerExit(w)
  <2>1. pipe[w] # <<>> /\ Head(pipe[w]) = "e" /\ evPc[w] = "poll" /\ UNCHANGED <<queue, serving>>
    BY <1>2 DEF WorkerExit, ExitRead, Loop, Read
  <2>2. 1 \in DOMAIN pipe[w] /\ pipe[w][1] = "e" /\ DOMAIN pipe[w] = 1 .. Len(pipe[w])
    BY <1>1, <2>1
  <2>3. Len(pipe[w]) = 1
    BY <2>2 DEF LastInv
  <2>4. ~Has(pipe[w], "c")
    BY <2>2, <2>3 DEF Has
  <2>5. queue[w] = <<>>
    BY <1>1, <2>1, <2>4, WillDrainHas DEF DrainInv
  <2>6. serving[w] = NoFd
    BY <2>1 DEF ServerInv, ServingInv
  <2>7. m_tcpSessions'[w] = {}
    BY <1>2 DEF WorkerExit, ServerInv, ServerTypes, FlowTypes
  <2> QED
    BY <2>1, <2>5, <2>6, <2>7
<1>3. CASE phase[w] \in {"leaving", "exited", "gone"}
  <2>1. queue[w] = <<>> /\ m_tcpSessions[w] = {} /\ serving[w] = NoFd
    BY <1>3 DEF WorkerLeavesNothing
  <2>2. stop[w] # "none"
    BY <1>1, <1>3 DEF ShutdownInv, AskedInv
  <2>3. lock[w] # "add"
    BY <1>1, <2>2, NoCallAfterStop
  <2>4. queue'[w] = <<>>
    BY <1>1, <2>1, <2>3, QueueMoves DEF ServerInv
  <2> QED
    BY <2>1, <2>4, EmptyStays
<1> QED
  BY <1>2, <1>3, LeaveMoves

\* A worker that has cleaned up leaves nothing behind, for any number of
\* workers and connections and any interleaving of the listener's last calls,
\* the drains and the stops.
THEOREM WorkerLeavesNothingCorrect ==
    ASSUME ~StartupRace, "stray" \notin Faults
    PROVE  Spec => []WorkerLeavesNothing
<1>1. Init => LastInv /\ WorkerLeavesNothing
  BY Threads DEF Init, STInit, LastInv, WorkerLeavesNothing
<1>2. ServerInv /\ ShutdownInv /\ LastInv /\ [Next]_vars => LastInv'
  BY LastStep
<1>3. ServerInv /\ ShutdownInv /\ DrainInv /\ LastInv /\ WorkerLeavesNothing
        /\ [Next]_vars /\ [STNext]_stVars => WorkerLeavesNothing'
  BY LeaveStep
<1>4. Spec => []ShutdownInv
  BY ShutdownAlways
<1>5. STSpec => []DrainInv
  BY DrainAlways
<1>6. Spec => STSpec
  BY ServerUsesThreads DEF IsServiceThreads
<1> QED
  BY <1>1, <1>2, <1>3, <1>4, <1>5, <1>6, ServerAlways, PTL DEF Spec

-----------------------------------------------------------------------------
(* Room in the pipes.                                                      *)

\* onAccept is about to write the byte of its descriptor to the worker.
Pending(w) == dispatch # NoFd /\ home[dispatch] = w /\ lock[w] # "add"
Owed(w) == IF Pending(w) THEN 1 ELSE 0

\* A worker is sent one byte for a connection given to it, and the 'e'.
CapInv == \A w \in Workers : stop[w] \in {"none", "write", "failed"} =>
    Len(pipe[w]) + Owed(w) <= Given(w)

\* No worker loses a connection it was given.
LEMMA GivenGrows ==
    ASSUME ServerInv, BalanceInv, [Next]_vars, NEW w \in Workers
    PROVE  Given(w) \in Nat /\ Given(w)' \in Nat /\ Given(w) <= Given(w)'
<1>1. Given(w) \in Nat
  BY FS_CardinalityType DEF BalanceInv, Given, GivenTo
<1>2. ASSUME NEW f \in Fd, Accept(f)
      PROVE  Given(w)' \in Nat /\ Given(w) <= Given(w)'
  <2>1. Given(w)' = Given(w) + 1 \/ Given(w)' = Given(w)
    <3>1. Given(w)' = Given(w) + IF w = m_index' THEN 1 ELSE 0
      BY <1>2, AcceptCounts
    <3> QED
      BY <1>1, <3>1
  <2> QED
    BY <1>1, <2>1
<1>3. CASE UNCHANGED home
  <2>1. Given(w)' = Given(w)
    BY <1>3 DEF Given
  <2> QED
    BY <1>1, <2>1
<1> QED
  BY <1>1, <1>2, <1>3
  DEF Next, MainThread, StartThread, Shutdown, StopWorker, ClearWorkers, DeleteServer, Exit,
      InStop, Environment, Clients, Connect, HangUp, Signal, BindFails, ListenerCallback, Dispatch,
      AcceptReturns, ListenerExit, AcceptLeak, ProcessEvent, FlowReply, WorkerExit, FlowData, FlowEnd,
      ThreadOnly, vars, srvVars, netVars

\* A byte is pending only for a connection just accepted.
LEMMA PendingMoves ==
    ASSUME ServerInv, [Next]_vars, NEW w \in Workers, Pending(w)'
    PROVE  Pending(w) \/ \E f \in Fd : Accept(f) /\ w = m_index'
<1>1. /\ home \in [Fd -> Workers \cup {NoWorker}] /\ lock \in [Thread -> {"free", "loop", "add"}]
      /\ w \in Thread
  BY Threads DEF ServerInv, ServerTypes, NetTypes, STTypeInv, StateTypes
<1>2. dispatch' # NoFd /\ home'[dispatch'] = w /\ lock'[w] # "add"
  BY DEF Pending
<1>3. ASSUME NEW f \in Fd, Accept(f)
      PROVE  w = m_index'
  BY <1>1, <1>2, <1>3 DEF Accept
<1>4. ~Dispatch
  <2>1. SUFFICES ASSUME Dispatch
                 PROVE  FALSE
    OBVIOUS
  <2>2. dispatch' = dispatch /\ home' = home /\ AddWrite(home[dispatch], dispatch)
    BY <1>2, <2>1 DEF Dispatch
  <2> QED
    BY <1>1, <1>2, <2>2 DEF AddWrite
<1>5. ASSUME UNCHANGED <<dispatch, home>>, lock[w] = "add" => lock'[w] = "add"
      PROVE  Pending(w)
  BY <1>2, <1>5 DEF Pending
<1>6. ASSUME NEW t \in Thread, ThreadOnly(t)
      PROVE  Pending(w)
  <2>1. UNCHANGED <<dispatch, home>>
    BY <1>6 DEF ThreadOnly, srvVars, netVars
  <2>2. CASE DrainLock(t) \/ DrainDone(t)
    <3>1. lock[t] # "add" /\ \E c : lock' = [lock EXCEPT ![t] = c]
      BY <2>2 DEF DrainLock, DrainDone, Loop, ServerInv, OwnerInv, CallInv
    <3> QED
      BY <1>1, <1>5, <2>1, <3>1
  <2>3. CASE UNCHANGED lock
    BY <1>5, <2>1, <2>3
  <2> QED
    BY <1>6, <2>2, <2>3 DEF ThreadOnly, RunInit, RunFail, WakeRead, Leave, Notify
<1>7. ASSUME UNCHANGED <<dispatch, home, lock>>
      PROVE  Pending(w)
  BY <1>5, <1>7
<1>8. CASE StartThread \/ Shutdown \/ InStop \/ StopWorker
  BY <1>7, <1>8 DEF StartThread, Start, Shutdown, InStop, StopWorker, StopMark, StopStep, StopWrite,
      StopFail, StopCheck, StopBlock, StopSpurious, srvVars, netVars
<1>9. CASE ClearWorkers \/ DeleteServer \/ Exit \/ Signal \/ BindFails
  BY <1>7, <1>9 DEF ClearWorkers, DeleteServer, Exit, Signal, BindFails, stVars, netVars
<1>10. ASSUME NEW f \in Fd, Connect(f) \/ HangUp(f) \/ AcceptLeak(f)
       PROVE  Pending(w)
  BY <1>7, <1>10 DEF Connect, HangUp, AcceptLeak, stVars
<1>11. CASE AcceptReturns \/ ListenerExit
  BY <1>7, <1>11 DEF AcceptReturns, ListenerExit, CallbackEnd, ExitRead, srvVars, netVars
<1>12. ASSUME NEW v \in Workers, ProcessEvent(v) \/ FlowReply(v) \/ WorkerExit(v)
       PROVE  Pending(w)
  BY <1>7, <1>12 DEF ProcessEvent, FlowReply, WorkerExit, DrainNext, CallbackEnd, ExitRead
<1>13. ASSUME NEW v \in Workers, NEW f \in Fd, FlowData(v, f) \/ FlowEnd(v, f)
       PROVE  Pending(w)
  BY <1>7, <1>13 DEF FlowData, FlowEnd, CallbackBegin, stVars
<1>14. CASE UNCHANGED vars
  BY <1>7, <1>14 DEF vars, stVars, srvVars, netVars
<1> QED
  BY <1>3, <1>4, <1>6, <1>8, <1>9, <1>10, <1>11, <1>12, <1>13, <1>14
  DEF Next, MainThread, Environment, Clients, ListenerCallback

\* CapInv survives every step.
LEMMA CapStep ==
    ASSUME ServerInv, BalanceInv, CapInv, [Next]_vars, [STNext]_stVars
    PROVE  CapInv'
<1> SUFFICES ASSUME NEW w \in Workers, stop'[w] \in {"none", "write", "failed"}
             PROVE  Len(pipe'[w]) + Owed(w)' <= Given(w)'
  BY DEF CapInv
<1>1. /\ w \in Thread /\ pipe[w] \in Seq({"c", "e"}) /\ STTypeInv
      /\ stop \in [Thread -> StopStates]
  BY Threads DEF ServerInv, STTypeInv, SeqTypes, StateTypes
<1>2. stop[w] \in {"none", "write", "failed"}
  BY <1>1, StopChanges DEF StopStates
<1>3. Len(pipe[w]) + Owed(w) <= Given(w)
  BY <1>2 DEF CapInv
<1>4. /\ Given(w) \in Nat /\ Given(w)' \in Nat /\ Given(w) <= Given(w)'
      /\ Len(pipe[w]) \in Nat
  BY <1>1, GivenGrows
<1>5. /\ Owed(w) \in 0 .. 1 /\ Owed(w)' \in 0 .. 1
      /\ Owed(w)' <= Owed(w) \/ Given(w)' = Given(w) + 1
  <2>1. ASSUME NEW f \in Fd, Accept(f), w = m_index'
        PROVE  Given(w)' = Given(w) + 1
    <3>1. Given(w)' = Given(w) + IF w = m_index' THEN 1 ELSE 0
      BY <2>1, AcceptCounts
    <3> QED
      BY <2>1, <3>1
  <2>2. (Pending(w)' => Pending(w)) \/ Given(w)' = Given(w) + 1
    BY <2>1, PendingMoves
  <2>3. /\ Owed(w) \in 0 .. 1 /\ Owed(w)' \in 0 .. 1
        /\ (Pending(w)' => Pending(w)) => Owed(w)' <= Owed(w)
    BY DEF Owed
  <2> QED
    BY <2>2, <2>3
<1>6. ASSUME Len(pipe'[w]) \in Nat, Len(pipe'[w]) <= Len(pipe[w])
      PROVE  Len(pipe'[w]) + Owed(w)' <= Given(w)'
  BY <1>3, <1>4, <1>5, <1>6
<1>7. CASE pipe'[w] = pipe[w]
  <2>1. Len(pipe'[w]) \in Nat /\ Len(pipe'[w]) <= Len(pipe[w])
    BY <1>4, <1>7
  <2> QED
    BY <1>6, <2>1
<1>8. CASE pipe[w] # <<>> /\ pipe'[w] = Tail(pipe[w])
  <2>1. Len(pipe'[w]) \in Nat /\ Len(pipe'[w]) <= Len(pipe[w])
    BY <1>1, <1>8
  <2> QED
    BY <1>6, <2>1
<1>9. CASE Dispatch /\ w = home[dispatch] /\ AddWrite(w, dispatch)
  <2>1. Owed(w) = 1 /\ Owed(w)' = 0
    <3>1. Pending(w) /\ ~Pending(w)'
      BY <1>1, <1>9 DEF Dispatch, AddWrite, Pending, ServerInv, STTypeInv, StateTypes
    <3> QED
      BY <3>1 DEF Owed
  <2>2. pipe'[w] = pipe[w] \/ pipe'[w] = Append(pipe[w], "c")
    <3>1. pipe \in [Thread -> Seq({"c", "e"})]
      BY DEF ServerInv, STTypeInv, SeqTypes
    <3> QED
      BY <1>1, <1>9, <3>1 DEF AddWrite, Write
  <2>3. Len(pipe'[w]) \in Nat /\ Len(pipe'[w]) <= Len(pipe[w]) + 1
    <3>1. CASE pipe'[w] = pipe[w]
      BY <1>4, <3>1
    <3>2. CASE pipe'[w] = Append(pipe[w], "c")
      BY <1>1, <3>2
    <3> QED
      BY <2>2, <3>1, <3>2
  <2> QED
    BY <1>3, <1>4, <2>1, <2>3
<1>10. ~StopWrite(w)
  BY <1>1 DEF StopWrite, Stop
<1> QED
  BY <1>1, <1>7, <1>8, <1>9, <1>10, PipeMoves

\* A socket pair holds a byte for every connection and one more.
PipeFits == IsFiniteSet(Fd) /\ Cardinality(Fd) < PipeCap

\* With the room for it, no write to a worker of the pipe's own fails.
LEMMA RoomForAll ==
    ASSUME PipeFits, CapInv, ServerInv, NEW w \in Workers, stop[w] \in {"none", "write", "failed"}
    PROVE  /\ Len(pipe[w]) < PipeCap
           /\ HasSockets(w) => CanWrite(w)
<1>1. GivenTo(w) \subseteq Fd /\ Given(w) = Cardinality(GivenTo(w))
  BY DEF GivenTo, Given
<1>2. /\ Cardinality(Fd) \in Nat /\ Cardinality(GivenTo(w)) \in Nat
      /\ Cardinality(GivenTo(w)) <= Cardinality(Fd)
  BY <1>1, FS_Subset, FS_CardinalityType DEF PipeFits
<1>3. Len(pipe[w]) + Owed(w) <= Given(w) /\ Owed(w) \in 0 .. 1
  <2>1. Owed(w) \in 0 .. 1
    BY DEF Owed
  <2> QED
    BY <2>1 DEF CapInv
<1>4. pipe[w] \in Seq({"c", "e"})
  BY Threads DEF ServerInv, STTypeInv, SeqTypes
<1>5. Len(pipe[w]) \in Nat
  BY <1>4
<1>6. PipeCap \in Nat /\ Cardinality(Fd) < PipeCap
  BY ThreadAssumption DEF PipeFits
<1>7. Len(pipe[w]) < PipeCap
  BY <1>1, <1>2, <1>3, <1>5, <1>6
<1> QED
  BY <1>7 DEF CanWrite

\* stop() fails only for a thread that is not there any more.
FailInv == \A t \in Thread : stop[t] = "failed" => phase[t] = "failed"

\* FailInv survives every step, when the pipes have the room.
LEMMA FailStep ==
    ASSUME PipeFits, ServerInv, ShutdownInv, CapInv, FailInv, [Next]_vars, [STNext]_stVars
    PROVE  FailInv'
<1> SUFFICES ASSUME NEW t \in Thread, stop'[t] = "failed"
             PROVE  phase'[t] = "failed"
  BY DEF FailInv
<1>1. STTypeInv
  BY DEF ServerInv
<1>2. CASE stop[t] = "failed"
  BY <1>1, <1>2, PhaseForward DEF FailInv
<1>3. CASE stop[t] = "write" /\ StopFail(t)
  <2>1. phase[t] \notin {"new", "spawned"}
    BY <1>3 DEF ShutdownInv, OrderInv, ReadyInv, Initialized
  <2>2. ~HasSockets(t)
    <3>1. CASE t \in Workers
      BY <1>3, <3>1, RoomForAll DEF StopFail
    <3>2. CASE t = Listener
      <4>1. pipe[t] = <<>>
        BY <1>3, <3>2 DEF ShutdownInv, ListenerInv
      <4> QED
        BY <1>3, <4>1, ThreadAssumption DEF StopFail, CanWrite
    <3> QED
      BY <3>1, <3>2, Threads
  <2>3. phase[t] = "failed"
    BY <2>1, <2>2 DEF HasSockets
  <2> QED
    BY <1>3, <2>3 DEF StopFail
<1> QED
  BY <1>1, <1>2, <1>3, StopChanges

\* Both invariants, for the theorems below.
LEMMA RoomAlways ==
    ASSUME ~StartupRace, PipeFits
    PROVE  Spec => [](CapInv /\ FailInv)
<1>1. ASSUME Init
      PROVE  CapInv /\ FailInv
  <2>1. \A w \in Workers : Len(pipe[w]) = 0 /\ Owed(w) = 0 /\ 0 <= Given(w)
    <3>1. \A w \in Workers : Given(w) = 0
      <4>1. \A w \in Workers : GivenTo(w) = {}
        BY <1>1, Threads DEF Init, GivenTo
      <4> QED
        BY <4>1, FS_EmptySet DEF Given, GivenTo
    <3> QED
      BY <1>1, <3>1, Threads DEF Init, STInit, Owed, Pending
  <2> QED
    BY <1>1, <2>1 DEF Init, STInit, CapInv, FailInv
<1>2. ServerInv /\ BalanceInv /\ CapInv /\ [Next]_vars /\ [STNext]_stVars => CapInv'
  BY CapStep
<1>3. ServerInv /\ ShutdownInv /\ CapInv /\ FailInv /\ [Next]_vars /\ [STNext]_stVars => FailInv'
  BY FailStep
<1>4. Spec => []ShutdownInv
  BY ShutdownAlways
<1>5. Init => CapInv /\ FailInv
  BY <1>1
<1> QED
  BY <1>2, <1>3, <1>4, <1>5, ServerAlways, BalanceAlways, PTL DEF Spec

\* "It will make sure threads are exited normally": main destroys no thread
\* object whose run() may still use it.  The argument needs stop() not to
\* return false for want of room: then main would go on without waiting.
THEOREM ExitBeforeFreeCorrect ==
    ASSUME ~StartupRace, PipeFits
    PROVE  Spec => []ThreadsExitBeforeFree
<1>1. ASSUME ServerInv, ShutdownInv, FailInv
      PROVE  ThreadsExitBeforeFree
  <2> SUFFICES ASSUME NEW t \in freed
               PROVE  phase[t] \in {"exited", "gone", "failed"}
    BY DEF ThreadsExitBeforeFree
  <2>1. mainPc \in {"delete", "return", "exited"} /\ t \in Thread
    BY Threads DEF freed
  <2>2. stop[t] \in {"ok", "failed"}
    BY <1>1, <2>1 DEF ShutdownInv, OrderInv, Stopped
  <2> QED
    BY <1>1, <2>1, <2>2 DEF ShutdownInv, StopMeansExited, m_exited, FailInv
<1>2. Spec => []ShutdownInv
  BY ShutdownAlways
<1>3. Spec => [](CapInv /\ FailInv)
  BY RoomAlways
<1> QED
  BY <1>1, <1>2, <1>3, ServerAlways, PTL

-----------------------------------------------------------------------------
(* No connection is dropped.                                               *)

\* No thread has failed to initialize.
NoneFailed == \A t \in Thread : phase[t] # "failed"

\* NoneFailed survives every step, when initEv and socketpair succeed.
LEMMA NoneFailedStep ==
    ASSUME "init" \notin Faults, STTypeInv, NoneFailed, [STNext]_stVars
    PROVE  NoneFailed'
BY PhaseForward DEF NoneFailed

\* Before a signal no thread reads an 'e' or is marked as exiting.
LEMMA NotAskedYet ==
    ASSUME ServerInv, ShutdownInv, ~done, NEW t \in Thread
    PROVE  stop[t] = "none" /\ ~m_processExiting[t] /\ ~ExitRead(t)
<1>1. stop[t] = "none"
  BY DEF ShutdownInv, OrderInv
<1>2. ~m_processExiting[t]
  BY <1>1 DEF ShutdownInv, OrderInv
<1>3. ~Has(pipe[t], "e")
  BY <1>1 DEF ShutdownInv, AskedInv
<1>4. pipe[t] \in Seq({"c", "e"})
  BY DEF ServerInv, STTypeInv, SeqTypes
<1>5. pipe[t] # <<>> => 1 \in DOMAIN pipe[t] /\ Head(pipe[t]) = pipe[t][1]
  BY <1>4
<1>6. ~ExitRead(t)
  BY <1>3, <1>5 DEF ExitRead, Read, Has
<1> QED
  BY <1>1, <1>2, <1>6

\* Before a signal the call of addFdToEvLoop succeeds.
LEMMA AddSucceeds ==
    ASSUME PipeFits, ServerInv, ShutdownInv, CapInv, NoneFailed, ~done, Dispatch
    PROVE  home[dispatch] \in Workers /\ ~AddFails(home[dispatch])
<1> DEFINE to == home[dispatch]
<1>1. dispatch \in Fd /\ conn[dispatch] = "accepted" /\ to \in Workers /\ to \in Thread
  BY Threads DEF Dispatch, ServerInv, ServerTypes, NetTypes, OwnerInv, CallInv, HomeInv
<1>2. Initialized
  BY <1>1 DEF ShutdownInv, ReadyInv
<1>3. HasSockets(to)
  BY <1>1, <1>2 DEF Initialized, NoneFailed, HasSockets
<1>4. stop[to] = "none"
  BY <1>1, NotAskedYet
<1>5. CanWrite(to)
  BY <1>1, <1>3, <1>4, RoomForAll
<1> QED
  BY <1>1, <1>5 DEF AddFails

\* NoneDropped survives every step, when the kernel's calls succeed.
LEMMA DroppedStep ==
    ASSUME "fcntl" \notin Faults, PipeFits,
           ServerInv, ShutdownInv, CapInv, NoneFailed, NoneDropped, [Next]_vars
    PROVE  NoneDropped'
<1> SUFFICES ASSUME ~done', NEW f \in Fd, peer'[f] = "waiting"
             PROVE  conn'[f] \notin {"closed", "leaked", "refused"}
  BY DEF NoneDropped
<1> DEFINE Dropped(c) == c \in {"closed", "leaked", "refused"}
           Goal == ~Dropped(conn'[f])
<1>1. /\ conn \in [Fd -> ConnStates] /\ peer \in [Fd -> {"none", "waiting", "answered", "left"}]
      /\ done \in BOOLEAN
  BY DEF ServerInv, ServerTypes, NetTypes, MainTypes
<1>2. ~done
  BY <1>1
  DEF Next, MainThread, StartThread, Shutdown, StopWorker, ClearWorkers, DeleteServer, Exit,
      InStop, Environment, Clients, Connect, HangUp, Signal, BindFails, ListenerCallback, Dispatch,
      AcceptReturns, ListenerExit, Accept, AcceptLeak, ProcessEvent, FlowReply, WorkerExit, FlowData,
      FlowEnd, ThreadOnly, vars, srvVars, mainVars
<1>3. peer[f] = "waiting" => ~Dropped(conn[f])
  BY <1>2 DEF NoneDropped
<1>4. \A t \in Thread : ~m_processExiting[t] /\ ~ExitRead(t)
  BY <1>2, NotAskedYet
<1>5. ASSUME NEW g \in Fd, Connect(g)
      PROVE  Goal
  BY <1>1, <1>3, <1>5 DEF Connect, Conn, Peer
<1>6. ASSUME NEW g \in Fd, HangUp(g)
      PROVE  Goal
  BY <1>1, <1>3, <1>6 DEF HangUp, Peer
<1>7. ASSUME NEW g \in Fd, Accept(g)
      PROVE  Goal
  BY <1>1, <1>3, <1>7 DEF Accept, Conn
<1>8. CASE Dispatch
  <2>1. UNCHANGED peer /\ ~AddFails(home[dispatch])
    BY <1>2, <1>8, AddSucceeds DEF Dispatch
  <2>2. conn' = conn \/ conn' = [conn EXCEPT ![dispatch] = "queued"]
    BY <1>8, <2>1 DEF Dispatch, Conn
  <2> QED
    BY <1>1, <1>3, <2>1, <2>2
<1>9. ASSUME NEW w \in Workers, ProcessEvent(w)
      PROVE  Goal
  <2>1. ~m_processExiting[w]
    BY <1>4, Threads
  <2>2. UNCHANGED peer /\ conn' = [conn EXCEPT ![Head(queue[w])] = "open"]
    BY <1>9, <2>1 DEF ProcessEvent, NewFlow, Conn
  <2> QED
    BY <1>1, <1>3, <2>2
<1>10. ASSUME NEW w \in Workers, FlowReply(w)
       PROVE  Goal
  BY <1>1, <1>3, <1>10 DEF FlowReply, Peer
<1>11. ASSUME NEW w \in Workers, NEW g \in Fd, FlowData(w, g)
       PROVE  Goal
  BY <1>1, <1>3, <1>11 DEF FlowData
<1>12. ASSUME NEW w \in Workers, NEW g \in Fd, FlowEnd(w, g)
       PROVE  Goal
  <2>1. peer[g] = "left" /\ UNCHANGED peer /\ conn' = [conn EXCEPT ![g] = "closed"]
    BY <1>12 DEF FlowEnd, AtEnd
  <2> QED
    BY <1>1, <1>3, <2>1
<1>13. ~ListenerExit /\ \A w \in Workers : ~WorkerExit(w)
  BY <1>4, Threads DEF ListenerExit, WorkerExit
<1>14. \A g \in Fd : ~AcceptLeak(g)
  BY DEF AcceptLeak
<1>15. CASE UNCHANGED <<conn, peer>>
  BY <1>3, <1>15
<1> QED
  BY <1>5, <1>6, <1>7, <1>8, <1>9, <1>10, <1>11, <1>12, <1>13, <1>14, <1>15
  DEF Next, MainThread, StartThread, Shutdown, StopWorker, ClearWorkers, DeleteServer, Exit,
      InStop, Environment, Clients, Signal, BindFails, ListenerCallback, AcceptReturns, ThreadOnly,
      vars, srvVars, netVars

\* Until it is told to stop, the server closes, forgets and refuses nobody
\* who waits for a reply, if descriptors, memory and the pipes' room suffice.
THEOREM NoneDroppedCorrect ==
    ASSUME ~StartupRace, PipeFits, "init" \notin Faults, "fcntl" \notin Faults
    PROVE  Spec => []NoneDropped
<1>1. Init => NoneFailed /\ NoneDropped
  BY DEF Init, STInit, NoneFailed, NoneDropped
<1>2. ServerInv /\ NoneFailed /\ [STNext]_stVars => NoneFailed'
  BY NoneFailedStep DEF ServerInv
<1>3. ServerInv /\ ShutdownInv /\ CapInv /\ NoneFailed /\ NoneDropped /\ [Next]_vars
        => NoneDropped'
  BY DroppedStep
<1>4. Spec => []ShutdownInv
  BY ShutdownAlways
<1>5. Spec => [](CapInv /\ FailInv)
  BY RoomAlways
<1> QED
  BY <1>1, <1>2, <1>3, <1>4, <1>5, ServerAlways, PTL DEF Spec
-----------------------------------------------------------------------------
(* Leaks.                                                                  *)

\* stop() marks the thread first, and nothing takes the mark back.
MarkedInv == \A t \in Thread : stop[t] # "none" => m_processExiting[t]

\* A client is answered through a flow that data() has marked active, by the
\* worker it was given to.
ServedInv ==
    /\ \A f \in Fd :
        conn[f] \in {"none", "backlog", "accepted", "queued", "open"} => peer[f] # "answered"
    /\ \A w \in Workers :
        serving[w] # NoFd => conn[serving[w]] = "active" /\ home[serving[w]] = w

\* MarkedInv survives every step, and a mark stays.
LEMMA MarkedStep ==
    ASSUME STTypeInv, MarkedInv, [STNext]_stVars
    PROVE  MarkedInv' /\ \A t \in Thread : m_processExiting[t] => m_processExiting'[t]
<1> DEFINE Goal == MarkedInv' /\ \A t \in Thread : m_processExiting[t] => m_processExiting'[t]
<1>1. m_processExiting \in [Thread -> BOOLEAN] /\ stop \in [Thread -> StopStates]
  BY DEF STTypeInv, StateTypes, FlagTypes
<1>2. ASSUME NEW t \in Thread, StopMark(t)
      PROVE  Goal
  BY <1>1, <1>2 DEF StopMark, Stop, MarkedInv
<1>3. ASSUME NEW t \in Thread, StopStep(t) \/ StopSpurious(t)
      PROVE  Goal
  <2>1. /\ stop[t] # "none" /\ UNCHANGED m_processExiting
        /\ \A u \in Thread : u # t => stop'[u] = stop[u]
    BY <1>3, StopMoves
  <2> QED
    BY <1>1, <2>1 DEF MarkedInv
<1>4. ASSUME NEW t \in Thread, Notify(t)
      PROVE  Goal
  BY <1>1, <1>4, NotifyMoves DEF MarkedInv
<1>5. CASE UNCHANGED <<stop, m_processExiting>>
  BY <1>5 DEF MarkedInv
<1> QED
  BY <1>2, <1>3, <1>4, <1>5
  DEF STNext, LoopStep, Start, RunInit, RunFail, ExitRead, WakeRead, DrainLock, DrainNext,
      DrainDone, CallbackBegin, CallbackEnd, Leave, AddWrite, AddPush, stVars

\* The marks, for the proof below.
LEMMA MarkedAlways == Spec => []MarkedInv
<1>1. Init => MarkedInv
  BY DEF Init, STInit, MarkedInv
<1>2. ServerInv => STTypeInv
  BY DEF ServerInv
<1> QED
  BY <1>1, <1>2, MarkedStep, ServerAlways, PTL DEF Spec

\* A worker that reads an 'e' has been marked.
LEMMA ExitIsMarked ==
    ASSUME ServerInv, AskedInv, MarkedInv, NEW w \in Workers, WorkerExit(w)
    PROVE  m_processExiting[w] /\ serving[w] = NoFd
<1>1. w \in Thread /\ pipe[w] \in Seq({"c", "e"}) /\ evPc[w] = "poll"
  BY Threads DEF ServerInv, STTypeInv, SeqTypes, WorkerExit, ExitRead, Loop
<1>2. pipe[w] # <<>> /\ Head(pipe[w]) = "e"
  BY DEF WorkerExit, ExitRead, Read
<1>3. Has(pipe[w], "e")
  BY <1>1, <1>2 DEF Has
<1> QED
  BY <1>1, <1>3 DEF AskedInv, MarkedInv, ServerInv, ServingInv

\* ServedInv and LeaksAreUnserved survive every step: what is forgotten is
\* forgotten before data() marks it active.
LEMMA LeakStep ==
    ASSUME ServerInv, AskedInv, MarkedInv, ServedInv, LeaksAreUnserved, [Next]_vars, [STNext]_stVars
    PROVE  ServedInv' /\ LeaksAreUnserved'
<1> DEFINE Goal == ServedInv' /\ LeaksAreUnserved'
<1>1. /\ conn \in [Fd -> ConnStates] /\ home \in [Fd -> Workers \cup {NoWorker}]
      /\ peer \in [Fd -> {"none", "waiting", "answered", "left"}]
      /\ serving \in [Workers -> Fd \cup {NoFd}] /\ dispatch \in Fd \cup {NoFd}
      /\ m_tcpSessions \in [Workers -> SUBSET Fd]
  BY DEF ServerInv, ServerTypes, NetTypes, FlowTypes
<1>2. /\ CallInv /\ HomeInv /\ SessionInv /\ ServingInv
      /\ \A t \in Thread : m_processExiting[t] => m_processExiting'[t]
  BY MarkedStep DEF ServerInv, OwnerInv
<1>3. \A w \in Workers : w \in Thread /\ w # NoWorker
  BY Threads
<1> USE DEF ServedInv, LeaksAreUnserved, ConnStates
<1>4. CASE UNCHANGED <<conn, peer, home, serving>>
  BY <1>1, <1>2, <1>3, <1>4
<1>5. ASSUME NEW f \in Fd, Connect(f)
      PROVE  Goal
  BY <1>1, <1>2, <1>3, <1>5 DEF Connect, Conn, Peer, flowVars
<1>6. ASSUME NEW f \in Fd, HangUp(f)
      PROVE  Goal
  BY <1>1, <1>2, <1>3, <1>6 DEF HangUp, Peer, flowVars
<1>7. ASSUME NEW f \in Fd, AcceptLeak(f)
      PROVE  Goal
  BY <1>1, <1>2, <1>3, <1>7 DEF AcceptLeak, Conn, HomeInv, flowVars
<1>8. ASSUME NEW f \in Fd, Accept(f)
      PROVE  Goal
  <2>1. /\ conn[f] = "backlog" /\ conn' = [conn EXCEPT ![f] = "accepted"]
        /\ \A g \in Fd : g # f => home'[g] = home[g]
        /\ UNCHANGED <<peer, serving>>
    BY <1>1, <1>8 DEF Accept, Conn, flowVars
  <2> QED
    BY <1>1, <1>2, <1>3, <2>1
<1>9. CASE Dispatch
  <2>1. /\ dispatch \in Fd /\ UNCHANGED <<peer, home, serving>>
        /\ \/ UNCHANGED conn
           \/ /\ conn[dispatch] = "accepted"
              /\ \E c \in {"queued", "closed"} : conn' = [conn EXCEPT ![dispatch] = c]
    BY <1>1, <1>9 DEF Dispatch, CloseFailed, Conn, flowVars
  <2> QED
    BY <1>1, <1>2, <1>3, <2>1
<1>10. CASE ListenerExit
  BY <1>1, <1>2, <1>3, <1>10 DEF ListenerExit, flowVars
<1>11. ASSUME NEW w \in Workers, ProcessEvent(w)
       PROVE  Goal
  <2>1. \E fd \in Fd :
           /\ conn[fd] = "queued" /\ home[fd] = w
           /\ \/ m_processExiting[w] /\ conn' = [conn EXCEPT ![fd] = "leaked"]
              \/ conn' = [conn EXCEPT ![fd] = "open"]
           /\ UNCHANGED <<home, serving, peer>>
    BY <1>11, ProcessedFd DEF ServerInv, OwnerInv
  <2> QED
    BY <1>1, <1>2, <1>3, <2>1
<1>12. ASSUME NEW w \in Workers, WorkerExit(w)
       PROVE  Goal
  <2>1. m_processExiting[w] /\ serving[w] = NoFd
    BY <1>12, ExitIsMarked
  <2>2. \A f \in Fd : conn'[f] = IF conn[f] \in {"open", "active"} /\ home[f] = w
                                 THEN IF conn[f] = "active" THEN "closed" ELSE "leaked"
                                 ELSE conn[f]
    BY <1>2, <1>12 DEF WorkerExit, SessionInv
  <2>3. UNCHANGED <<peer, home, serving>>
    BY <1>12 DEF WorkerExit
  <2>4. LeaksAreUnserved'
    BY <1>1, <1>2, <1>3, <2>1, <2>2, <2>3
  <2>5. ServedInv'
    BY <1>1, <2>1, <2>2, <2>3
  <2> QED
    BY <2>4, <2>5
<1>13. ASSUME NEW w \in Workers, NEW f \in Fd, FlowData(w, f)
       PROVE  Goal
  BY <1>1, <1>2, <1>3, <1>13 DEF FlowData, SessionInv
<1>14. ASSUME NEW w \in Workers, FlowReply(w)
       PROVE  Goal
  <2>1. /\ serving[w] \in Fd /\ conn[serving[w]] = "active"
        /\ serving' = [serving EXCEPT ![w] = NoFd]
        /\ peer' = [peer EXCEPT ![serving[w]] = "answered"] \/ UNCHANGED peer
        /\ UNCHANGED <<conn, home>>
    BY <1>1, <1>14 DEF FlowReply, Peer
  <2> QED
    BY <1>1, <1>2, <1>3, <2>1
<1>15. ASSUME NEW w \in Workers, NEW f \in Fd, FlowEnd(w, f)
       PROVE  Goal
  <2>1. /\ conn' = [conn EXCEPT ![f] = "closed"] /\ home[f] = w /\ evPc[w] = "poll"
        /\ UNCHANGED <<peer, home, serving>>
    BY <1>2, <1>15 DEF FlowEnd, SessionInv
  <2>2. \A v \in Workers : serving[v] # NoFd => serving[v] # f
    BY <1>2, <2>1 DEF ServingInv
  <2> QED
    BY <1>1, <1>2, <1>3, <2>1, <2>2
<1> HIDE DEF ServedInv, LeaksAreUnserved, ConnStates
<1> QED
  BY <1>4, <1>5, <1>6, <1>7, <1>8, <1>9, <1>10, <1>11, <1>12, <1>13, <1>14, <1>15
  DEF Next, MainThread, StartThread, Shutdown, StopWorker, ClearWorkers, DeleteServer, Exit,
      InStop, Environment, Clients, Signal, BindFails, ListenerCallback, AcceptReturns,
      ThreadOnly, vars, srvVars, netVars, flowVars

\* A descriptor that the server forgets without closing it is never that of a
\* client with a reply, and none is forgotten by a worker that was not told to
\* stop, whatever fails and wherever a stop comes.
THEOREM LeaksAreUnservedCorrect == Spec => []LeaksAreUnserved
<1>1. Init => ServedInv /\ LeaksAreUnserved
  BY DEF Init, ServedInv, LeaksAreUnserved
<1>2. Spec => []AskedInv
  BY ServerUsesThreads, AskedAlways, PTL DEF IsServiceThreads
<1>3. ServerInv /\ AskedInv /\ MarkedInv /\ ServedInv /\ LeaksAreUnserved
        /\ [Next]_vars /\ [STNext]_stVars => ServedInv' /\ LeaksAreUnserved'
  BY LeakStep
<1> QED
  BY <1>1, <1>2, <1>3, MarkedAlways, ServerAlways, PTL DEF Spec

=============================================================================
