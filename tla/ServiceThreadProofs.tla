------------------------ MODULE ServiceThreadProofs ------------------------
(***************************************************************************)
(* Proofs about ServiceThread, for any threads, descriptors and pipe       *)
(* capacity: types, stop() returns true only for a thread that has left    *)
(* its loop, no descriptor is stranded in a queue, and stop() never misses *)
(* the notification it waits for.  The last two need that no write through *)
(* unset m_sockets succeeds ("stray" \notin Faults).                       *)
(***************************************************************************)
EXTENDS ServiceThread, TLAPS

-----------------------------------------------------------------------------
(* Bytes in a pipe.                                                        *)

Has(s, b) == \E i \in DOMAIN s : s[i] = b

\* Appending a byte adds that byte and loses none.
LEMMA HasAppend ==
    ASSUME NEW S, NEW s \in Seq(S), NEW b \in S, NEW x
    PROVE  Has(Append(s, b), x) <=> Has(s, x) \/ x = b
<1>1. Append(s, b) \in Seq(S) /\ Len(Append(s, b)) = Len(s) + 1
  OBVIOUS
<1>2. \A i \in 1 .. Len(s) : Append(s, b)[i] = s[i]
  OBVIOUS
<1>3. Append(s, b)[Len(s) + 1] = b
  OBVIOUS
<1>4. DOMAIN s = 1 .. Len(s) /\ DOMAIN Append(s, b) = 1 .. Len(s) + 1 /\ Len(s) \in Nat
  BY <1>1
<1> QED
  BY <1>2, <1>3, <1>4 DEF Has

\* Reading a byte loses only the first.
LEMMA HasTail ==
    ASSUME NEW S, NEW s \in Seq(S), s # <<>>, NEW x
    PROVE  /\ Has(s, x) => x = Head(s) \/ Has(Tail(s), x)
           /\ Has(Tail(s), x) => Has(s, x)
<1>1. Len(s) \in Nat /\ Len(s) > 0 /\ DOMAIN s = 1 .. Len(s) /\ Head(s) = s[1]
  OBVIOUS
<1>2. DOMAIN Tail(s) = 1 .. Len(s) - 1
  BY <1>1
<1>3. \A i \in 1 .. Len(s) - 1 : Tail(s)[i] = s[i + 1]
  BY <1>1
<1>4. ASSUME Has(s, x), x # Head(s) PROVE Has(Tail(s), x)
  <2>1. PICK i \in 1 .. Len(s) : s[i] = x
    BY <1>1, <1>4 DEF Has
  <2>2. i - 1 \in 1 .. Len(s) - 1 /\ Tail(s)[i - 1] = x
    BY <1>1, <1>3, <1>4, <2>1
  <2> QED
    BY <1>2, <2>2 DEF Has
<1>5. ASSUME Has(Tail(s), x) PROVE Has(s, x)
  <2>1. PICK i \in 1 .. Len(s) - 1 : Tail(s)[i] = x
    BY <1>2, <1>5 DEF Has
  <2>2. i + 1 \in 1 .. Len(s) /\ s[i + 1] = x
    BY <1>1, <1>3, <2>1
  <2> QED
    BY <1>1, <2>2 DEF Has
<1> QED
  BY <1>4, <1>5

-----------------------------------------------------------------------------
(* Types, in three groups that different actions disturb.  A descriptor is *)
(* pushed only by a call that still holds it.                              *)

SeqTypes ==
    /\ pipe \in [Thread -> Seq({"c", "e"})]
    /\ queue \in [Thread -> Seq(Fd)]
    /\ adding \in [Thread -> Fd \cup {NoFd}]
    /\ \A t \in Thread : lock[t] = "add" => adding[t] \in Fd

StateTypes ==
    /\ phase \in [Thread -> Phases]
    /\ lock \in [Thread -> {"free", "loop", "add"}]
    /\ evPc \in [Thread -> {"poll", "lock", "drain", "busy"}]
    /\ stop \in [Thread -> StopStates]

FlagTypes ==
    /\ m_processExiting \in [Thread -> BOOLEAN]
    /\ stopMtx \in BOOLEAN

STTypeInv == SeqTypes /\ StateTypes /\ FlagTypes

\* Initially the types are right.
LEMMA STTypeInit == STInit => STTypeInv
<1>1. STInit => SeqTypes
  BY DEF STInit, SeqTypes
<1>2. STInit => StateTypes
  BY DEF STInit, StateTypes, Phases, StopStates
<1>3. STInit => FlagTypes
  BY DEF STInit, FlagTypes
<1> QED
  BY <1>1, <1>2, <1>3 DEF STTypeInv

\* Bytes are read from the pipe, or a 'c' or an 'e' is appended; descriptors
\* are popped from the queue, or the one of addFdToEvLoop is pushed.
LEMMA SeqStep == STTypeInv /\ [STNext]_stVars => SeqTypes'
<1> SUFFICES ASSUME SeqTypes, StateTypes, [STNext]_stVars
             PROVE  SeqTypes'
  BY DEF STTypeInv
<1> USE DEF SeqTypes, StateTypes
<1>1. ASSUME NEW t \in Thread, ExitRead(t) \/ WakeRead(t)
      PROVE  SeqTypes'
  <2>1. pipe[t] \in Seq({"c", "e"}) /\ pipe[t] # <<>> /\ pipe' = [pipe EXCEPT ![t] = Tail(pipe[t])]
    BY <1>1 DEF ExitRead, WakeRead, Read
  <2>2. Tail(pipe[t]) \in Seq({"c", "e"})
    BY <2>1
  <2> QED
    BY <1>1, <2>1, <2>2 DEF ExitRead, WakeRead, Loop
<1>2. ASSUME NEW t \in Thread, DrainNext(t)
      PROVE  SeqTypes'
  <2>1. queue[t] \in Seq(Fd) /\ queue[t] # <<>>
    BY <1>2 DEF DrainNext
  <2>2. Tail(queue[t]) \in Seq(Fd)
    BY <2>1
  <2> QED
    BY <1>2, <2>2 DEF DrainNext, Loop
<1>3. ASSUME NEW t \in Thread, DrainLock(t) \/ DrainDone(t)
      PROVE  SeqTypes'
  BY <1>3 DEF DrainLock, DrainDone, Loop
<1>4. ASSUME NEW t \in Thread, NEW fd \in Fd, AddWrite(t, fd)
      PROVE  SeqTypes'
  <2>1. Append(pipe[t], "c") \in Seq({"c", "e"})
    OBVIOUS
  <2> QED
    BY <1>4, <2>1 DEF AddWrite, Write
<1>5. ASSUME NEW t \in Thread, AddPush(t)
      PROVE  SeqTypes'
  <2>1. Append(queue[t], adding[t]) \in Seq(Fd)
    BY <1>5 DEF AddPush
  <2> QED
    BY <1>5, <2>1 DEF AddPush
<1>6. ASSUME NEW t \in Thread, StopWrite(t)
      PROVE  SeqTypes'
  <2>1. Append(pipe[t], "e") \in Seq({"c", "e"})
    OBVIOUS
  <2> QED
    BY <1>6, <2>1 DEF StopWrite, Write
<1>7. CASE UNCHANGED <<pipe, queue, adding, lock>>
  BY <1>7
<1> QED
  BY <1>1, <1>2, <1>3, <1>4, <1>5, <1>6, <1>7
  DEF STNext, LoopStep, StopStep, Start, RunInit, RunFail, CallbackBegin, CallbackEnd, Leave,
      Notify, StopMark, StopFail, StopCheck, StopBlock, StopSpurious, stVars

\* Every step moves the program counters between states they have.
LEMMA StateStep == STTypeInv /\ [STNext]_stVars => StateTypes'
<1> SUFFICES ASSUME StateTypes, [STNext]_stVars
             PROVE  StateTypes'
  BY DEF STTypeInv
<1> USE DEF StateTypes, Phases, StopStates
<1>1. ASSUME NEW t \in Thread,
             Start(t) \/ RunInit(t) \/ RunFail(t) \/ ExitRead(t) \/ Leave(t) \/ Notify(t)
      PROVE  StateTypes'
  BY <1>1 DEF Start, RunInit, RunFail, ExitRead, Leave, Notify, Phase, Loop
<1>2. ASSUME NEW t \in Thread,
             WakeRead(t) \/ DrainLock(t) \/ DrainNext(t) \/ DrainDone(t)
             \/ CallbackBegin(t) \/ CallbackEnd(t)
      PROVE  StateTypes'
  BY <1>2 DEF WakeRead, DrainLock, DrainNext, DrainDone, CallbackBegin, CallbackEnd, Loop
<1>3. ASSUME NEW t \in Thread, NEW fd, AddWrite(t, fd) \/ AddPush(t)
      PROVE  StateTypes'
  BY <1>3 DEF AddWrite, AddPush
<1>4. ASSUME NEW t \in Thread,
             StopMark(t) \/ StopStep(t) \/ StopSpurious(t)
      PROVE  StateTypes'
  BY <1>4 DEF StopMark, StopStep, StopWrite, StopFail, StopCheck, StopBlock, StopSpurious, Stop
<1>5. CASE UNCHANGED stVars
  BY <1>5 DEF stVars
<1> QED
  BY <1>1, <1>2, <1>3, <1>4, <1>5 DEF STNext, LoopStep

\* The two flags stay Boolean.
LEMMA FlagStep == STTypeInv /\ [STNext]_stVars => FlagTypes'
<1> SUFFICES ASSUME FlagTypes, [STNext]_stVars
             PROVE  FlagTypes'
  BY DEF STTypeInv
<1>1. ASSUME NEW t \in Thread, StopMark(t)
      PROVE  FlagTypes'
  BY <1>1 DEF StopMark, FlagTypes
<1>2. ASSUME NEW t \in Thread, StopCheck(t) \/ StopBlock(t)
      PROVE  FlagTypes'
  BY <1>2 DEF StopCheck, StopBlock, FlagTypes
<1>3. CASE UNCHANGED <<m_processExiting, stopMtx>>
  BY <1>3 DEF FlagTypes
<1> QED
  BY <1>1, <1>2, <1>3
  DEF STNext, LoopStep, StopStep, Start, RunInit, RunFail, ExitRead, WakeRead, DrainLock,
      DrainNext, DrainDone, CallbackBegin, CallbackEnd, Leave, Notify, AddWrite, AddPush,
      StopWrite, StopFail, StopSpurious, stVars

\* The invariant, for the proofs below and those of the server.
LEMMA STTypeAlways == STSpec => []STTypeInv
<1>1. STTypeInv /\ [STNext]_stVars => STTypeInv'
  BY SeqStep, StateStep, FlagStep DEF STTypeInv
<1> QED
  BY <1>1, STTypeInit, PTL DEF STSpec

\* Every variable of a service thread keeps its type, whatever fails.
THEOREM STTypeCorrect == STSpec => []STTypeOK
<1>1. STTypeInv => STTypeOK
  BY DEF STTypeInv, SeqTypes, StateTypes, FlagTypes, STTypeOK
<1> QED
  BY <1>1, STTypeAlways, PTL

-----------------------------------------------------------------------------
(* What stop() tells.                                                      *)

\* A thread that has left its loop does not enter it again, and stop() says
\* "ok" only after a look at m_exited.
LEMMA StopTellsStep == STTypeInv /\ StopMeansExited /\ [STNext]_stVars => StopMeansExited'
<1> SUFFICES ASSUME STTypeInv, StopMeansExited, [STNext]_stVars
             PROVE  StopMeansExited'
  OBVIOUS
<1>1. phase \in [Thread -> Phases] /\ stop \in [Thread -> StopStates]
  BY DEF STTypeInv, StateTypes
<1>2. ASSUME NEW t \in Thread,
             Start(t) \/ RunInit(t) \/ RunFail(t) \/ ExitRead(t) \/ Leave(t)
      PROVE  StopMeansExited'
  BY <1>1, <1>2
  DEF Start, RunInit, RunFail, ExitRead, Leave, Phase, Loop, Looping, StopMeansExited, m_exited
<1>3. ASSUME NEW t \in Thread, Notify(t)
      PROVE  StopMeansExited'
  BY <1>1, <1>3 DEF Notify, Phase, StopMeansExited, m_exited
<1>4. ASSUME NEW t \in Thread,
             StopMark(t) \/ StopWrite(t) \/ StopFail(t) \/ StopBlock(t) \/ StopSpurious(t)
      PROVE  StopMeansExited'
  BY <1>1, <1>4
  DEF StopMark, StopWrite, StopFail, StopBlock, StopSpurious, Stop, StopMeansExited, m_exited
<1>5. ASSUME NEW t \in Thread, StopCheck(t)
      PROVE  StopMeansExited'
  BY <1>1, <1>5 DEF StopCheck, Stop, StopMeansExited, m_exited
<1>6. CASE UNCHANGED <<phase, stop>>
  BY <1>6 DEF StopMeansExited, m_exited
<1> QED
  BY <1>2, <1>3, <1>4, <1>5, <1>6
  DEF STNext, LoopStep, StopStep, WakeRead, DrainLock, DrainNext, DrainDone, CallbackBegin,
      CallbackEnd, AddWrite, AddPush, stVars

\* stop() returns true only when the thread is out of its loop, however its
\* wait was woken.
THEOREM StopMeansExitedCorrect == STSpec => []StopMeansExited
<1>1. STInit => StopMeansExited
  BY DEF STInit, StopMeansExited
<1> QED
  BY <1>1, STTypeAlways, StopTellsStep, PTL DEF STSpec

-----------------------------------------------------------------------------
(* No stranded descriptor.                                                 *)

\* The lock is the loop's exactly while it drains; and from the moment
\* addFdToEvLoop has written its byte until the queue is empty again, the
\* loop has a reason to look at the queue.
DrainInv ==
    \A t \in Thread :
        /\ lock[t] = "loop" <=> evPc[t] = "drain"
        /\ lock[t] = "add" \/ queue[t] # <<>> => WillDrain(t)

\* With its byte in the pipe, or read and the drain not over, the loop drains.
LEMMA WillDrainHas ==
    ASSUME NEW t \in Thread
    PROVE  WillDrain(t) <=> Has(pipe[t], "c") \/ evPc[t] \in {"lock", "drain"}
BY DEF WillDrain, InPipe, Has

\* A byte appended for whatever thread keeps the reasons to drain.
LEMMA WritesKeepBytes ==
    ASSUME STTypeInv, NEW u \in Thread, NEW b \in {"c", "e"}, Write(u, b), NEW t \in Thread, NEW x
    PROVE  /\ Has(pipe[t], x) => Has(pipe'[t], x)
           /\ Has(pipe'[u], b)
<1>1. pipe'[t] = IF t = u THEN Append(pipe[u], b) ELSE pipe[t]
  BY DEF STTypeInv, SeqTypes, Write
<1>2. pipe'[u] = Append(pipe[u], b) /\ pipe[u] \in Seq({"c", "e"})
  BY DEF STTypeInv, SeqTypes, Write
<1> QED
  BY <1>1, <1>2, HasAppend

\* Reading a byte loses no other byte.
LEMMA ReadsKeepOthers ==
    ASSUME STTypeInv, NEW u \in Thread, NEW b, Read(u, b), NEW t \in Thread, NEW x,
           t # u \/ x # b
    PROVE  Has(pipe[t], x) => Has(pipe'[t], x)
<1>1. pipe[u] \in Seq({"c", "e"}) /\ pipe[u] # <<>> /\ Head(pipe[u]) = b
  BY DEF STTypeInv, SeqTypes, Read
<1>2. pipe'[t] = IF t = u THEN Tail(pipe[u]) ELSE pipe[t]
  BY DEF STTypeInv, SeqTypes, Read
<1> QED
  BY <1>1, <1>2, HasTail

\* DrainInv survives every step if writes through unset m_sockets fail.
LEMMA DrainStep ==
    ASSUME "stray" \notin Faults
    PROVE  STTypeInv /\ DrainInv /\ [STNext]_stVars => DrainInv'
<1> SUFFICES ASSUME STTypeInv, DrainInv, [STNext]_stVars, NEW t \in Thread
             PROVE  /\ (lock[t] = "loop" <=> evPc[t] = "drain")'
                    /\ (lock[t] = "add" \/ queue[t] # <<>> => WillDrain(t))'
  BY DEF DrainInv
<1> DEFINE Goal == /\ (lock[t] = "loop" <=> evPc[t] = "drain")'
                   /\ (lock[t] = "add" \/ queue[t] # <<>> => WillDrain(t))'
<1>1. /\ lock[t] = "loop" <=> evPc[t] = "drain"
      /\ lock[t] = "add" \/ queue[t] # <<>> =>
            Has(pipe[t], "c") \/ evPc[t] \in {"lock", "drain"}
  BY WillDrainHas DEF DrainInv
<1>2. WillDrain(t)' <=> Has(pipe'[t], "c") \/ evPc'[t] \in {"lock", "drain"}
  BY DEF WillDrain, InPipe, Has
<1>3. /\ lock \in [Thread -> {"free", "loop", "add"}]
      /\ evPc \in [Thread -> {"poll", "lock", "drain", "busy"}]
      /\ queue \in [Thread -> Seq(Fd)]
  BY DEF STTypeInv, StateTypes, SeqTypes
<1>4. ASSUME NEW u \in Thread, ExitRead(u)
      PROVE  Goal
  <2>1. Has(pipe[t], "c") => Has(pipe'[t], "c")
    BY <1>4, ReadsKeepOthers DEF ExitRead
  <2> QED
    BY <1>1, <1>2, <1>3, <1>4, <2>1 DEF ExitRead, Loop
<1>5. ASSUME NEW u \in Thread, WakeRead(u)
      PROVE  Goal
  <2>1. t # u => (Has(pipe[t], "c") => Has(pipe'[t], "c"))
    BY <1>5, ReadsKeepOthers DEF WakeRead
  <2> QED
    BY <1>1, <1>2, <1>3, <1>5, <2>1 DEF WakeRead, Loop
<1>6. ASSUME NEW u \in Thread, DrainLock(u) \/ DrainNext(u) \/ DrainDone(u)
      PROVE  Goal
  BY <1>1, <1>2, <1>3, <1>6 DEF DrainLock, DrainNext, DrainDone, Loop
<1>7. ASSUME NEW u \in Thread, CallbackBegin(u) \/ CallbackEnd(u)
      PROVE  Goal
  BY <1>1, <1>2, <1>3, <1>7 DEF CallbackBegin, CallbackEnd, Loop
<1>8. ASSUME NEW u \in Thread, NEW fd \in Fd, AddWrite(u, fd)
      PROVE  Goal
  <2>1. Write(u, "c")
    BY <1>8 DEF AddWrite, StrayWrite
  <2>2. Has(pipe'[u], "c") /\ (Has(pipe[t], "c") => Has(pipe'[t], "c"))
    BY <2>1, WritesKeepBytes
  <2> QED
    BY <1>1, <1>2, <1>3, <1>8, <2>2 DEF AddWrite
<1>9. ASSUME NEW u \in Thread, AddPush(u)
      PROVE  Goal
  BY <1>1, <1>2, <1>3, <1>9 DEF AddPush
<1>10. ASSUME NEW u \in Thread, StopWrite(u)
       PROVE  Goal
  <2>1. Write(u, "e")
    BY <1>10 DEF StopWrite, StrayWrite
  <2>2. Has(pipe[t], "c") => Has(pipe'[t], "c")
    BY <2>1, WritesKeepBytes
  <2> QED
    BY <1>1, <1>2, <1>3, <1>10, <2>2 DEF StopWrite
<1>11. CASE UNCHANGED <<lock, evPc, queue, pipe>>
  BY <1>1, <1>2, <1>11
<1> QED
  BY <1>4, <1>5, <1>6, <1>7, <1>8, <1>9, <1>10, <1>11
  DEF STNext, LoopStep, StopStep, Start, RunInit, RunFail, Leave, Notify, StopMark, StopFail,
      StopCheck, StopBlock, StopSpurious, stVars

\* The invariant, for the theorem and the proofs of the server.
LEMMA DrainAlways ==
    ASSUME "stray" \notin Faults
    PROVE  STSpec => []DrainInv
<1>1. STInit => DrainInv
  BY DEF STInit, DrainInv
<1> QED
  BY <1>1, STTypeAlways, DrainStep, PTL DEF STSpec

\* Whatever the interleaving of addFdToEvLoop and onEvent, a descriptor that
\* waits in the queue is announced: writing the byte before pushing is safe
\* because both are done under m_threadCtxMtx.
THEOREM NoStrandedCorrect ==
    ASSUME "stray" \notin Faults
    PROVE  STSpec => []NoStrandedFd
<1>1. DrainInv => NoStrandedFd
  BY DEF DrainInv, NoStrandedFd
<1> QED
  BY <1>1, DrainAlways, PTL

-----------------------------------------------------------------------------
(* No missed notification.                                                 *)

\* A stop() past its write has its 'e' on the way or done its work, and only
\* the one that holds m_threadStopMtx is between its test and its wait; so
\* the thread cannot take the mutex to notify in that window.
NotifyInv ==
    /\ \A t \in Thread :
        /\ stop[t] \in {"check", "blocking", "waiting"} =>
              Has(pipe[t], "e") \/ phase[t] \in {"leaving", "exited", "gone"}
        /\ stop[t] \in {"blocking", "waiting"} => phase[t] # "gone"
    /\ \A t \in Thread : stop[t] = "blocking" => stopMtx
    /\ \A t, u \in Thread : stop[t] = "blocking" /\ stop[u] = "blocking" => t = u

\* NotifyInv survives every step if writes through unset m_sockets fail.
LEMMA NotifyStep ==
    ASSUME "stray" \notin Faults
    PROVE  STTypeInv /\ NotifyInv /\ [STNext]_stVars => NotifyInv'
<1> SUFFICES ASSUME STTypeInv, NotifyInv, [STNext]_stVars
             PROVE  NotifyInv'
  OBVIOUS
<1>1. /\ phase \in [Thread -> Phases]
      /\ stop \in [Thread -> StopStates]
  BY DEF STTypeInv, StateTypes
<1>2. ASSUME NEW t \in Thread,
             Start(t) \/ RunInit(t) \/ RunFail(t) \/ Leave(t)
      PROVE  NotifyInv'
  BY <1>1, <1>2 DEF Start, RunInit, RunFail, Leave, Phase, NotifyInv
<1>3. ASSUME NEW t \in Thread, Notify(t)
      PROVE  NotifyInv'
  BY <1>1, <1>3 DEF Notify, Phase, NotifyInv
<1>4. ASSUME NEW t \in Thread, ExitRead(t)
      PROVE  NotifyInv'
  <2>1. \A u \in Thread : u # t => (Has(pipe[u], "e") => Has(pipe'[u], "e"))
    BY <1>4, ReadsKeepOthers DEF ExitRead
  <2> QED
    BY <1>1, <1>4, <2>1 DEF ExitRead, Loop, NotifyInv
<1>5. ASSUME NEW t \in Thread, WakeRead(t)
      PROVE  NotifyInv'
  <2>1. \A u \in Thread : Has(pipe[u], "e") => Has(pipe'[u], "e")
    BY <1>5, ReadsKeepOthers DEF WakeRead
  <2> QED
    BY <1>5, <2>1 DEF WakeRead, NotifyInv
<1>6. ASSUME NEW t \in Thread, NEW fd \in Fd, AddWrite(t, fd)
      PROVE  NotifyInv'
  <2>1. Write(t, "c")
    BY <1>6 DEF AddWrite, StrayWrite
  <2>2. \A u \in Thread : Has(pipe[u], "e") => Has(pipe'[u], "e")
    BY <2>1, WritesKeepBytes
  <2> QED
    BY <1>6, <2>2 DEF AddWrite, NotifyInv
<1>7. ASSUME NEW t \in Thread, StopWrite(t)
      PROVE  NotifyInv'
  <2>1. Write(t, "e")
    BY <1>7 DEF StopWrite, StrayWrite
  <2>2. Has(pipe'[t], "e") /\ \A u \in Thread : Has(pipe[u], "e") => Has(pipe'[u], "e")
    BY <2>1, WritesKeepBytes
  <2> QED
    BY <1>1, <1>7, <2>2 DEF StopWrite, Stop, NotifyInv
<1>8. ASSUME NEW t \in Thread, StopMark(t) \/ StopFail(t)
      PROVE  NotifyInv'
  BY <1>1, <1>8 DEF StopMark, StopFail, Stop, NotifyInv
<1>9. ASSUME NEW t \in Thread, StopCheck(t)
      PROVE  NotifyInv'
  BY <1>1, <1>9 DEF StopCheck, Stop, m_exited, NotifyInv
<1>10. ASSUME NEW t \in Thread, StopBlock(t) \/ StopSpurious(t)
       PROVE  NotifyInv'
  BY <1>1, <1>10 DEF StopBlock, StopSpurious, Stop, NotifyInv
<1>11. CASE UNCHANGED <<phase, pipe, stop, stopMtx>>
  BY <1>11 DEF NotifyInv
<1> QED
  BY <1>2, <1>3, <1>4, <1>5, <1>6, <1>7, <1>8, <1>9, <1>10, <1>11
  DEF STNext, LoopStep, StopStep, DrainLock, DrainNext, DrainDone, CallbackBegin, CallbackEnd,
      AddPush, stVars

\* stop() never sleeps through the one notify_one of its thread, and the byte
\* that makes the thread exit is in the pipe while it sleeps.
THEOREM NoMissedNotifyCorrect ==
    ASSUME "stray" \notin Faults
    PROVE  STSpec => []NoMissedNotify
<1>1. STInit => NotifyInv
  BY DEF STInit, NotifyInv
<1>2. NotifyInv => NoMissedNotify
  BY DEF NotifyInv, NoMissedNotify, InPipe, Has
<1> QED
  BY <1>1, <1>2, STTypeAlways, NotifyStep, PTL DEF STSpec

-----------------------------------------------------------------------------
(* Exit is asked for.                                                      *)

\* An 'e' comes from a stop() that has not returned false, and a thread leaves
\* its loop only for one.
AskedInv == \A t \in Thread :
    Has(pipe[t], "e") \/ phase[t] \in {"leaving", "exited", "gone"}
        => stop[t] \in {"check", "blocking", "waiting", "ok"}

\* AskedInv survives every step, whatever fails.
LEMMA AskedStep == STTypeInv /\ AskedInv /\ [STNext]_stVars => AskedInv'
<1> SUFFICES ASSUME STTypeInv, AskedInv, [STNext]_stVars
             PROVE  AskedInv'
  OBVIOUS
<1>1. phase \in [Thread -> Phases] /\ stop \in [Thread -> StopStates]
  BY DEF STTypeInv, StateTypes
<1>2. ASSUME NEW t \in Thread, Start(t) \/ RunInit(t) \/ RunFail(t) \/ Leave(t)
      PROVE  AskedInv'
  BY <1>1, <1>2 DEF Start, RunInit, RunFail, Leave, Phase, AskedInv
<1>3. ASSUME NEW t \in Thread, Notify(t)
      PROVE  AskedInv'
  BY <1>1, <1>3 DEF Notify, Phase, AskedInv
<1>4. ASSUME NEW t \in Thread, ExitRead(t) \/ WakeRead(t)
      PROVE  AskedInv'
  <2>1. /\ pipe[t] \in Seq({"c", "e"}) /\ pipe[t] # <<>> /\ UNCHANGED stop
        /\ \A u \in Thread : pipe'[u] = IF u = t THEN Tail(pipe[t]) ELSE pipe[u]
    BY <1>4 DEF ExitRead, WakeRead, Read, STTypeInv, SeqTypes
  <2>2. \A u \in Thread : Has(pipe'[u], "e") => Has(pipe[u], "e")
    BY <2>1, HasTail
  <2>3. CASE WakeRead(t)
    BY <2>1, <2>2, <2>3 DEF WakeRead, AskedInv
  <2>4. CASE ExitRead(t)
    <3>1. Has(pipe[t], "e")
      BY <2>1, <2>4 DEF ExitRead, Read, Has
    <3> QED
      BY <1>1, <2>1, <2>2, <2>4, <3>1 DEF ExitRead, AskedInv
  <2> QED
    BY <1>4, <2>3, <2>4
<1>5. ASSUME NEW t \in Thread, NEW fd \in Fd, AddWrite(t, fd)
      PROVE  AskedInv'
  <2>1. UNCHANGED <<phase, stop>> /\ (Write(t, "c") \/ UNCHANGED pipe)
    BY <1>5 DEF AddWrite
  <2>2. pipe[t] \in Seq({"c", "e"})
    BY DEF STTypeInv, SeqTypes
  <2>3. Has(Append(pipe[t], "c"), "e") <=> Has(pipe[t], "e")
    BY <2>2, HasAppend
  <2>4. \A u \in Thread : Has(pipe'[u], "e") <=> Has(pipe[u], "e")
    BY <2>1, <2>3 DEF Write, STTypeInv, SeqTypes
  <2> QED
    BY <2>1, <2>4 DEF AskedInv
<1>6. ASSUME NEW t \in Thread, StopWrite(t)
      PROVE  AskedInv'
  <2>1. /\ UNCHANGED phase /\ stop' = [stop EXCEPT ![t] = "check"]
        /\ \A u \in Thread : u # t => pipe'[u] = pipe[u]
    BY <1>6 DEF StopWrite, Stop, Write, STTypeInv, SeqTypes
  <2> QED
    BY <1>1, <2>1 DEF AskedInv
<1>7. ASSUME NEW t \in Thread,
             StopMark(t) \/ StopFail(t) \/ StopCheck(t) \/ StopBlock(t) \/ StopSpurious(t)
      PROVE  AskedInv'
  BY <1>1, <1>7 DEF StopMark, StopFail, StopCheck, StopBlock, StopSpurious, Stop, AskedInv
<1>8. CASE UNCHANGED <<phase, pipe, stop>>
  BY <1>8 DEF AskedInv
<1> QED
  BY <1>2, <1>3, <1>4, <1>5, <1>6, <1>7, <1>8
  DEF STNext, LoopStep, StopStep, DrainLock, DrainNext, DrainDone, CallbackBegin, CallbackEnd,
      AddPush, stVars

\* The invariant, for the proofs of the server.
LEMMA AskedAlways == STSpec => []AskedInv
<1>1. STInit => AskedInv
  BY DEF STInit, AskedInv, Has
<1> QED
  BY <1>1, STTypeAlways, AskedStep, PTL DEF STSpec
=============================================================================
