--------------------------- MODULE RequestHandler ---------------------------
(***************************************************************************)
(* TcpFlow::handleGetRequest, handleSetRequest and handleStatRequest on    *)
(* the worker threads: Dictionary and Stats composed.  A worker handles    *)
(* one parsed request at a time and ends with the reply it will serialize. *)
(***************************************************************************)
EXTENDS Dictionary, Stats

CONSTANTS
    INT_MAX,      \* the largest value of the int32 fields of Payload::Stat
    MaxGets       \* bound: GET requests handled in a run

ASSUME HandlerAssumption == INT_MAX \in Nat /\ MaxGets \in Nat

VARIABLES
    hpc,          \* the handler each worker is in
    reply         \* the fields it has set in m_payload so far

handlerVars == <<hpc, reply>>
vars == <<dictVars, statVars, handlerVars>>

NoReply == [type |-> "none"]

\* set_numgetreq and its two siblings narrow the uint64_t to an int32.
ToWire(n) ==
    LET width == 2 * (INT_MAX + 1)
        m == n % width
    IN  IF m > INT_MAX THEN m - width ELSE m

Init ==
    /\ DictInit /\ StatsInit
    /\ hpc = [w \in Worker |-> "idle"]
    /\ reply = [w \in Worker |-> NoReply]

Handler(w, from, to) == hpc[w] = from /\ hpc' = [hpc EXCEPT ![w] = to]
Reply(w, r) == reply' = [reply EXCEPT ![w] = r]
-----------------------------------------------------------------------------
HandleGet(w, k) ==
    /\ Handler(w, "idle", "get")
    /\ m_numGetReq < MaxGets
    /\ incrGetReq
    /\ GetCall(w, k)
    /\ UNCHANGED reply

\* Faulty variant: value and reason are swapped.
GetReply_Swapped(w, f) ==
    Reply(w, [type |-> "GET", field |-> IF f = "value" THEN "reason" ELSE "value", text |-> val[w]])

GetReply(w, f) == Reply(w, [type |-> "GET", field |-> f, text |-> val[w]])

FinishGet(w) ==
    /\ Handler(w, "get", "send")
    /\ pc[w] = "get_returned"
    /\ \/ ret[w] /\ incrGetReqSucc /\ GetReply(w, "value")
       \/ ~ret[w] /\ incrGetReqFail /\ GetReply(w, "reason")
    /\ Return(w)

HandleSet(w, k, v) ==
    /\ Handler(w, "idle", "set")
    /\ SetCall(w, k, v)
    /\ UNCHANGED <<reply, statVars>>

FinishSet(w) ==
    /\ Handler(w, "set", "send")
    /\ pc[w] = "set_returned"
    /\ Reply(w, [type |-> "SET", field |-> IF ret[w] THEN "value" ELSE "reason"])
    /\ Return(w)
    /\ UNCHANGED statVars

\* The three getters, in the order of the three statements.
HandleStat(w) ==
    /\ Handler(w, "idle", "stat_succ")
    /\ StartupRace \/ mainPc = "done"
    /\ Reply(w, [type |-> "STAT", req |-> ToWire(m_numGetReq), succ |-> 0, fail |-> 0])
    /\ UNCHANGED <<dictVars, statVars>>

StatSucc(w) ==
    /\ Handler(w, "stat_succ", "stat_fail")
    /\ reply' = [reply EXCEPT ![w].succ = ToWire(m_numGetReqSucc)]
    /\ UNCHANGED <<dictVars, statVars>>

\* Faulty variant: the requests are read last instead of first.
StatFail_RequestsLast(w) ==
    /\ Handler(w, "stat_fail", "send")
    /\ reply' = [reply EXCEPT ![w].fail = ToWire(m_numGetReqFail),
                             ![w].req = ToWire(m_numGetReq)]
    /\ UNCHANGED <<dictVars, statVars>>

StatFail(w) ==
    /\ Handler(w, "stat_fail", "send")
    /\ reply' = [reply EXCEPT ![w].fail = ToWire(m_numGetReqFail)]
    /\ UNCHANGED <<dictVars, statVars>>

\* sendResponse; the worker is then free for the next request.
SendResponse(w) ==
    /\ Handler(w, "send", "idle")
    /\ Reply(w, NoReply)
    /\ UNCHANGED <<dictVars, statVars>>
-----------------------------------------------------------------------------
InDictionary(w) == CallStep(w) /\ UNCHANGED <<statVars, handlerVars>>
InMain == MainStep /\ UNCHANGED <<statVars, handlerVars>>

\* The rest of a request, once begun.
Proceed(w) ==
    \/ InDictionary(w)
    \/ FinishGet(w) \/ FinishSet(w)
    \/ StatSucc(w) \/ StatFail(w)
    \/ SendResponse(w)

Next ==
    /\ ~crashed
    /\ \/ InMain
       \/ \E w \in Worker :
            \/ \E k \in Key : HandleGet(w, k)
            \/ \E k \in Key, v \in Value : HandleSet(w, k, v)
            \/ HandleStat(w)
            \/ Proceed(w)

Spec == Init /\ [][Next]_vars
-----------------------------------------------------------------------------
GetsInProgress == {w \in Worker : hpc[w] = "get"}

\* The counters lose nothing: every GET counted as a request is counted as a
\* success or a failure, or its handler still runs.
GetsAccounted ==
    m_numGetReq = m_numGetReqSucc + m_numGetReqFail + Cardinality(GetsInProgress)

\* A STAT reply is three reads at three moments, each narrowed to an int32.
\* Whatever the narrowing makes of them, the counts that were read fit together:
\* because the requests are read first, they exceed the outcomes by the GETs of
\* the other workers at most, and the outcomes exceed the requests only by GETs
\* begun since.  No bound on the latter is claimed.
StatReportSound ==
    \A w \in Worker :
        hpc[w] = "send" /\ reply[w].type = "STAT" =>
            \E req \in 0 .. m_numGetReq, succ \in 0 .. m_numGetReqSucc, fail \in 0 .. m_numGetReqFail :
                /\ reply[w] = [type |-> "STAT", req |-> ToWire(req), succ |-> ToWire(succ), fail |-> ToWire(fail)]
                /\ req <= succ + fail + Cardinality(Worker) - 1
                /\ succ + fail - req <= m_numGetReq - req

\* reason is filled only when the GET found nothing (comment in
\* handleGetRequest): a client that reads value sees every key that is there.
ReasonOnlyOnMiss ==
    \A w \in Worker :
        reply[w].type = "GET" => (reply[w].field = "value" <=> reply[w].text \in Value)
=============================================================================
