------------------------------- MODULE Stats -------------------------------
(***************************************************************************)
(* The singleton of server/src/Stats.cpp: three 64-bit counters.  Each     *)
(* increment is a step of its own under Stats::m_mtx; the getters read     *)
(* without the mutex, one counter at a time.                               *)
(***************************************************************************)
EXTENDS Integers

VARIABLES m_numGetReq, m_numGetReqSucc, m_numGetReqFail

statVars == <<m_numGetReq, m_numGetReqSucc, m_numGetReqFail>>

StatsInit == m_numGetReq = 0 /\ m_numGetReqSucc = 0 /\ m_numGetReqFail = 0

incrGetReq ==
    m_numGetReq' = m_numGetReq + 1 /\ UNCHANGED <<m_numGetReqSucc, m_numGetReqFail>>
incrGetReqSucc ==
    m_numGetReqSucc' = m_numGetReqSucc + 1 /\ UNCHANGED <<m_numGetReq, m_numGetReqFail>>

\* Faulty variant: a miss is not counted.
incrGetReqFail_Not == UNCHANGED statVars

incrGetReqFail ==
    m_numGetReqFail' = m_numGetReqFail + 1 /\ UNCHANGED <<m_numGetReq, m_numGetReqSucc>>
=============================================================================
