------------------------------ MODULE TcpFlow ------------------------------
(***************************************************************************)
(* One connection seen by TcpFlow::data and parse (server/src/TcpFlow.cpp):*)
(* the request of Client.cpp - four bytes of length, then the payload -    *)
(* arrives in segments, data() reads what there is, and parse() is called  *)
(* when enough bytes seem to be there.  What the request does is left to   *)
(* RequestHandler; here it is the image of m_data that parse() saw.        *)
(***************************************************************************)
EXTENDS Naturals, Sequences

CONSTANTS
    PayloadLen,     \* bytes of the serialized Payload
    TypeLen,        \* how many of them, in front, hold requesttype
    BUFLEN, NUM_READ_TRY,
    Cuts,           \* after which bytes of the request a segment may end
    Uninit,         \* values m_currlen can have before it is set
    Reset           \* may the connection be reset?

Header == 4
Total == Header + PayloadLen

ASSUME FlowAssumption ==
    /\ PayloadLen \in Nat /\ TypeLen \in 1 .. PayloadLen
    /\ BUFLEN \in Nat /\ BUFLEN > Header
    /\ NUM_READ_TRY \in Nat \ {0}
    /\ Cuts \subseteq 1 .. Total /\ Total \in Cuts
    /\ Uninit \subseteq Nat /\ Uninit # {}
    /\ Reset \in BOOLEAN

VARIABLES
    arrived,        \* bytes of the request that have reached the socket
    peer,           \* the client: open, closed or reset
    flow,           \* open; deleted; misframed: memory was written or a
                    \* length read where neither belongs
    tries,          \* reads left in this call of data(), 0 outside
    ending,         \* the loop of data() is over, the check is next
    m_lenTillnow, m_payloadLen,
    m_data,         \* the buffer, <<>> for null
    m_currlen,
    handled         \* the images of m_data that were handled and answered

netVars == <<arrived, peer>>
bufVars == <<m_lenTillnow, m_payloadLen, m_data, m_currlen>>
vars == <<netVars, flow, tries, ending, bufVars, handled>>

\* Byte j of the payload is the number j; calloc fills with zeros.
Payload == [j \in 1 .. PayloadLen |-> j]
Calloc(n) == [j \in 1 .. n |-> 0]

Init ==
    /\ arrived = 0 /\ peer = "open"
    /\ flow = "open" /\ tries = 0 /\ ending = FALSE
    /\ m_lenTillnow = 0 /\ m_payloadLen = 0 /\ m_data = <<>>
    /\ m_currlen \in Uninit
    /\ handled = <<>>
-----------------------------------------------------------------------------
(* The client and the network.                                             *)

Deliver ==
    /\ peer = "open"
    /\ arrived' \in {n \in Cuts : n > arrived}
    /\ UNCHANGED <<peer, flow, tries, ending, bufVars, handled>>

\* Client.cpp closes after it has read a response.
Close ==
    /\ peer = "open" /\ handled # <<>>
    /\ peer' = "closed"
    /\ UNCHANGED <<arrived, flow, tries, ending, bufVars, handled>>

ResetByPeer ==
    /\ Reset /\ peer = "open"
    /\ peer' = "reset"
    /\ UNCHANGED <<arrived, flow, tries, ending, bufVars, handled>>
-----------------------------------------------------------------------------
(* data().                                                                 *)

Available == arrived - m_lenTillnow
Reading == flow = "open" /\ tries > 0

DataBegin ==
    /\ flow = "open" /\ tries = 0 /\ ~ending
    /\ Available > 0 \/ peer # "open"
    /\ tries' = NUM_READ_TRY
    /\ UNCHANGED <<netVars, flow, ending, bufVars, handled>>

\* The end of the stream or an error: the flow is deleted, whatever it holds.
ReadEnd ==
    /\ Reading
    /\ peer = "reset" \/ (peer = "closed" /\ Available = 0)
    /\ flow' = "deleted" /\ tries' = 0
    /\ UNCHANGED <<netVars, ending, bufVars, handled>>

\* EAGAIN: the loop is left.
ReadAgain ==
    /\ Reading
    /\ Available = 0 /\ peer = "open"
    /\ tries' = 0 /\ ending' = TRUE
    /\ UNCHANGED <<netVars, flow, bufVars, handled>>

\* read() has returned len bytes.
Got(len) ==
    /\ Reading
    /\ peer # "reset" /\ Available > 0
    /\ len = IF Available < BUFLEN THEN Available ELSE BUFLEN
    /\ m_lenTillnow' = m_lenTillnow + len
    /\ tries' = tries - 1
    /\ ending' = (tries = 1)
    /\ UNCHANGED <<netVars, handled>>

\* memcpy(m_data + at, ..., len): the bytes follow those read before.
Copy(data, at, first, len) ==
    [j \in DOMAIN data |-> IF j \in at + 1 .. at + len THEN first + j - at - 1 ELSE data[j]]

\* Faulty variant: the buffer and its length count the header too.
ReadFirst_CountsHeader == \E len \in Header .. BUFLEN :
    /\ m_data = <<>>
    /\ Got(len)
    /\ m_payloadLen' = Total
    /\ m_data' = Copy(Calloc(Total), 0, 1, len - Header)
    /\ m_currlen' = len - Header
    /\ UNCHANGED flow

\* No m_data yet: the chunk should begin with the length.
ReadFirst == \E len \in 1 .. BUFLEN :
    /\ m_data = <<>>
    /\ Got(len)
    /\ \/ /\ m_lenTillnow' < Header                    \* "Unhandled case"
          /\ UNCHANGED <<flow, m_payloadLen, m_data, m_currlen>>
       \/ /\ m_lenTillnow = 0 /\ len >= Header
          /\ m_payloadLen' = PayloadLen
          /\ m_data' = Copy(Calloc(PayloadLen), 0, 1, len - Header)
          /\ m_currlen' = IF len > Header THEN len - Header ELSE m_currlen
          /\ UNCHANGED flow
       \/ /\ m_lenTillnow \in 1 .. Header - 1 /\ m_lenTillnow' >= Header
          /\ flow' = "misframed"
          /\ UNCHANGED <<m_payloadLen, m_data, m_currlen>>

\* Faulty variant: m_currlen is not advanced.
ReadMore_NoAdvance == \E len \in 1 .. BUFLEN :
    /\ m_data # <<>>
    /\ Got(len)
    /\ m_data' = Copy(m_data, m_currlen, m_lenTillnow - Header + 1, len)
    /\ UNCHANGED <<flow, m_payloadLen, m_currlen>>

\* The chunk is appended at m_currlen.
ReadMore == \E len \in 1 .. BUFLEN :
    /\ m_data # <<>>
    /\ Got(len)
    /\ IF m_currlen + len <= m_payloadLen
       THEN /\ m_data' = Copy(m_data, m_currlen, m_lenTillnow - Header + 1, len)
            /\ m_currlen' = m_currlen + len
            /\ UNCHANGED <<flow, m_payloadLen>>
       ELSE /\ flow' = "misframed"
            /\ UNCHANGED <<m_payloadLen, m_data, m_currlen>>

\* parse: with a request type the request is handled and answered, without
\* one the flow is deleted.
HasType == m_data # <<>> /\ \A j \in 1 .. TypeLen : m_data[j] # 0
Parse ==
    \/ /\ HasType
       /\ handled' = Append(handled, m_data) /\ UNCHANGED flow
    \/ /\ ~HasType
       /\ flow' = "deleted" /\ UNCHANGED handled

\* Faulty variants: the check is forgotten; and it asks for more.
Complete_NoCheck == TRUE
Complete_Strict == m_lenTillnow > m_payloadLen + Header

\* m_lenTillnow counts the header, and m_payloadLen does not.
Complete == m_lenTillnow >= m_payloadLen

\* The check at the end of data().
DataEnd ==
    /\ flow = "open" /\ ending
    /\ ending' = FALSE
    /\ IF Complete THEN Parse ELSE UNCHANGED <<flow, handled>>
    /\ UNCHANGED <<netVars, tries, bufVars>>
-----------------------------------------------------------------------------
Data == DataBegin \/ ReadEnd \/ ReadAgain \/ ReadFirst \/ ReadMore \/ DataEnd
Next == Deliver \/ Close \/ ResetByPeer \/ Data

Spec == Init /\ [][Next]_vars

\* The event is persistent, so data() is called while there is something to
\* read; TCP delivers what was sent.
Fairness == WF_vars(Data) /\ WF_vars(Deliver)
FairSpec == Spec /\ Fairness
-----------------------------------------------------------------------------
\* Every variable keeps its type.
TypeOK ==
    /\ arrived \in 0 .. Total
    /\ peer \in {"open", "closed", "reset"}
    /\ flow \in {"open", "deleted", "misframed"}
    /\ tries \in 0 .. NUM_READ_TRY
    /\ ending \in BOOLEAN
    /\ m_lenTillnow \in 0 .. Total
    /\ m_payloadLen \in {0, PayloadLen}
    /\ m_data \in {<<>>} \cup [1 .. PayloadLen -> 0 .. PayloadLen]
    /\ m_currlen \in Nat
    /\ \A i \in DOMAIN handled : handled[i] \in [1 .. PayloadLen -> 0 .. PayloadLen]

\* Once data() has read the header in one piece, no later chunk is copied to a
\* wrong place: m_data is the payload read so far, then zeros.  This is so if no
\* segment ends right after the header (Header \notin Cuts): m_currlen would be
\* read unset, and Assembled is false then.
Assembled ==
    m_data # <<>> =>
        /\ flow # "misframed"
        /\ flow = "open" => \A j \in 1 .. PayloadLen :
            m_data[j] = IF j <= m_lenTillnow - Header THEN Payload[j] ELSE 0

\* A request is performed once all of its bytes are there, and not before.
HandledWhole == \A i \in DOMAIN handled : handled[i] = Payload

\* When data() returns with the whole request read, the last request that was
\* performed is the whole one.
WholeIsHandled ==
    flow = "open" /\ tries = 0 /\ ~ending /\ m_lenTillnow = Total
        => handled # <<>> /\ handled[Len(handled)] = Payload

\* What the early check can be wrong by: never more than the header's four
\* bytes are missing from a request that is performed, and so it is performed
\* at most four times too early.
MissesAtMostHeader ==
    /\ Len(handled) <= Header + 1
    /\ \A i \in DOMAIN handled : \A j \in 1 .. PayloadLen - Header : handled[i][j] = Payload[j]

\* A flow is deleted without an answer only if the connection was reset, the
\* header did not come in one piece, or the request has no room for its type
\* between the two lengths compared: STAT has two bytes of payload and a GET of
\* a key of one byte five, and the check can hold before their type has come.
\* (A segment may end anywhere but right after the header.)
RefusesOnlyShort ==
    flow = "deleted" /\ handled = <<>> =>
        peer = "reset" \/ m_data = <<>> \/ PayloadLen < Header + TypeLen

\* However the rest of it is split, a request whose header was read is answered
\* in the end, or the flow is deleted and the client reads the end of its
\* connection; RefusesOnlyShort says when it may be the latter.
AnsweredOrEnded == m_data # <<>> ~> handled # <<>> \/ flow = "deleted"
=============================================================================
