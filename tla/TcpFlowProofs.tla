--------------------------- MODULE TcpFlowProofs ---------------------------
(***************************************************************************)
(* Proofs about TcpFlow, for any length of request, buffer and number of   *)
(* reads, and any splits of the request into segments: types and how often *)
(* a request is performed always; that the chunks are put together right   *)
(* and that the request is performed when it is whole, if no segment ends  *)
(* exactly after the header (then m_currlen is read uninitialized).        *)
(***************************************************************************)
EXTENDS TcpFlow, SequenceTheorems, TLAPS

Image == [1 .. PayloadLen -> 0 .. PayloadLen]

\* What is in m_data once n bytes of the request were read.
ReadSoFar(n) == [j \in 1 .. PayloadLen |-> IF j <= n - Header THEN j ELSE 0]

-----------------------------------------------------------------------------
(* The constants and the buffer.                                           *)

\* The lengths are what they seem to be.
LEMMA Lengths ==
    /\ PayloadLen \in Nat \ {0} /\ Header = 4 /\ Total = PayloadLen + 4 /\ Total \in Nat
    /\ BUFLEN \in Nat /\ BUFLEN > 4 /\ NUM_READ_TRY \in Nat \ {0}
    /\ TypeLen \in 1 .. PayloadLen
    /\ Cuts \subseteq 1 .. Total /\ Uninit \subseteq Nat
BY FlowAssumption DEF Total, Header

\* A buffer is not the null pointer.
LEMMA NotNull ==
    ASSUME NEW S, NEW f \in [1 .. PayloadLen -> S]
    PROVE  f # <<>>
<1>1. 1 \in DOMAIN f
  BY Lengths
<1>2. DOMAIN << >> = {}
  OBVIOUS
<1> QED
  BY <1>1, <1>2

\* calloc and memcpy give bytes of the payload or zeros.
LEMMA BufferTypes ==
    /\ Calloc(PayloadLen) \in Image
    /\ \A data \in Image, at \in Nat, first \in Nat \ {0}, len \in Nat :
            first + len - 1 <= PayloadLen => Copy(data, at, first, len) \in Image
<1>1. Calloc(PayloadLen) \in Image
  BY Lengths DEF Calloc, Image
<1>2. ASSUME NEW data \in Image, NEW at \in Nat, NEW first \in Nat \ {0}, NEW len \in Nat,
             first + len - 1 <= PayloadLen
      PROVE  Copy(data, at, first, len) \in Image
  <2>1. DOMAIN data = 1 .. PayloadLen
    BY DEF Image
  <2>2. ASSUME NEW j \in 1 .. PayloadLen, j \in at + 1 .. at + len
        PROVE  first + j - at - 1 \in 0 .. PayloadLen
    BY <1>2, <2>2, Lengths
  <2> QED
    BY <2>1, <2>2 DEF Copy, Image
<1> QED
  BY <1>1, <1>2

-----------------------------------------------------------------------------
(* Types.  The invariant has a part for the stream, for the call of data(),*)
(* for the buffer, and for what was performed.                             *)

\* Bytes are read after they have arrived.
StreamInv ==
    /\ arrived \in 0 .. Total /\ peer \in {"open", "closed", "reset"}
    /\ m_lenTillnow \in 0 .. Total /\ m_lenTillnow <= arrived

\* data() goes to its last check when no read is left.
CallInv ==
    /\ flow \in {"open", "deleted", "misframed"}
    /\ tries \in 0 .. NUM_READ_TRY /\ ending \in BOOLEAN
    /\ ending => tries = 0

\* m_payloadLen is set with m_data, when the header was read.
BufferInv ==
    /\ m_payloadLen \in {0, PayloadLen} /\ m_currlen \in Nat
    /\ m_data \in {<<>>} \cup Image
    /\ m_data # <<>> => m_payloadLen = PayloadLen /\ m_lenTillnow >= Header

HandledInv == handled \in Seq(Image)

FlowTypeInv == StreamInv /\ CallInv /\ BufferInv /\ HandledInv

\* The parts say what TypeOK says.
LEMMA FlowTypes == FlowTypeInv => TypeOK
<1> SUFFICES ASSUME FlowTypeInv
             PROVE  TypeOK
  OBVIOUS
<1>1. \A i \in DOMAIN handled : handled[i] \in Image
  BY DEF FlowTypeInv, HandledInv
<1>2. StreamInv /\ CallInv /\ BufferInv
  BY DEF FlowTypeInv
<1> QED
  BY <1>1, <1>2 DEF TypeOK, StreamInv, CallInv, BufferInv, Image

\* Initially the types are right.
LEMMA FlowTypeInit == Init => FlowTypeInv
<1> SUFFICES ASSUME Init
             PROVE  FlowTypeInv
  OBVIOUS
<1>1. StreamInv
  BY Lengths DEF Init, StreamInv
<1>2. CallInv
  <2>1. flow = "open" /\ tries = 0 /\ ending = FALSE
    BY DEF Init
  <2>2. 0 \in 0 .. NUM_READ_TRY
    BY Lengths
  <2> QED
    BY <2>1, <2>2 DEF CallInv
<1>3. BufferInv
  BY Lengths DEF Init, BufferInv
<1>4. HandledInv
  BY DEF Init, HandledInv
<1> QED
  BY <1>1, <1>2, <1>3, <1>4 DEF FlowTypeInv

\* A read takes at least one of the bytes that have arrived, as many as the
\* chunk holds, and uses up one try.
LEMMA GotBytes ==
    ASSUME StreamInv, CallInv, NEW len \in 1 .. BUFLEN, Got(len)
    PROVE  /\ len \in Nat /\ len > 0 /\ len <= arrived - m_lenTillnow
           /\ len < BUFLEN => len = arrived - m_lenTillnow
           /\ m_lenTillnow' = m_lenTillnow + len
           /\ flow = "open" /\ tries > 0 /\ ~ending
           /\ tries' = tries - 1 /\ ending' = (tries = 1)
           /\ UNCHANGED <<arrived, peer, handled>>
<1>1. arrived \in 0 .. Total /\ m_lenTillnow \in 0 .. Total /\ tries \in 0 .. NUM_READ_TRY
      /\ (ending => tries = 0)
  BY DEF StreamInv, CallInv
<1>2. /\ flow = "open" /\ tries > 0 /\ Available > 0
      /\ len = IF Available < BUFLEN THEN Available ELSE BUFLEN
      /\ m_lenTillnow' = m_lenTillnow + len
      /\ tries' = tries - 1 /\ ending' = (tries = 1)
      /\ UNCHANGED <<arrived, peer, handled>>
  BY DEF Got, Reading, netVars
<1>3. Available \in Int /\ Available = arrived - m_lenTillnow
  BY <1>1, Lengths DEF Available
<1>4. len \in Nat /\ len > 0 /\ len <= Available /\ (len < BUFLEN => len = Available)
  BY <1>2, <1>3, Lengths
<1>5. ~ending
  BY <1>1, <1>2, Lengths
<1> QED
  BY <1>2, <1>3, <1>4, <1>5

\* So a read keeps the parts for the stream and for the call.
LEMMA GotKeeps ==
    ASSUME StreamInv, CallInv, NEW len \in 1 .. BUFLEN, Got(len), flow' \in {flow, "misframed"}
    PROVE  StreamInv' /\ CallInv'
<1>1. /\ len \in Nat /\ len <= arrived - m_lenTillnow
      /\ m_lenTillnow' = m_lenTillnow + len
      /\ tries > 0 /\ tries' = tries - 1 /\ ending' = (tries = 1)
      /\ UNCHANGED <<arrived, peer>>
  BY GotBytes
<1>2. StreamInv'
  BY <1>1, Lengths DEF StreamInv
<1>3. CallInv'
  BY <1>1, Lengths DEF CallInv
<1> QED
  BY <1>2, <1>3

\* What ReadFirst does, with the chunk it reads.
LEMMA ReadFirstCases ==
    ASSUME ReadFirst
    PROVE  \E len \in 1 .. BUFLEN :
              /\ m_data = <<>> /\ Got(len)
              /\ \/ /\ m_lenTillnow' < Header
                    /\ UNCHANGED <<flow, m_payloadLen, m_data, m_currlen>>
                 \/ /\ m_lenTillnow = 0 /\ len >= Header
                    /\ m_payloadLen' = PayloadLen
                    /\ m_data' = Copy(Calloc(PayloadLen), 0, 1, len - Header)
                    /\ m_currlen' = IF len > Header THEN len - Header ELSE m_currlen
                    /\ UNCHANGED flow
                 \/ /\ flow' = "misframed"
                    /\ UNCHANGED <<m_payloadLen, m_data, m_currlen>>
BY DEF ReadFirst

\* Every step keeps the types.
LEMMA FlowTypeStep == FlowTypeInv /\ [Next]_vars => FlowTypeInv'
<1> SUFFICES ASSUME StreamInv, CallInv, BufferInv, HandledInv, [Next]_vars
             PROVE  StreamInv' /\ CallInv' /\ BufferInv' /\ HandledInv'
  BY DEF FlowTypeInv
<1>1. CASE Deliver \/ Close \/ ResetByPeer
  <2>1. UNCHANGED <<flow, tries, ending, bufVars, handled>>
    BY <1>1 DEF Deliver, Close, ResetByPeer
  <2>2. \/ UNCHANGED arrived /\ peer' \in {"closed", "reset"}
        \/ arrived' \in Cuts /\ arrived' > arrived /\ UNCHANGED peer
    <3>1. CASE Deliver
      BY <3>1 DEF Deliver
    <3>2. CASE Close
      BY <3>2 DEF Close
    <3>3. CASE ResetByPeer
      BY <3>3 DEF ResetByPeer
    <3> QED
      BY <1>1, <3>1, <3>2, <3>3
  <2>3. arrived' \in 0 .. Total /\ arrived' >= arrived
    <3>1. arrived \in 0 .. Total /\ arrived \in Int
      BY Lengths DEF StreamInv
    <3>2. \A n \in Cuts : n \in 0 .. Total
      BY Lengths
    <3>3. CASE UNCHANGED arrived
      BY <3>1, <3>3
    <3>4. CASE arrived' \in Cuts /\ arrived' > arrived
      <4>1. arrived' \in 0 .. Total
        BY <3>2, <3>4
      <4> QED
        BY <3>1, <3>4, <4>1, Lengths
    <3> QED
      BY <2>2, <3>3, <3>4
  <2>4. peer' \in {"open", "closed", "reset"} /\ m_lenTillnow' = m_lenTillnow
    BY <2>1, <2>2 DEF StreamInv, bufVars
  <2>5. StreamInv'
    BY <2>3, <2>4, Lengths DEF StreamInv
  <2> QED
    BY <2>1, <2>5 DEF CallInv, BufferInv, HandledInv, bufVars
<1>2. CASE DataBegin \/ ReadEnd \/ ReadAgain
  <2>1. UNCHANGED <<netVars, bufVars, handled>>
    BY <1>2 DEF DataBegin, ReadEnd, ReadAgain
  <2>2. /\ flow' \in {flow, "deleted"} /\ tries' \in {0, NUM_READ_TRY}
        /\ \/ UNCHANGED ending /\ ~ending
           \/ tries' = 0 /\ UNCHANGED ending
           \/ tries' = 0 /\ ending' = TRUE
    BY <1>2 DEF DataBegin, ReadEnd, ReadAgain
  <2>3. tries' \in 0 .. NUM_READ_TRY
    BY <2>2, Lengths
  <2>4. CallInv'
    <3>1. flow' \in {"open", "deleted", "misframed"}
      BY <2>2 DEF CallInv
    <3>2. ending' \in BOOLEAN /\ (ending' => tries' = 0)
      <4>1. CASE UNCHANGED ending /\ ~ending
        BY <4>1 DEF CallInv
      <4>2. CASE tries' = 0 /\ UNCHANGED ending
        BY <4>2 DEF CallInv
      <4>3. CASE tries' = 0 /\ ending' = TRUE
        BY <4>3
      <4> QED
        BY <2>2, <4>1, <4>2, <4>3
    <3> QED
      BY <2>3, <3>1, <3>2 DEF CallInv
  <2> QED
    BY <2>1, <2>4 DEF StreamInv, BufferInv, HandledInv, netVars, bufVars
<1>3. CASE ReadFirst
  <2>1. PICK len \in 1 .. BUFLEN :
            /\ m_data = <<>> /\ Got(len)
            /\ flow' \in {flow, "misframed"}
            /\ \/ UNCHANGED <<m_payloadLen, m_data, m_currlen>>
               \/ /\ m_lenTillnow = 0 /\ len >= Header
                  /\ m_payloadLen' = PayloadLen
                  /\ m_data' = Copy(Calloc(PayloadLen), 0, 1, len - Header)
                  /\ m_currlen' = IF len > Header THEN len - Header ELSE m_currlen
    BY <1>3, ReadFirstCases
  <2>2. StreamInv' /\ CallInv'
    BY <2>1, GotKeeps
  <2>3. /\ len \in Nat /\ len <= arrived - m_lenTillnow
        /\ m_lenTillnow' = m_lenTillnow + len /\ UNCHANGED handled
    BY <2>1, GotBytes
  <2>4. CASE UNCHANGED <<m_payloadLen, m_data, m_currlen>>
    <3>1. BufferInv'
      BY <2>1, <2>4 DEF BufferInv
    <3> QED
      BY <2>2, <2>3, <3>1 DEF HandledInv
  <2>5. CASE /\ m_lenTillnow = 0 /\ len >= Header
             /\ m_payloadLen' = PayloadLen
             /\ m_data' = Copy(Calloc(PayloadLen), 0, 1, len - Header)
             /\ m_currlen' = IF len > Header THEN len - Header ELSE m_currlen
    <3>1. len - Header \in Nat /\ 1 + (len - Header) - 1 <= PayloadLen
      BY <2>3, <2>5, Lengths DEF StreamInv
    <3>2. m_data' \in Image
      BY <2>5, <3>1, BufferTypes
    <3>3. m_currlen' \in Nat /\ m_lenTillnow' >= Header
      BY <2>3, <2>5, <3>1 DEF BufferInv
    <3> QED
      BY <2>2, <2>3, <2>5, <3>2, <3>3 DEF BufferInv, HandledInv
  <2> QED
    BY <2>1, <2>4, <2>5
<1>4. CASE ReadMore
  <2>1. PICK len \in 1 .. BUFLEN :
            /\ Got(len) /\ m_data # <<>>
            /\ flow' \in {flow, "misframed"} /\ m_payloadLen' = m_payloadLen
            /\ \/ UNCHANGED <<m_data, m_currlen>>
               \/ /\ m_data' = Copy(m_data, m_currlen, m_lenTillnow - Header + 1, len)
                  /\ m_currlen' = m_currlen + len
    BY <1>4 DEF ReadMore
  <2>2. StreamInv' /\ CallInv'
    BY <2>1, GotKeeps
  <2>3. /\ len \in Nat /\ len <= arrived - m_lenTillnow
        /\ m_lenTillnow' = m_lenTillnow + len /\ UNCHANGED handled
    BY <2>1, GotBytes
  <2>4. /\ m_data \in Image /\ m_payloadLen = PayloadLen /\ m_lenTillnow >= Header
        /\ m_currlen \in Nat /\ m_lenTillnow \in Nat
    BY <2>1, Lengths DEF BufferInv, StreamInv
  <2>5. m_lenTillnow' >= Header
    BY <2>3, <2>4, Lengths
  <2>6. CASE UNCHANGED <<m_data, m_currlen>>
    BY <2>1, <2>2, <2>3, <2>4, <2>5, <2>6 DEF BufferInv, HandledInv
  <2>7. CASE /\ m_data' = Copy(m_data, m_currlen, m_lenTillnow - Header + 1, len)
             /\ m_currlen' = m_currlen + len
    <3>1. /\ m_lenTillnow - Header + 1 \in Nat \ {0}
          /\ m_lenTillnow - Header + 1 + len - 1 <= PayloadLen
      BY <2>3, <2>4, Lengths DEF StreamInv
    <3>2. m_data' \in Image
      BY <2>3, <2>4, <2>7, <3>1, BufferTypes
    <3>3. m_currlen' \in Nat
      BY <2>3, <2>4, <2>7
    <3> QED
      BY <2>1, <2>2, <2>3, <2>4, <2>5, <3>2, <3>3 DEF BufferInv, HandledInv
  <2> QED
    BY <2>1, <2>6, <2>7
<1>5. CASE DataEnd
  <2>1. /\ ending' = FALSE /\ UNCHANGED <<netVars, tries, bufVars>>
        /\ \/ UNCHANGED handled
           \/ HasType /\ handled' = Append(handled, m_data)
        /\ flow' \in {flow, "deleted"}
    BY <1>5 DEF DataEnd, Parse
  <2>2. StreamInv' /\ CallInv' /\ BufferInv'
    BY <2>1 DEF StreamInv, CallInv, BufferInv, netVars, bufVars
  <2>3. HasType => m_data \in Image
    BY DEF HasType, BufferInv
  <2>4. HandledInv'
    BY <2>1, <2>3 DEF HandledInv
  <2> QED
    BY <2>2, <2>4
<1>6. CASE UNCHANGED vars
  BY <1>6 DEF vars, netVars, bufVars, StreamInv, CallInv, BufferInv, HandledInv
<1> QED
  BY <1>1, <1>2, <1>3, <1>4, <1>5, <1>6 DEF Next, Data

\* The invariant, for the proofs below.
LEMMA FlowTypeAlways == Spec => []FlowTypeInv
BY FlowTypeInit, FlowTypeStep, PTL DEF Spec

\* No read or copy leaves the buffer or counts past the request, however the
\* request is split.
THEOREM FlowTypeCorrect == Spec => []TypeOK
BY FlowTypeAlways, FlowTypes, PTL
-----------------------------------------------------------------------------
(* The buffer, when no segment ends exactly after the header.              *)

\* What is in the buffer was read in order, to its last byte; and data() never
\* stops between the header and the payload.
AssemblyInv ==
    /\ arrived \in Cuts \cup {0}
    /\ m_data # <<>> =>
        /\ flow # "misframed"
        /\ m_currlen = m_lenTillnow - Header
        /\ m_data = ReadSoFar(m_lenTillnow)
    /\ m_data = <<>> /\ flow = "open" => m_lenTillnow < Header

\* Initially nothing was read.
LEMMA AssemblyInit == Init => AssemblyInv
BY Lengths DEF Init, AssemblyInv

\* calloc and the first memcpy give the bytes after the header.
LEMMA FirstChunk ==
    ASSUME NEW len \in Nat, len >= Header
    PROVE  Copy(Calloc(PayloadLen), 0, 1, len - Header) = ReadSoFar(len)
<1>1. DOMAIN Calloc(PayloadLen) = 1 .. PayloadLen
      /\ \A j \in 1 .. PayloadLen : Calloc(PayloadLen)[j] = 0
  BY DEF Calloc
<1>2. \A j \in 1 .. PayloadLen :
        /\ j \in 0 + 1 .. 0 + (len - Header) <=> j <= len - Header
        /\ 1 + j - 0 - 1 = j
  BY Lengths
<1> QED
  BY <1>1, <1>2 DEF Copy, ReadSoFar

\* A later memcpy appends to them.
LEMMA NextChunk ==
    ASSUME NEW n \in Nat, n >= Header, NEW len \in Nat, NEW m \in Nat, m = n + len
    PROVE  Copy(ReadSoFar(n), n - Header, n - Header + 1, len) = ReadSoFar(m)
<1>1. DOMAIN ReadSoFar(n) = 1 .. PayloadLen
      /\ \A j \in 1 .. PayloadLen : ReadSoFar(n)[j] = IF j <= n - Header THEN j ELSE 0
  BY DEF ReadSoFar
<1> DEFINE copied(j) == IF j \in n - Header + 1 .. n - Header + len
                        THEN n - Header + 1 + j - (n - Header) - 1 ELSE ReadSoFar(n)[j]
           read(j) == IF j <= m - Header THEN j ELSE 0
<1>2. ASSUME NEW j \in 1 .. PayloadLen
      PROVE  copied(j) = read(j)
  <2>1. n - Header \in Nat /\ j \in Nat
    BY Lengths
  <2>2. CASE j <= n - Header
    BY <1>1, <2>1, <2>2, Lengths
  <2>3. CASE j > n - Header /\ j <= n - Header + len
    BY <1>1, <2>1, <2>3, Lengths
  <2>4. CASE j > n - Header + len
    BY <1>1, <2>1, <2>4, Lengths
  <2> QED
    BY <2>1, <2>2, <2>3, <2>4
<1>3. Copy(ReadSoFar(n), n - Header, n - Header + 1, len) = [j \in 1 .. PayloadLen |-> copied(j)]
  BY <1>1 DEF Copy
<1>4. ReadSoFar(m) = [j \in 1 .. PayloadLen |-> read(j)]
  BY DEF ReadSoFar
<1> QED
  <2> HIDE DEF copied, read
  <2> QED
    BY <1>2, <1>3, <1>4

\* Every step keeps the buffer in order.
LEMMA AssemblyStep ==
    ASSUME Header \notin Cuts, FlowTypeInv, AssemblyInv, [Next]_vars
    PROVE  AssemblyInv'
<1> USE DEF FlowTypeInv
<1>1. CASE Deliver \/ Close \/ ResetByPeer
  <2>1. UNCHANGED <<flow, bufVars>>
    BY <1>1 DEF Deliver, Close, ResetByPeer
  <2>2. arrived' \in Cuts \/ UNCHANGED arrived
    BY <1>1 DEF Deliver, Close, ResetByPeer
  <2> QED
    BY <2>1, <2>2 DEF AssemblyInv, bufVars
<1>2. CASE DataBegin \/ ReadEnd \/ ReadAgain \/ DataEnd
  <2>1. UNCHANGED <<arrived, bufVars>> /\ flow' \in {flow, "deleted"}
    BY <1>2 DEF DataBegin, ReadEnd, ReadAgain, DataEnd, Parse, netVars
  <2> QED
    BY <2>1 DEF AssemblyInv, bufVars
<1>3. CASE ReadFirst
  <2>1. PICK len \in 1 .. BUFLEN :
            /\ m_data = <<>> /\ Got(len)
            /\ \/ /\ m_lenTillnow' < Header
                  /\ UNCHANGED <<flow, m_payloadLen, m_data, m_currlen>>
               \/ /\ m_lenTillnow = 0 /\ len >= Header
                  /\ m_payloadLen' = PayloadLen
                  /\ m_data' = Copy(Calloc(PayloadLen), 0, 1, len - Header)
                  /\ m_currlen' = IF len > Header THEN len - Header ELSE m_currlen
                  /\ UNCHANGED flow
               \/ /\ flow' = "misframed"
                  /\ UNCHANGED <<m_payloadLen, m_data, m_currlen>>
    BY <1>3, ReadFirstCases
  <2>2. /\ len \in Nat /\ (len < BUFLEN => len = arrived - m_lenTillnow)
        /\ m_lenTillnow' = m_lenTillnow + len /\ flow = "open" /\ arrived' = arrived
    BY <2>1, GotBytes
  <2>3. CASE m_lenTillnow' < Header /\ UNCHANGED <<flow, m_data>>
    BY <2>1, <2>2, <2>3 DEF AssemblyInv
  <2>4. CASE /\ m_lenTillnow = 0 /\ len >= Header
             /\ m_data' = Copy(Calloc(PayloadLen), 0, 1, len - Header)
             /\ m_currlen' = IF len > Header THEN len - Header ELSE m_currlen
             /\ UNCHANGED flow
    <3>1. m_lenTillnow' = len
      BY <2>2, <2>4
    <3>2. len # Header
      <4>1. arrived # Header
        BY Lengths DEF AssemblyInv
      <4>2. arrived \in Int
        BY Lengths DEF StreamInv
      <4> QED
        BY <2>2, <2>4, <4>1, <4>2, Lengths
    <3>3. m_currlen' = m_lenTillnow' - Header
      <4>1. len > Header
        BY <2>2, <2>4, <3>2, Lengths
      <4>2. m_currlen' = len - Header
        BY <2>4, <4>1
      <4> QED
        BY <3>1, <4>2
    <3>4. m_data' = ReadSoFar(m_lenTillnow')
      BY <2>2, <2>4, <3>1, FirstChunk
    <3>5. m_data' # <<>>
      <4>1. ReadSoFar(len) \in [1 .. PayloadLen -> Nat]
        BY DEF ReadSoFar
      <4> QED
        BY <3>1, <3>4, <4>1, NotNull
    <3> QED
      BY <2>2, <2>4, <3>3, <3>4, <3>5 DEF AssemblyInv
  <2>5. CASE flow' = "misframed" /\ UNCHANGED m_data
    BY <2>1, <2>2, <2>5 DEF AssemblyInv
  <2> QED
    BY <2>1, <2>3, <2>4, <2>5
<1>4. CASE ReadMore
  <2>1. PICK len \in 1 .. BUFLEN :
            /\ m_data # <<>> /\ Got(len)
            /\ m_currlen + len <= m_payloadLen =>
                /\ m_data' = Copy(m_data, m_currlen, m_lenTillnow - Header + 1, len)
                /\ m_currlen' = m_currlen + len
                /\ UNCHANGED flow
    BY <1>4 DEF ReadMore
  <2>2. /\ len \in Nat /\ len <= arrived - m_lenTillnow
        /\ m_lenTillnow' = m_lenTillnow + len /\ arrived' = arrived
    BY <2>1, GotBytes
  <2>3. /\ m_lenTillnow \in Nat /\ m_lenTillnow >= Header /\ m_payloadLen = PayloadLen
        /\ arrived \in Nat /\ arrived <= Total
    BY <2>1, Lengths DEF StreamInv, BufferInv
  <2>4. flow # "misframed" /\ m_currlen = m_lenTillnow - Header /\ m_data = ReadSoFar(m_lenTillnow)
    BY <2>1 DEF AssemblyInv
  <2>5. m_currlen + len <= m_payloadLen
    BY <2>2, <2>3, <2>4, Lengths
  <2>6. m_data' = ReadSoFar(m_lenTillnow')
    <3>1. m_lenTillnow' \in Nat
      BY <2>2, <2>3
    <3> QED
      BY <2>1, <2>2, <2>3, <2>4, <2>5, <3>1, NextChunk
  <2>7. m_currlen' = m_lenTillnow' - Header
    BY <2>1, <2>2, <2>3, <2>4, <2>5, Lengths
  <2>8. m_data' # <<>>
    <3>1. ReadSoFar(m_lenTillnow') \in [1 .. PayloadLen -> Nat]
      BY DEF ReadSoFar
    <3> QED
      BY <2>6, <3>1, NotNull
  <2> QED
    BY <2>1, <2>2, <2>4, <2>5, <2>6, <2>7, <2>8 DEF AssemblyInv
<1>5. CASE UNCHANGED vars
  BY <1>5 DEF vars, netVars, bufVars, AssemblyInv
<1> QED
  BY <1>1, <1>2, <1>3, <1>4, <1>5 DEF Next, Data

\* The chunks are put together right.
LEMMA AssemblyImpliesAssembled == AssemblyInv => Assembled
BY DEF AssemblyInv, Assembled, ReadSoFar, Payload

\* However the request is split otherwise, the uninitialized m_currlen is read
\* only if a segment ends right after the header: without one the buffer is
\* always the payload read so far.
THEOREM AssembledCorrect ==
    ASSUME Header \notin Cuts
    PROVE  Spec => []Assembled
BY FlowTypeAlways, AssemblyInit, AssemblyStep, AssemblyImpliesAssembled, PTL DEF Spec
-----------------------------------------------------------------------------
(* How often, and on what, the request is performed.                       *)

\* After how many of the first n bytes of the request Complete holds.
Early(n) == IF n >= PayloadLen THEN n - PayloadLen + 1 ELSE 0

\* Between two checks of data() at least one byte is read: a call starts with
\* something to read or with the client gone, and goes to the check only after
\* a read.
CountInv ==
    /\ Len(handled) <= Early(m_lenTillnow)
    /\ ending \/ tries \in 1 .. NUM_READ_TRY - 1 => Len(handled) <= Early(m_lenTillnow - 1)
    /\ tries = NUM_READ_TRY => arrived > m_lenTillnow \/ peer # "open"

\* Early counts no read twice.
LEMMA EarlyGrows ==
    /\ \A n \in Int : Early(n) \in Nat
    /\ \A n, m \in Int : n <= m => Early(n) <= Early(m)
    /\ \A n \in Int : n >= PayloadLen => Early(n) = Early(n - 1) + 1
    /\ Early(Total) = Header + 1
<1>1. PayloadLen \in Int
  BY Lengths
<1>2. \A n \in Int : n >= PayloadLen => Early(n) = Early(n - 1) + 1
  BY <1>1 DEF Early
<1> QED
  BY <1>1, <1>2, Lengths DEF Early

\* Initially nothing was read or performed.
LEMMA CountInit == Init => CountInv
<1> SUFFICES ASSUME Init
             PROVE  CountInv
  OBVIOUS
<1>1. tries = 0 /\ ~ending /\ m_lenTillnow = 0 /\ Len(handled) = 0
  BY DEF Init
<1>2. 0 <= Early(0)
  BY EarlyGrows
<1> QED
  BY <1>1, <1>2, Lengths DEF CountInv

\* Every step keeps the count.
LEMMA CountStep == FlowTypeInv /\ CountInv /\ [Next]_vars => CountInv'
<1> SUFFICES ASSUME FlowTypeInv, CountInv, [Next]_vars
             PROVE  CountInv'
  OBVIOUS
<1> USE DEF FlowTypeInv
<1> DEFINE done == Len(handled)
<1>1. /\ m_lenTillnow \in Int /\ m_lenTillnow - 1 \in Int /\ arrived \in Int
      /\ tries \in 0 .. NUM_READ_TRY /\ NUM_READ_TRY \in Nat \ {0} /\ done \in Nat
  BY Lengths DEF StreamInv, CallInv, HandledInv
<1>2. ASSUME UNCHANGED <<m_lenTillnow, handled, ending, tries>>,
             tries = NUM_READ_TRY => arrived' > m_lenTillnow \/ peer' # "open"
      PROVE  CountInv'
  BY <1>2 DEF CountInv
<1>3. CASE Deliver
  <2>1. /\ UNCHANGED <<m_lenTillnow, handled, ending, tries, peer>>
        /\ arrived' > arrived /\ arrived' \in Cuts
    BY <1>3 DEF Deliver, bufVars
  <2>2. arrived' \in Int
    BY <2>1, Lengths
  <2>3. tries = NUM_READ_TRY => arrived' > m_lenTillnow \/ peer' # "open"
    BY <1>1, <2>1, <2>2 DEF CountInv
  <2> QED
    BY <1>2, <2>1, <2>3
<1>4. CASE Close \/ ResetByPeer
  <2>1. UNCHANGED <<m_lenTillnow, handled, ending, tries>> /\ peer' # "open"
    BY <1>4 DEF Close, ResetByPeer, bufVars
  <2> QED
    BY <1>2, <2>1
<1>5. CASE DataBegin
  <2>1. /\ UNCHANGED <<arrived, peer, m_lenTillnow, handled>>
        /\ tries' = NUM_READ_TRY /\ ending' = FALSE
        /\ Available > 0 \/ peer # "open"
    BY <1>5 DEF DataBegin, netVars, bufVars
  <2>2. arrived' > m_lenTillnow' \/ peer' # "open"
    BY <1>1, <2>1 DEF Available
  <2>3. tries' \notin 1 .. NUM_READ_TRY - 1
    BY <1>1, <2>1
  <2> QED
    BY <2>1, <2>2, <2>3 DEF CountInv
<1>6. CASE ReadEnd
  <2>1. UNCHANGED <<m_lenTillnow, handled, ending>> /\ tries' = 0 /\ tries > 0
    BY <1>6 DEF ReadEnd, Reading, bufVars
  <2>2. ending' => Len(handled') <= Early(m_lenTillnow' - 1)
    BY <2>1 DEF CountInv
  <2> QED
    BY <1>1, <2>1, <2>2 DEF CountInv
<1>7. CASE ReadAgain
  <2>1. UNCHANGED <<m_lenTillnow, handled>> /\ tries' = 0 /\ tries > 0
        /\ peer = "open" /\ Available = 0
    BY <1>7 DEF ReadAgain, Reading, bufVars
  <2>2. tries # NUM_READ_TRY
    BY <1>1, <2>1 DEF CountInv, Available
  <2>3. tries \in 1 .. NUM_READ_TRY - 1
    BY <1>1, <2>1, <2>2
  <2> QED
    BY <1>1, <2>1, <2>3 DEF CountInv
<1>8. ASSUME NEW len \in 1 .. BUFLEN, Got(len)
      PROVE  CountInv'
  <2>1. /\ len \in Nat /\ len > 0 /\ m_lenTillnow' = m_lenTillnow + len
        /\ tries > 0 /\ tries' = tries - 1 /\ UNCHANGED <<handled>>
    BY <1>8, GotBytes
  <2>2. /\ m_lenTillnow' \in Int /\ m_lenTillnow' - 1 \in Int
        /\ m_lenTillnow <= m_lenTillnow' - 1 /\ m_lenTillnow <= m_lenTillnow'
    BY <1>1, <2>1
  <2>3. Early(m_lenTillnow) <= Early(m_lenTillnow' - 1) /\ Early(m_lenTillnow) <= Early(m_lenTillnow')
    BY <1>1, <2>2, EarlyGrows
  <2>4. done <= Early(m_lenTillnow' - 1) /\ done <= Early(m_lenTillnow')
    <3>1. /\ Early(m_lenTillnow) \in Nat /\ Early(m_lenTillnow' - 1) \in Nat
          /\ Early(m_lenTillnow') \in Nat
      BY <1>1, <2>2, EarlyGrows
    <3>2. done <= Early(m_lenTillnow)
      BY DEF CountInv
    <3> QED
      BY <1>1, <2>3, <3>1, <3>2
  <2>5. tries' # NUM_READ_TRY
    BY <1>1, <2>1
  <2> QED
    BY <2>1, <2>4, <2>5 DEF CountInv
<1>9. CASE DataEnd
  <2>1. /\ UNCHANGED <<m_lenTillnow, tries>> /\ ending /\ ending' = FALSE
        /\ \/ UNCHANGED handled
           \/ HasType /\ Complete /\ handled' = Append(handled, m_data)
    BY <1>9 DEF DataEnd, Parse, bufVars
  <2>2. tries = 0
    BY <2>1 DEF CallInv
  <2>3. Len(handled') <= Early(m_lenTillnow')
    <3>1. CASE UNCHANGED handled
      BY <2>1, <3>1 DEF CountInv
    <3>2. CASE HasType /\ Complete /\ handled' = Append(handled, m_data)
      <4>1. m_data \in Image /\ m_lenTillnow >= PayloadLen
        BY <3>2 DEF HasType, Complete, BufferInv
      <4>2. Len(handled') = done + 1
        BY <3>2, <4>1 DEF HandledInv
      <4>3. Early(m_lenTillnow) = Early(m_lenTillnow - 1) + 1
        BY <1>1, <4>1, EarlyGrows
      <4>4. done <= Early(m_lenTillnow - 1) /\ Early(m_lenTillnow - 1) \in Nat
        BY <1>1, <2>1, EarlyGrows DEF CountInv
      <4> QED
        BY <1>1, <2>1, <4>2, <4>3, <4>4
    <3> QED
      BY <2>1, <3>1, <3>2
  <2> QED
    BY <1>1, <2>1, <2>2, <2>3 DEF CountInv
<1>10. CASE UNCHANGED vars
  BY <1>2, <1>10 DEF vars, netVars, bufVars, CountInv
<1> QED
  BY <1>3, <1>4, <1>5, <1>6, <1>7, <1>8, <1>9, <1>10 DEF Next, Data, ReadFirst, ReadMore

\* What was performed was the payload read so far, with at most the last bytes
\* missing; and when data() is done with the whole request, it was the whole.
PerformedInv ==
    /\ \A i \in DOMAIN handled : \E n \in PayloadLen .. Total : handled[i] = ReadSoFar(n)
    /\ WholeIsHandled

\* Initially nothing was read or performed.
LEMMA PerformedInit == Init => PerformedInv
<1> SUFFICES ASSUME Init
             PROVE  PerformedInv
  OBVIOUS
<1>1. handled = <<>> /\ m_lenTillnow # Total
  BY Lengths DEF Init
<1> QED
  BY <1>1 DEF PerformedInv, WholeIsHandled

\* With all of the request read, m_data is the payload.
LEMMA AllRead == ReadSoFar(Total) = Payload
<1>1. \A j \in 1 .. PayloadLen : j <= Total - Header
  BY Lengths
<1> QED
  BY <1>1 DEF ReadSoFar, Payload

\* Every step keeps that.
LEMMA PerformedStep ==
    ASSUME FlowTypeInv, AssemblyInv, PerformedInv, [Next]_vars
    PROVE  PerformedInv'
<1> USE DEF FlowTypeInv
<1>1. ASSUME UNCHANGED handled,
             flow' = "open" /\ tries' = 0 /\ ~ending' =>
                flow = "open" /\ tries = 0 /\ ~ending /\ UNCHANGED m_lenTillnow
      PROVE  PerformedInv'
  <2>1. WholeIsHandled'
    BY <1>1 DEF PerformedInv, WholeIsHandled
  <2> QED
    BY <1>1, <2>1 DEF PerformedInv
<1>2. CASE Deliver \/ Close \/ ResetByPeer
  <2>1. UNCHANGED <<handled, flow, tries, ending, m_lenTillnow>>
    BY <1>2 DEF Deliver, Close, ResetByPeer, bufVars
  <2> QED
    BY <1>1, <2>1
<1>3. CASE DataBegin \/ ReadEnd \/ ReadAgain
  <2>1. UNCHANGED handled /\ (tries' = NUM_READ_TRY \/ flow' = "deleted" \/ ending' = TRUE)
    BY <1>3 DEF DataBegin, ReadEnd, ReadAgain
  <2> QED
    BY <1>1, <2>1, Lengths
<1>4. ASSUME NEW len \in 1 .. BUFLEN, Got(len)
      PROVE  PerformedInv'
  <2>1. /\ tries > 0 /\ tries' = tries - 1 /\ ending' = (tries = 1) /\ UNCHANGED <<handled>>
    BY <1>4, GotBytes
  <2>2. tries \in Nat
    BY Lengths DEF CallInv
  <2>3. tries' = 0 => tries = 1
    BY <2>1, <2>2
  <2> QED
    BY <1>1, <2>1, <2>3
<1>5. CASE DataEnd
  <2>1. /\ flow = "open" /\ UNCHANGED <<m_lenTillnow, tries, m_data>>
        /\ \/ ~Complete /\ UNCHANGED handled
           \/ flow' = "deleted" /\ UNCHANGED handled
           \/ HasType /\ Complete /\ handled' = Append(handled, m_data)
    BY <1>5 DEF DataEnd, Parse, bufVars
  <2>2. m_lenTillnow \in 0 .. Total
    BY DEF StreamInv
  <2>3. CASE ~Complete /\ UNCHANGED handled
    <3>1. m_lenTillnow < m_payloadLen /\ m_payloadLen <= PayloadLen
      BY <2>2, <2>3, Lengths DEF Complete, BufferInv
    <3>2. m_lenTillnow' # Total
      BY <2>1, <2>2, <3>1, Lengths DEF BufferInv
    <3> QED
      BY <2>3, <3>2 DEF PerformedInv, WholeIsHandled
  <2>4. CASE flow' = "deleted" /\ UNCHANGED handled
    BY <1>1, <2>4
  <2>5. CASE HasType /\ Complete /\ handled' = Append(handled, m_data)
    <3>1. m_data = ReadSoFar(m_lenTillnow) /\ m_data \in Image /\ m_lenTillnow \in PayloadLen .. Total
      BY <2>2, <2>5, Lengths DEF HasType, Complete, AssemblyInv, BufferInv
    <3>2. /\ handled' # <<>> /\ handled'[Len(handled')] = m_data
          /\ DOMAIN handled' = DOMAIN handled \cup {Len(handled')}
          /\ \A i \in DOMAIN handled : handled'[i] = handled[i]
      BY <2>5, <3>1 DEF HandledInv
    <3>3. WholeIsHandled'
      BY <2>1, <3>1, <3>2, AllRead DEF WholeIsHandled
    <3> QED
      BY <3>1, <3>2, <3>3 DEF PerformedInv
  <2> QED
    BY <2>1, <2>3, <2>4, <2>5
<1>6. CASE UNCHANGED vars
  BY <1>1, <1>6 DEF vars, netVars, bufVars
<1> QED
  BY <1>2, <1>3, <1>4, <1>5, <1>6 DEF Next, Data, ReadFirst, ReadMore

\* So never more than the header's bytes are missing from what is performed.
LEMMA PerformedImpliesMisses ==
    ASSUME FlowTypeInv, CountInv, PerformedInv
    PROVE  MissesAtMostHeader
<1>1. Len(handled) <= Header + 1
  <2>1. m_lenTillnow \in Int /\ Total \in Int /\ m_lenTillnow <= Total /\ Len(handled) \in Nat
    BY Lengths DEF FlowTypeInv, StreamInv, HandledInv
  <2>2. Early(m_lenTillnow) <= Early(Total) /\ Early(m_lenTillnow) \in Nat
        /\ Early(Total) = Header + 1
    BY <2>1, EarlyGrows
  <2> QED
    BY <2>1, <2>2, Lengths DEF CountInv
<1>2. ASSUME NEW i \in DOMAIN handled, NEW j \in 1 .. PayloadLen - Header
      PROVE  handled[i][j] = Payload[j]
  <2>1. PICK n \in PayloadLen .. Total : handled[i] = ReadSoFar(n)
    BY DEF PerformedInv
  <2>2. j \in 1 .. PayloadLen /\ j <= n - Header
    BY Lengths
  <2> QED
    BY <2>1, <2>2 DEF ReadSoFar, Payload
<1> QED
  BY <1>1, <1>2 DEF MissesAtMostHeader

\* The three invariants together.
LEMMA PerformedAlways ==
    ASSUME Header \notin Cuts
    PROVE  Spec => [](FlowTypeInv /\ CountInv /\ PerformedInv)
BY FlowTypeAlways, AssemblyInit, AssemblyStep, CountInit, CountStep, PerformedInit, PerformedStep,
   PTL DEF Spec

\* When data() returns with the whole request read, the last request performed
\* was the whole one, whatever it had performed too early.
THEOREM WholeIsHandledCorrect ==
    ASSUME Header \notin Cuts
    PROVE  Spec => []WholeIsHandled
<1>1. PerformedInv => WholeIsHandled
  BY DEF PerformedInv
<1> QED
  BY <1>1, PerformedAlways, PTL

\* The check that forgets the header performs a request at most four times too
\* early, each time with all but at most its last four bytes.
THEOREM MissesAtMostHeaderCorrect ==
    ASSUME Header \notin Cuts
    PROVE  Spec => []MissesAtMostHeader
<1>1. FlowTypeInv /\ CountInv /\ PerformedInv => MissesAtMostHeader
  BY PerformedImpliesMisses
<1> QED
  BY <1>1, PerformedAlways, PTL
-----------------------------------------------------------------------------
(* Requests that are not answered.                                         *)

\* The client closes only what was answered.
RefusalInv ==
    /\ RefusesOnlyShort
    /\ peer = "closed" => handled # <<>>

\* With the check passed, only a request that is too short can be without its
\* type: of the others more than the header and the type have been read.
LEMMA NoTypeIsShort ==
    ASSUME FlowTypeInv, AssemblyInv, m_data # <<>>, Complete, ~HasType
    PROVE  PayloadLen < Header + TypeLen
<1>1. PICK j \in 1 .. TypeLen : m_data[j] = 0
  BY DEF HasType
<1>2. j \in 1 .. PayloadLen /\ j <= TypeLen /\ PayloadLen \in Nat /\ TypeLen \in Nat
  BY Lengths
<1>3. /\ m_data = ReadSoFar(m_lenTillnow) /\ m_payloadLen = PayloadLen
      /\ m_lenTillnow \in Nat
  BY Lengths DEF FlowTypeInv, AssemblyInv, BufferInv, StreamInv
<1>4. m_data[j] = IF j <= m_lenTillnow - Header THEN j ELSE 0
  BY <1>2, <1>3 DEF ReadSoFar
<1>5. ~(j <= m_lenTillnow - Header)
  BY <1>1, <1>2, <1>4
<1>6. m_lenTillnow >= PayloadLen
  BY <1>3 DEF Complete
<1> QED
  BY <1>2, <1>3, <1>5, <1>6, Lengths

\* Every step keeps that.
LEMMA RefusalStep ==
    ASSUME FlowTypeInv, AssemblyInv, RefusalInv, [Next]_vars
    PROVE  RefusalInv'
<1> USE DEF RefusalInv, RefusesOnlyShort
<1>1. CASE Deliver \/ Close \/ ResetByPeer
  BY <1>1 DEF Deliver, Close, ResetByPeer, bufVars
<1>2. CASE DataBegin \/ ReadAgain
  BY <1>2 DEF DataBegin, ReadAgain, netVars, bufVars
<1>3. CASE ReadEnd
  BY <1>3 DEF ReadEnd, netVars, bufVars
<1>4. CASE ReadFirst
  <2>1. flow = "open" /\ UNCHANGED <<peer, handled>> /\ (UNCHANGED flow \/ flow' = "misframed")
    BY <1>4 DEF ReadFirst, Got, Reading, netVars
  <2> QED
    BY <2>1
<1>5. CASE ReadMore
  <2>1. flow = "open" /\ UNCHANGED <<peer, handled>> /\ (UNCHANGED flow \/ flow' = "misframed")
    BY <1>5 DEF ReadMore, Got, Reading, netVars
  <2> QED
    BY <2>1
<1>6. CASE DataEnd
  <2>1. UNCHANGED <<peer, m_data>> /\ flow = "open"
    BY <1>6 DEF DataEnd, netVars, bufVars
  <2>2. CASE UNCHANGED <<flow, handled>>
    BY <2>1, <2>2
  <2>3. CASE HasType /\ handled' = Append(handled, m_data)
    <3>1. handled' # <<>>
      BY <2>3, Lengths DEF FlowTypeInv, HandledInv, BufferInv, HasType
    <3> QED
      BY <3>1
  <2>4. CASE Complete /\ ~HasType /\ UNCHANGED handled
    <3>1. m_data = <<>> \/ PayloadLen < Header + TypeLen
      BY <2>4, NoTypeIsShort
    <3> QED
      BY <2>1, <2>4, <3>1
  <2> QED
    BY <1>6, <2>2, <2>3, <2>4 DEF DataEnd, Parse
<1>7. CASE UNCHANGED vars
  BY <1>7 DEF vars, netVars, bufVars
<1> QED
  BY <1>1, <1>2, <1>3, <1>4, <1>5, <1>6, <1>7 DEF Next, Data

\* If no segment ends right after the header, only a request with less payload
\* than a header and a type is refused without its client having reset the
\* connection: a STAT, or a GET of a key of at most one byte.
THEOREM RefusesOnlyShortCorrect ==
    ASSUME Header \notin Cuts
    PROVE  Spec => []RefusesOnlyShort
<1>1. Init => RefusalInv
  BY DEF Init, RefusalInv, RefusesOnlyShort
<1>2. FlowTypeInv /\ AssemblyInv /\ RefusalInv /\ [Next]_vars => RefusalInv'
  BY RefusalStep
<1>3. FlowTypeInv /\ AssemblyInv /\ [Next]_vars => AssemblyInv'
  BY AssemblyStep
<1>4. RefusalInv => RefusesOnlyShort
  BY DEF RefusalInv
<1> QED
  BY <1>1, <1>2, <1>3, <1>4, FlowTypeAlways, AssemblyInit, PTL DEF Spec
=============================================================================
