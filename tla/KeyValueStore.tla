--------------------------- MODULE KeyValueStore ---------------------------
(***************************************************************************)
(* What the dictionary promises to the threads that share it: every call   *)
(* takes effect in one indivisible step between its beginning and its end. *)
(* A SET is stored or, once the store is full, refused; a GET answers the  *)
(* value now in the store, or a miss when the key has none.                *)
(***************************************************************************)
EXTENDS Naturals, FiniteSets

CONSTANTS
    Client,     \* the threads that call the store
    Key, Value,
    Miss,       \* the answers that stand for "no such key"
    Capacity,   \* a SET is refused only when the store holds that many keys
    Slack       \* by how many keys concurrent SETs may overrun Capacity

VARIABLES
    store,      \* the keys stored so far and their values
    request,    \* the call each client is in, or Idle
    answer      \* its answer, or NoAnswer while it has not taken effect

vars == <<store, request, answer>>

Idle == [op |-> "none"]
NoAnswer == "no_answer"
Request == [op : {"set"}, key : Key, val : Value] \cup [op : {"get"}, key : Key]

Init ==
    /\ store = [k \in {} |-> k]
    /\ request = [c \in Client |-> Idle]
    /\ answer = [c \in Client |-> NoAnswer]

Pending(c, op) == request[c].op = op /\ answer[c] = NoAnswer
Answer(c, a) == answer' = [answer EXCEPT ![c] = a] /\ UNCHANGED request

Call(c, r) ==
    /\ request[c] = Idle
    /\ request' = [request EXCEPT ![c] = r]
    /\ UNCHANGED <<store, answer>>

Store(c) ==
    LET r == request[c]
    IN  /\ Pending(c, "set")
        /\ Cardinality(DOMAIN store \cup {r.key}) <= Capacity + Slack
        /\ store' = [k \in DOMAIN store \cup {r.key} |->
                        IF k = r.key THEN r.val ELSE store[k]]
        /\ Answer(c, "stored")

Refuse(c) ==
    /\ Pending(c, "set")
    /\ Cardinality(DOMAIN store) >= Capacity
    /\ Answer(c, "refused")
    /\ UNCHANGED store

Find(c) ==
    /\ Pending(c, "get")
    /\ LET k == request[c].key
       IN  IF k \in DOMAIN store THEN Answer(c, store[k])
                                 ELSE \E m \in Miss : Answer(c, m)
    /\ UNCHANGED store

Return(c) ==
    /\ answer[c] # NoAnswer
    /\ request' = [request EXCEPT ![c] = Idle]
    /\ answer' = [answer EXCEPT ![c] = NoAnswer]
    /\ UNCHANGED store

Next == \E c \in Client :
    \/ \E r \in Request : Call(c, r)
    \/ Store(c) \/ Refuse(c) \/ Find(c) \/ Return(c)

Spec == Init /\ [][Next]_vars
=============================================================================
