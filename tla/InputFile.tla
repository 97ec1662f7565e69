----------------------------- MODULE InputFile -----------------------------
(***************************************************************************)
(* TestClient::readAndParseInputFile (client/src/TestClient.cpp): from the *)
(* lines of the input file to the messages the client threads send.  A     *)
(* line is the sequence of what stands between its commas: "" for nothing, *)
(* " " for blanks only, else a word whose surrounding blanks are left out. *)
(***************************************************************************)
EXTENDS Naturals, Sequences, FiniteSets

CONSTANT UninitType     \* values of the type member that no branch has set

MessageType == {"GET", "SET", "STAT"}
ASSUME TypeAssumption == MessageType \subseteq UninitType

\* A file that cannot be opened; an empty one has a newline and no lines.
NoFile == [lines |-> <<>>, newline |-> FALSE]

\* Helper::trim, and caseInSensStringCompare with the name of an operation.
Trim(token) == IF token = " " THEN "" ELSE token
Names(op) == [GET |-> {"GET", "get"}, SET |-> {"SET", "set"}, STAT |-> {"STAT", "stat"}][op]

\* strtok_r passes over empty tokens, not over blank ones.
Tokens(line) == {i \in DOMAIN line : line[i] # ""}
NumFields(line) == Cardinality(Tokens(line))
Field(line, n) ==
    LET nth == CHOOSE i \in Tokens(line) : Cardinality({j \in Tokens(line) : j <= i}) = n
    IN  Trim(line[nth])

Message(i, type, key, value) == [id |-> i, type |-> type, key |-> key, value |-> value]

\* Faulty variant: a GET must have exactly two fields.
Parse_ExactGet(line, i) ==
    LET Is(op, n) == NumFields(line) >= n /\ Field(line, 1) \in Names(op)
    IN  IF Is("GET", 2) /\ NumFields(line) = 2 THEN {Message(i, "GET", Field(line, 2), "")}
        ELSE IF Is("SET", 3) THEN {Message(i, "SET", Field(line, 2), Field(line, 3))}
        ELSE IF Is("STAT", 1) THEN {Message(i, "STAT", "", "")}
        ELSE {Message(i, type, "", "") : type \in UninitType}

\* The messages line i can become.  One is pushed for every line, whether or
\* not a branch has set its type.  (id is the place in input_data.)
Parse(line, i) ==
    LET Is(op, n) == NumFields(line) >= n /\ Field(line, 1) \in Names(op)
    IN  IF Is("GET", 2) THEN {Message(i, "GET", Field(line, 2), "")}
        ELSE IF Is("SET", 3) THEN {Message(i, "SET", Field(line, 2), Field(line, 3))}
        ELSE IF Is("STAT", 1) THEN {Message(i, "STAT", "", "")}
        ELSE {Message(i, type, "", "") : type \in UninitType}

\* eof() is true only after a getline has met the end: a newline at the end of
\* the file makes one more, empty, line.
Lines(file) == IF file.newline THEN Append(file.lines, <<>>) ELSE file.lines

\* The vectors that the file can be read into.
Inputs(file) ==
    LET lines == Lines(file)
        Messages == UNION {Parse(lines[i], i) : i \in DOMAIN lines}
    IN  {s \in [DOMAIN lines -> Messages] : \A i \in DOMAIN lines : s[i] \in Parse(lines[i], i)}

\* What the format asks of a line: the operation, then its key and value.
Operands == [GET |-> 1, SET |-> 2, STAT |-> 0]
Operation(line) ==
    \E op \in MessageType :
        /\ line # <<>> /\ line[1] \in Names(op)
        /\ Cardinality({i \in 2 .. Len(line) : line[i] # ""}) >= Operands[op]
=============================================================================
