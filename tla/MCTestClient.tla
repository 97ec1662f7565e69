---------------------------- MODULE MCTestClient ----------------------------
(* TestClient for TLC: a file of five operations, one with a blank value;    *)
(* one with a line that is no operation and a newline at its end; none; and  *)
(* one of a single line.                                                     *)
EXTENDS TestClient

MCMixed == [lines |-> <<<<"SET", "k1", "v1">>, <<"get", "k1", "v1">>, <<"STAT">>, <<"SET", "", "k2", " ", "">>, <<"STAT">>>>,
            newline |-> FALSE]
MCBad == [lines |-> <<<<"GET">>, <<"STAT">>>>, newline |-> TRUE]
MCFiles == {MCMixed, MCBad, NoFile}
MCThread == 1 .. 3
MCThreadCounts == 0 .. 3
MCOneFile == {[lines |-> <<<<"STAT">>>>, newline |-> FALSE]}
=============================================================================
