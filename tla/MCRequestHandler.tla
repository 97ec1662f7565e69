-------------------------- MODULE MCRequestHandler --------------------------
(* RequestHandler for TLC: two keys, whose single hashes differ.            *)
EXTENDS RequestHandler

CONSTANTS k1, k2

MCKey == {k1, k2}
MCSalt == {0}
MCHashAp == [<<k, s>> \in MCKey \X MCSalt |-> IF k = k1 THEN 3 ELSE 12]
=============================================================================
