---------------------------- MODULE MCDictionary ----------------------------
(* Dictionary for TLC: three keys, whose hashes make k3 a false positive    *)
(* once k1 and k2 are in the filter.                                        *)
EXTENDS Dictionary

CONSTANTS k1, k2, k3

MCKey == {k1, k2, k3}
MCSalt == 0 .. 1
MCHashAp == [<<k, s>> \in MCKey \X MCSalt |->
                IF k = k1 THEN 3 + 20 * s ELSE IF k = k2 THEN 17 + 10 * s ELSE 35 - 18 * s]
=============================================================================
