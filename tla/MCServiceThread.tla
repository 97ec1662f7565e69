-------------------------- MODULE MCServiceThread --------------------------
(* ServiceThread for TLC.                                                    *)
EXTENDS ServiceThread
=============================================================================
