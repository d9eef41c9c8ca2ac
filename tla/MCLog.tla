-------------------------------- MODULE MCLog -------------------------------
(***************************************************************************)
(* Threads that log at the same time, for model checking Log.              *)
(***************************************************************************)
EXTENDS LogProofs, TLC

CONSTANTS t1, t2

MCThreads == {t1, t2}
MCNames == {NoName, "", "DEBUG", "WARNING", "ERROR", "verbose"}
MCSymmetry == Permutations(MCThreads)
=============================================================================
