------------------------------ MODULE MCTracer ------------------------------
(***************************************************************************)
(* A small target program for model checking Tracer: addresses 0..5, four  *)
(* instructions at 0 (1 byte), 1 (2 bytes, the entry point), 3 (1 byte)    *)
(* and 4 (2 bytes, the exit).                                              *)
(***************************************************************************)
EXTENDS TracerRefines, TLC

MCInsn == {0, 1, 3, 4}

\* 1 -> 3 -> 4, with the jumps 3 -> 0 and 0 -> 3: a program with loops.
LoopSucc == (0 :> {1, 3}) @@ (1 :> {3}) @@ (3 :> {0, 4}) @@ (4 :> {})

\* Every path ends in the exit.
StraightSucc == (0 :> {3}) @@ (1 :> {0, 3}) @@ (3 :> {4}) @@ (4 :> {})
=============================================================================
