------------------------------- MODULE MCDump -------------------------------
(***************************************************************************)
(* Small targets for model checking MappingDump.                           *)
(***************************************************************************)
EXTENDS MappingDumpProofs

Plain(s, e)   == [start |-> s, end |-> e, prot |-> {"r", "w"}, kind |-> "plain"]
Guard(s, e)   == [start |-> s, end |-> e, prot |-> {}, kind |-> "plain"]
Special(s, e) == [start |-> s, end |-> e, prot |-> {"r", "w"}, kind |-> "special"]
Device(s, e)  == [start |-> s, end |-> e, prot |-> {"r", "w"}, kind |-> "device"]

\* A mapping of one chunk and a half, one that may not be read, one that is
\* skipped and one that cannot be read although it may.
MCLayouts ==
  { {Plain(0, 3), Guard(3, 4), Plain(4, 5)},
    {Plain(0, 1), Special(1, 2), Plain(2, 5)},
    {Device(0, 2), Plain(2, 4)},
    {Plain(0, 2), Guard(3, 5)} }
=============================================================================
