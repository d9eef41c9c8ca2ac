---------------------------- MODULE Snapshotter -----------------------------
(***************************************************************************)
(* What the snapshotter promises its user, without a word about ptrace:    *)
(* one run of the program captures one target at most once, while it       *)
(* lives, touches the snapshot file only afterwards, and ends with status  *)
(* 0 only when the target is dead and the file either complete or as an    *)
(* earlier run left it (README.md, "Taking a snapshot").                   *)
(***************************************************************************)
CONSTANT Ptr   \* instruction pointers

VARIABLES
  status,    \* the program: busy, or how it ended
  target,    \* its target: absent, live or dead
  captured,  \* the processor state: whether it was captured, and where
  file       \* ql_snapshot

snapshotterVars == <<status, target, captured, file>>

Init ==
  /\ status = "busy"
  /\ target = "absent"
  /\ captured = [taken |-> FALSE, ip |-> 0]
  /\ file = "stale"

Launch ==
  /\ status = "busy"
  /\ target = "absent"
  /\ target' = "live"
  /\ UNCHANGED <<status, captured, file>>

\* By itself, by somebody's signal, or because the program ends it.
TargetDies ==
  /\ target = "live"
  /\ target' = "dead"
  /\ UNCHANGED <<status, captured, file>>

Capture ==
  /\ status = "busy"
  /\ target = "live"
  /\ ~captured.taken
  /\ \E ip \in Ptr : captured' = [taken |-> TRUE, ip |-> ip]
  /\ UNCHANGED <<status, target, file>>

Truncate ==
  /\ status = "busy"
  /\ captured.taken
  /\ file = "stale"
  /\ file' = "partial"
  /\ UNCHANGED <<status, target, captured>>

Complete ==
  /\ status = "busy"
  /\ file = "partial"
  /\ file' = "complete"
  /\ UNCHANGED <<status, target, captured>>

Succeed ==
  /\ status = "busy"
  /\ target = "dead"
  /\ file = "complete" \/ ~captured.taken
  /\ status' = "ok"
  /\ UNCHANGED <<target, captured, file>>

\* A failure, or the death of the program, may take the target with it.
GiveUp ==
  /\ status = "busy"
  /\ status' \in {"failed", "killed"}
  /\ target' \in IF target = "live" THEN {"live", "dead"} ELSE {target}
  /\ UNCHANGED <<captured, file>>

Next == Launch \/ TargetDies \/ Capture \/ Truncate \/ Complete \/ Succeed \/ GiveUp

Spec == Init /\ [][Next]_snapshotterVars

=============================================================================
