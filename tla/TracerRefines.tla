--------------------------- MODULE TracerRefines ----------------------------
(***************************************************************************)
(* Tracer implements Snapshotter.  A target counts as dead from the moment *)
(* it is a zombie; which call main() is at is hidden.                      *)
(***************************************************************************)
EXTENDS TracerProofs

status ==
  IF pc = "exit0" THEN "ok" ELSE
  IF pc = "exit1" THEN "failed" ELSE
  IF pc = "killed" THEN "killed" ELSE "busy"

target ==
  IF tst = "none" THEN "absent" ELSE
  IF tst \in {"zombie", "gone"} THEN "dead" ELSE "live"

Promise == INSTANCE Snapshotter WITH captured <- saved

\* The system calls of main(), in whatever order they meet the signals and the
\* deaths of either process, add up to one run of the abstract snapshotter: one
\* capture of a living target, then the file, then the end (main.c:50-76).
KeepsPromise == Promise!Spec

-----------------------------------------------------------------------------
(* The proof                                                               *)

\* A program that is still at one of its calls is busy.
LEMMA BusyBeforeEnd == pc \notin Ended => status = "busy"
  BY DEF status, Ended

\* What the end of the tracer does to the target, seen from above.
LEMMA DetachedTarget ==
  ASSUME TypeOK, tst' \in Detached(tst)
  PROVE  target' \in IF target = "live" THEN {"live", "dead"} ELSE {target}
  <1>1. /\ tst' \in {"none", "child", "running", "gone"}
        /\ tst \in {"none", "child", "running"} => tst' = tst
        /\ tst \in {"zombie", "gone"} => tst' = "gone"
    BY DetachedStates DEF TypeOK
  <1>2. tst = "none" => target = "absent" /\ target' = "absent"
    BY <1>1 DEF target
  <1>3. tst \in {"zombie", "gone"} => target = "dead" /\ target' = "dead"
    BY <1>1 DEF target
  <1>4. tst \in {"child", "running", "stepping", "stopped"} =>
          target = "live" /\ target' \in {"live", "dead"}
    <2>1. tst \in {"child", "running", "stepping", "stopped"} => tst' # "none"
      BY <1>1, DetachedStates DEF TypeOK
    <2> QED
      BY <1>1, <2>1 DEF target
  <1> QED
    BY <1>2, <1>3, <1>4 DEF TypeOK

\* Before fork() the program is an abstract snapshotter that has not begun.
LEMMA RefinesInit == Init => Promise!Init
  BY DEF Init, Promise!Init, status, target

\* A step of the tracer is a step of the abstract snapshotter, or hidden.
LEMMA RefinesTracer ==
  IInv /\ TracerStep => [Promise!Next]_(Promise!snapshotterVars)
  <1> SUFFICES ASSUME IInv, TracerStep
               PROVE  Promise!Next \/ UNCHANGED <<status, target, saved, file>>
    BY DEF Promise!snapshotterVars
  <1> USE DEF IInv
  <1>1. CASE Fork
    <2>1. /\ pc = "fork" /\ pc' = "wait_exec" /\ tst = "none" /\ tst' = "child"
          /\ UNCHANGED <<saved, file>>
      BY <1>1 DEF Fork, Goto, PhaseInv
    <2>2. Promise!Launch
      BY <2>1 DEF Promise!Launch, status, target
    <2> QED
      BY <2>2 DEF Promise!Next
  <1>2. CASE \/ ForkFails \/ WaitExecDead \/ GetImageBaseFails \/ PtraceFails
             \/ PeekTextFails \/ DumpFails \/ WaitFails \/ PokeTextFails
    <2>1. Fatal /\ pc \notin Ended
      BY <1>2 DEF WaitFails, PokeTextFails, ForkFails, WaitExecDead,
                     GetImageBaseFails, PtraceFails, PeekTextFails,
                  DumpFails, PtraceCalls, Ended
    <2>2. status = "busy" /\ status' = "failed" /\ UNCHANGED <<saved, file>>
      BY <2>1, BusyBeforeEnd DEF Fatal, status
    <2>3. Promise!GiveUp
      BY <2>1, <2>2, DetachedTarget DEF Fatal, Promise!GiveUp
    <2> QED
      BY <2>3 DEF Promise!Next
  <1>3. CASE WaitStepDead \/ WaitBreakpointDead \/ ReapTarget
    <2>1. /\ pc \in {"wait_step", "wait_bp", "reap"} /\ pc' = "exit0"
          /\ tst = "zombie" /\ tst' = "gone" /\ UNCHANGED <<saved, file>>
      BY <1>3 DEF WaitStepDead, WaitBreakpointDead, ReapTarget, TargetEnded, Goto
    <2>2. file = "complete" \/ ~saved.taken
      BY <2>1 DEF FileInv, Ended
    <2>3. Promise!Succeed
      BY <2>1, <2>2 DEF Promise!Succeed, status, target
    <2> QED
      BY <2>3 DEF Promise!Next
  <1>4. CASE CreateSnapshot
    <2>1. /\ pc = "snapshot" /\ pc' = "open" /\ tst = "stopped" /\ tst' = tst
          /\ ~saved.taken /\ saved' = [taken |-> TRUE, ip |-> tip] /\ file' = file
      BY <1>4 DEF CreateSnapshot, Goto, targetVars, FileInv, Ended
    <2>2. \E ip \in Ptr : saved' = [taken |-> TRUE, ip |-> ip]
      BY <2>1 DEF TypeOK
    <2>3. Promise!Capture
      BY <2>1, <2>2 DEF Promise!Capture, status, target
    <2> QED
      BY <2>3 DEF Promise!Next
  <1>5. CASE OpenDump
    <2>1. /\ pc = "open" /\ pc' = "write" /\ tst' = tst /\ saved.taken
          /\ file = "stale" /\ file' = "partial" /\ saved' = saved
      BY <1>5 DEF OpenDump, Goto, targetVars, FileInv, Captured
    <2>2. Promise!Truncate
      BY <2>1 DEF Promise!Truncate, status, target
    <2> QED
      BY <2>2 DEF Promise!Next
  <1>6. CASE CloseDump
    <2>1. /\ pc = "close" /\ pc' = "kill" /\ tst' = tst
          /\ file = "partial" /\ file' = "complete" /\ saved' = saved
      BY <1>6 DEF CloseDump, Goto, targetVars, FileInv
    <2>2. Promise!Complete
      BY <2>1 DEF Promise!Complete, status, target
    <2> QED
      BY <2>2 DEF Promise!Next
  <1>7. CASE KillTarget
    <2>1. /\ pc = "kill" /\ pc' = "reap" /\ tst \in {"stopped", "zombie"}
          /\ tst' = "zombie" /\ UNCHANGED <<saved, file>>
      BY <1>7 DEF KillTarget, Goto, PhaseInv, Held
    <2>2. CASE tst = "stopped"
      <3>1. Promise!TargetDies
        BY <2>1, <2>2 DEF Promise!TargetDies, status, target
      <3> QED
        BY <3>1 DEF Promise!Next
    <2>3. CASE tst = "zombie"
      BY <2>1, <2>3 DEF status, target
    <2> QED
      BY <2>1, <2>2, <2>3
  <1>8. CASE \/ WaitExec \/ GetImageBase \/ PeekText \/ ArmBreakpoint \/ GetRegsBefore
             \/ SingleStep \/ WaitStep \/ RestoreAfterStep \/ Cont \/ WaitBreakpoint
             \/ GetRegsAfter \/ SetRegs \/ RestoreOriginal \/ WriteDump \/ KillFails
    <2>1. pc \notin Ended /\ pc' \notin Ended /\ UNCHANGED <<saved, file>>
      BY <1>8 DEF WaitExec, GetImageBase, PeekText, ArmBreakpoint, GetRegsBefore,
         SingleStep, WaitStep, RestoreAfterStep, Restore, Cont, WaitBreakpoint,
         GetRegsAfter, SetRegs, RestoreOriginal, WriteDump, KillFails, Goto, Ended
    <2>2. tst' = tst \/ (tst = "stopped" /\ tst' \in {"running", "stepping"})
      BY <1>8 DEF WaitExec, GetImageBase, PeekText, ArmBreakpoint, GetRegsBefore,
         SingleStep, WaitStep, RestoreAfterStep, Restore, Cont, WaitBreakpoint,
         GetRegsAfter, SetRegs, RestoreOriginal, WriteDump, KillFails, targetVars
    <2> QED
      BY <2>1, <2>2, BusyBeforeEnd DEF target, status, Ended
  <1> QED
    BY <1>1, <1>2, <1>3, <1>4, <1>5, <1>6, <1>7, <1>8 DEF TracerStep

\* The target and the environment can only end the target, or the program.
LEMMA RefinesOthers ==
  IInv /\ (TargetStep \/ Environment) => [Promise!Next]_(Promise!snapshotterVars)
  <1> SUFFICES ASSUME IInv, TargetStep \/ Environment
               PROVE  Promise!Next \/ UNCHANGED <<status, target, saved, file>>
    BY DEF Promise!snapshotterVars
  <1>1. CASE KilledTracer
    <2>1. /\ pc \notin Ended /\ pc' = "killed" /\ tst' \in Detached(tst)
          /\ UNCHANGED <<saved, file>>
      BY <1>1 DEF KilledTracer, Alive
    <2>2. Promise!GiveUp
      BY <2>1, BusyBeforeEnd, DetachedTarget DEF Promise!GiveUp, status, IInv
    <2> QED
      BY <2>2 DEF Promise!Next
  <1>2. CASE TargetStep \/ Signal \/ KilledTarget
    <2>1. /\ UNCHANGED <<pc, saved, file>>
          /\ tst \in {"child", "running", "stepping", "stopped"}
          /\ tst' \in {"running", "stepping", "stopped", "zombie", "gone"}
      BY <1>2 DEF TargetStep, TraceMe, Execve, ExecveFails, Execute, Trap,
         ExecuteGarbage, Store, Exit, Signal, KilledTarget, Running, AfterInsn, Dead,
         tracerVars
    <2>2. status' = status
      BY <2>1 DEF status
    <2>3. CASE tst' \in {"zombie", "gone"}
      <3>1. Promise!TargetDies
        BY <2>1, <2>2, <2>3 DEF Promise!TargetDies, target
      <3> QED
        BY <3>1 DEF Promise!Next
    <2>4. CASE tst' \notin {"zombie", "gone"}
      BY <2>1, <2>2, <2>4 DEF target
    <2> QED
      BY <2>3, <2>4
  <1> QED
    BY <1>1, <1>2 DEF Environment

\* The snapshotter keeps its promise for every target, every breakpoint offset and
\* any number of signals and kills: its every step is a step of Snapshotter, or
\* changes nothing that Snapshotter shows.
THEOREM TracerImplementsSnapshotter == Spec => KeepsPromise
  <1>1. IInv /\ [Next]_vars => [Promise!Next]_(Promise!snapshotterVars)
    <2>1. ASSUME UNCHANGED vars PROVE UNCHANGED Promise!snapshotterVars
      BY <2>1 DEF vars, Promise!snapshotterVars, status, target
    <2> QED
      BY <2>1, RefinesTracer, RefinesOthers DEF Next, Finished
  <1> QED
    BY <1>1, RefinesInit, Inductive, PTL DEF Spec, KeepsPromise, Promise!Spec
=============================================================================
