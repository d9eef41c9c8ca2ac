---------------------------- MODULE TracerProofs ----------------------------
(***************************************************************************)
(* Proofs about Tracer, for every target program, every breakpoint offset  *)
(* and any number of signals and kills.                                    *)
(***************************************************************************)
EXTENDS Tracer, TLAPS

\* The target cannot move: it is stopped under the tracer, or dead.
Held == PtraceCalls \cup {"image_base", "open", "write", "close", "kill", "reap"}

\* No breakpoint was set yet.
Unarmed == {"fork", "wait_exec", "image_base", "peek", "poke"}

\* old_word was read: create_breakpoint got past PTRACE_PEEKTEXT.
Peeked == PcValues \ (Ended \cup {"fork", "wait_exec", "image_base", "peek"})

Restored == {"snapshot", "open", "write", "close", "kill", "reap"}

\* What the target can be doing at each point of main().
PhaseInv ==
  /\ pc = "fork" => tst = "none"
  /\ pc = "wait_exec" => tst \in {"child", "running", "stopped", "zombie"}
  /\ pc = "wait_step" => tst \in {"stepping", "stopped", "zombie"}
  /\ pc = "wait_bp" => tst \in {"running", "stopped", "zombie"}
  /\ pc \in Held => tst \in {"stopped", "zombie"}
  /\ pc = "exit0" => tst = "gone"
  /\ pc = "exit1" => tst \in {"none", "running", "gone"}

\* Which image the breakpoint was set in, and that its word lies within it.
ImageInv ==
  /\ pc \in Unarmed \ {"poke"} => bp.img = "none"
  /\ pc \in Peeked => bp.img # "none" /\ Window(bp.hook) \subseteq Addr
  /\ bp.img = "target" => img = "target"

\* The target's bytes, outside the replaced word and within it.
MemoryInv ==
  /\ pc \in Unarmed => text = shadow
  /\ pc = "poke" => \A a \in Window(bp.hook) : bp.old[a] = text[a]
  /\ (pc \in Peeked /\ bp.img = img) =>
       \A a \in Addr :
         IF a \in Window(bp.hook)
         THEN bp.old[a] = shadow[a] \/ shadow[a] = "new"
         ELSE text[a] = shadow[a]
  /\ pc \in Restored => \A a \in Window(bp.hook) : text[a] = bp.old[a]

\* The int3 is in place from the time it is armed, unless the program wrote over
\* it or the single-step branch took it away.
ArmedInv ==
  /\ pc = "getregs1" => ~stepped /\ text[bp.hook] = "int3"
  /\ (pc \in {"cont", "wait_bp"} /\ ~stepped /\ bp.img = img) =>
       text[bp.hook] = "int3" \/ shadow[bp.hook] = "new"
  /\ pc \in {"fork", "wait_exec", "image_base", "peek", "poke"} => ~stepped
  /\ pc \in {"singlestep", "wait_step", "restore1"} => stepped

\* How the instruction pointer travels from the stop to the snapshot.
RewindInv ==
  ~warned =>
    /\ pc = "setregs" => regs = bp.hook
    /\ pc \in {"restore2", "snapshot"} => tip = bp.hook
    /\ Captured => saved.ip = bp.hook

\* What has been captured and written.
FileInv ==
  /\ pc \notin Ended \cup {"open", "write", "close", "kill", "reap"} =>
       file = "stale" /\ ~saved.taken
  /\ Captured => saved.taken
  /\ pc = "open" => file = "stale"
  /\ pc \in {"write", "close"} => file = "partial"
  /\ pc \in {"kill", "reap"} => file = "complete"

\* The inductive invariant: where main() is (breakpoint.c, main.c) fixes what the
\* target may be doing, what its bytes are and what the tracer holds of it.
IInv ==
  /\ TypeOK
  /\ PhaseInv
  /\ ImageInv
  /\ MemoryInv
  /\ ArmedInv
  /\ RewindInv
  /\ FileInv
  /\ OrphanIsClean
  /\ SuccessIsAccounted

-----------------------------------------------------------------------------
(* Type correctness                                                        *)

\* The instruction pointer of a step stays within the address space, and the
\* rewind undoes what the int3 did to it.
LEMMA PointerArithmetic ==
  /\ \A x \in Ptr : Inc(x) \in Ptr /\ Dec(x) \in Ptr /\ Dec(Inc(x)) = x
  /\ Addr \subseteq Ptr
  /\ SelfIp \in Ptr
  BY TracerAssumption DEF Ptr, Addr, Inc, Dec, SelfIp

\* Every value of Detached is a run state of the target.
LEMMA DetachedStates ==
  ASSUME NEW s \in {"none", "child", "running", "stepping", "stopped", "zombie", "gone"},
         NEW t \in Detached(s)
  PROVE  /\ t \in {"none", "child", "running", "gone"}
         /\ s \in {"none", "child", "running"} => t = s
         /\ s \in {"zombie", "gone"} => t = "gone"
         /\ s \in {"stopped", "stepping", "running", "zombie", "gone"} => t \in {"running", "gone"}
  BY DEF Detached

\* Writing a word into the image leaves bytes in the image, and changes no
\* others.
LEMMA PokedBytes ==
  ASSUME text \in [Addr -> Byte], NEW h, NEW word \in [Window(h) -> Byte]
  PROVE  /\ Poked(h, word) \in [Addr -> Byte]
         /\ \A a \in Addr : Poked(h, word)[a] = IF a \in Window(h) THEN word[a] ELSE text[a]
  BY DEF Poked

\* Arming replaces a byte of the word by another byte.
LEMMA ArmedWord ==
  ASSUME NEW h, NEW word \in [Window(h) -> Byte]
  PROVE  PLACE_INT3_IN_FIRST_BYTE(h, word) \in [Window(h) -> Byte]
  BY DEF PLACE_INT3_IN_FIRST_BYTE, Byte

\* The initial states have their types.
LEMMA TypeInit == Init => TypeOK
  <1> SUFFICES ASSUME Init PROVE TypeOK
    OBVIOUS
  <1>1. PICK h \in Hooks :
          bp = [hook |-> h, old |-> [a \in Window(h) |-> "self"], img |-> "none"]
    BY DEF Init
  <1>2. 0 \in Ptr /\ tip \in Ptr
    BY TracerAssumption, PointerArithmetic DEF Init, Ptr
  <1>3. /\ bp.hook \in Hooks
        /\ bp.img \in {"none", "self", "target"}
        /\ bp.old \in [Window(bp.hook) -> Byte]
        /\ bp = [hook |-> bp.hook, old |-> bp.old, img |-> bp.img]
    BY <1>1 DEF Byte
  <1>4. text \in [Addr -> Byte] /\ shadow \in [Addr -> Byte]
    BY DEF Init, SelfText, Byte
  <1>5. saved \in [taken : BOOLEAN, ip : Ptr] /\ pc \in PcValues /\ regs \in Ptr
    BY <1>2 DEF Init, PcValues
  <1>6. nsig \in 0 .. MaxSignals /\ nkill \in 0 .. MaxKills
    BY TracerAssumption DEF Init
  <1> QED
    BY <1>2, <1>3, <1>4, <1>5, <1>6 DEF Init, TypeOK

\* The actions of the tracer keep the types.
LEMMA TypeTracer == TypeOK /\ TracerStep => TypeOK'
  <1> SUFFICES ASSUME TypeOK, TracerStep PROVE TypeOK'
    OBVIOUS
  <1> USE DEF TypeOK
  <1>1. CASE Fork \/ WaitExec \/ GetImageBase \/ WaitStep \/ WaitBreakpoint
    BY <1>1 DEF Fork, WaitExec, GetImageBase, WaitStep, WaitBreakpoint, Goto,
                PcValues, Waits, PtraceCalls, targetVars
  <1>2. CASE ForkFails \/ WaitExecDead \/ GetImageBaseFails \/ PtraceFails
               \/ PeekTextFails \/ DumpFails \/ WaitFails \/ PokeTextFails
    <2>1. Fatal
      BY <1>2 DEF WaitFails, PokeTextFails, ForkFails, WaitExecDead, GetImageBaseFails, PtraceFails,
                  PeekTextFails, DumpFails
    <2> QED
      BY <2>1, DetachedStates DEF Fatal, PcValues, Ended
  <1>3. CASE PeekText
    BY <1>3 DEF PeekText, Goto, PcValues, PtraceCalls, targetVars
  <1>4. CASE ArmBreakpoint
    BY <1>4, ArmedWord, PokedBytes DEF ArmBreakpoint, Goto, PcValues, PtraceCalls
  <1>5. CASE GetRegsBefore
    BY <1>5 DEF GetRegsBefore, PcValues, PtraceCalls, targetVars
  <1>6. CASE SingleStep \/ Cont
    BY <1>6 DEF SingleStep, Cont, Goto, PcValues, Waits
  <1>7. CASE WaitStepDead \/ WaitBreakpointDead \/ ReapTarget
    BY <1>7 DEF WaitStepDead, WaitBreakpointDead, ReapTarget, TargetEnded, Goto,
                PcValues, Ended
  <1>8. CASE RestoreAfterStep \/ RestoreOriginal
    BY <1>8, PokedBytes DEF RestoreAfterStep, RestoreOriginal, Restore, Goto,
                            PcValues, PtraceCalls
  <1>9. CASE GetRegsAfter
    BY <1>9, PointerArithmetic DEF GetRegsAfter, Goto, PcValues, PtraceCalls, targetVars
  <1>10. CASE SetRegs
    BY <1>10 DEF SetRegs, Goto, PcValues, PtraceCalls
  <1>11. CASE CreateSnapshot
    BY <1>11 DEF CreateSnapshot, Goto, PcValues, targetVars
  <1>12. CASE OpenDump \/ WriteDump \/ CloseDump \/ KillTarget \/ KillFails
    BY <1>12 DEF OpenDump, WriteDump, CloseDump, KillTarget, KillFails, Goto,
                 PcValues, Waits, targetVars
  <1> QED
    BY <1>1, <1>2, <1>3, <1>4, <1>5, <1>6, <1>7, <1>8, <1>9, <1>10, <1>11, <1>12
       DEF TracerStep

\* So do the actions of the target and of the environment.
LEMMA TypeOthers == TypeOK /\ (TargetStep \/ Environment) => TypeOK'
  <1> SUFFICES ASSUME TypeOK, TargetStep \/ Environment PROVE TypeOK'
    OBVIOUS
  <1> USE DEF TypeOK, tracerVars
  <1>1. CASE TraceMe \/ ExecveFails \/ Exit
    BY <1>1 DEF TraceMe, ExecveFails, Exit, Dead
  <1>2. CASE Execve
    <2>1. ProgText \in [Addr -> Byte] /\ Entry \in Ptr
      BY TracerAssumption, PointerArithmetic DEF ProgText, Byte
    <2> QED
      BY <1>2, <2>1 DEF Execve
  <1>3. CASE Execute
    <2>1. tip' \in Ptr
      BY <1>3, TracerAssumption, PointerArithmetic DEF Execute, Intact
    <2> QED
      BY <1>3, <2>1 DEF Execute, AfterInsn
  <1>4. CASE Trap
    BY <1>4, PointerArithmetic DEF Trap
  <1>5. CASE ExecuteGarbage
    BY <1>5, PointerArithmetic DEF ExecuteGarbage, AfterInsn
  <1>6. CASE Store
    <2>1. PICK a \in Stores : /\ text' = [text EXCEPT ![a] = "new"]
                              /\ shadow' = [shadow EXCEPT ![a] = "new"]
      BY <1>6 DEF Store
    <2>2. text' \in [Addr -> Byte] /\ shadow' \in [Addr -> Byte]
      BY <2>1 DEF Byte
    <2>3. UNCHANGED <<pc, bp, regs, stepped, warned, saved, file, tst, img, tip, why, nsig, nkill>>
      BY <1>6 DEF Store
    <2> QED
      BY <2>2, <2>3
  <1>7. CASE Signal
    BY <1>7, TracerAssumption DEF Signal
  <1>8. CASE KilledTarget
    BY <1>8, TracerAssumption DEF KilledTarget, Dead
  <1>9. CASE KilledTracer
    BY <1>9, TracerAssumption, DetachedStates DEF KilledTracer, PcValues, Ended
  <1> QED
    BY <1>1, <1>2, <1>3, <1>4, <1>5, <1>6, <1>7, <1>8, <1>9
       DEF TargetStep, Environment

\* Every step, and stuttering, keeps the types.
LEMMA TypeNext == TypeOK /\ [Next]_vars => TypeOK'
  <1>1. ASSUME TypeOK, UNCHANGED vars PROVE TypeOK'
    BY <1>1 DEF TypeOK, vars
  <1> QED
    BY <1>1, TypeTracer, TypeOthers DEF Next, Finished

\* Whatever the target, the signals and the failures, every variable keeps its
\* type; in particular no instruction pointer leaves the address space, although
\* execute_up_to_breakpoint decrements it without a check.
THEOREM TypeCorrect == Spec => []TypeOK
  BY TypeInit, TypeNext, PTL DEF Spec

-----------------------------------------------------------------------------
(* The phases: what the target can do at each point of main()              *)

\* The target moves only where the tracer waits for it, or has ended.
LEMMA TargetMoves ==
  ASSUME TypeOK, PhaseInv, tst \in {"child", "running", "stepping"}
  PROVE  pc \in {"wait_exec", "wait_step", "wait_bp"} \cup Ended
  BY DEF TypeOK, PhaseInv, Held, PcValues, Waits, Ended, PtraceCalls

\* Before fork() there is no target.
LEMMA PhaseInit == Init => PhaseInv
  BY DEF Init, PhaseInv, Held, PtraceCalls

\* The tracer lets go of a stopped target only by PTRACE_SINGLESTEP, PTRACE_CONT or
\* its own end, and takes it up again only by a waitpid that saw a stop.
LEMMA PhaseTracer == TypeOK /\ PhaseInv /\ TracerStep => PhaseInv'
  <1> SUFFICES ASSUME TypeOK, PhaseInv, TracerStep PROVE PhaseInv'
    OBVIOUS
  <1> USE DEF PhaseInv, Held, PtraceCalls
  <1>1. CASE Fork \/ WaitExec \/ GetImageBase \/ WaitStep \/ WaitBreakpoint
    BY <1>1 DEF Fork, WaitExec, GetImageBase, WaitStep, WaitBreakpoint, Goto, targetVars
  <1>2. CASE ForkFails \/ WaitExecDead \/ GetImageBaseFails \/ PtraceFails
               \/ PeekTextFails \/ DumpFails \/ WaitFails \/ PokeTextFails
    <2>1. Fatal /\ (tst = "none" \/ tst \in {"stopped", "zombie"})
      BY <1>2 DEF WaitFails, PokeTextFails, ForkFails, WaitExecDead, GetImageBaseFails, PtraceFails,
                  PeekTextFails, DumpFails
    <2> QED
      BY <2>1, DetachedStates DEF Fatal
  <1>3. CASE PeekText \/ ArmBreakpoint \/ GetRegsBefore \/ SingleStep \/ Cont
    BY <1>3 DEF PeekText, ArmBreakpoint, GetRegsBefore, SingleStep, Cont, Goto, targetVars
  <1>4. CASE WaitStepDead \/ WaitBreakpointDead \/ ReapTarget
    BY <1>4 DEF WaitStepDead, WaitBreakpointDead, ReapTarget, TargetEnded, Goto
  <1>5. CASE RestoreAfterStep \/ RestoreOriginal \/ GetRegsAfter \/ SetRegs
               \/ CreateSnapshot
    BY <1>5 DEF RestoreAfterStep, RestoreOriginal, Restore, GetRegsAfter, SetRegs,
                CreateSnapshot, Goto, targetVars
  <1>6. CASE OpenDump \/ WriteDump \/ CloseDump \/ KillTarget \/ KillFails
    BY <1>6 DEF OpenDump, WriteDump, CloseDump, KillTarget, KillFails, Goto, targetVars
  <1> QED
    BY <1>1, <1>2, <1>3, <1>4, <1>5, <1>6 DEF TracerStep

\* The target and the environment move a target only between the states its phase
\* allows; one that is held can only die.
LEMMA PhaseOthers == TypeOK /\ PhaseInv /\ (TargetStep \/ Environment) => PhaseInv'
  <1> SUFFICES ASSUME TypeOK, PhaseInv, TargetStep \/ Environment PROVE PhaseInv'
    OBVIOUS
  <1>1. CASE TargetStep
    <2>1. /\ pc' = pc
          /\ tst \in {"child", "running", "stepping"}
      BY <1>1 DEF TargetStep, TraceMe, Execve, ExecveFails, Execute, Trap,
                  ExecuteGarbage, Store, Exit, Running, tracerVars
    <2>2. /\ tst' \in {"running", "stepping", "stopped", "zombie", "gone"}
          /\ tst' = "stepping" => tst = "stepping"
          /\ Alive => tst' # "gone"
          /\ ~Alive => tst' # "zombie"
          /\ ~Alive /\ tst = "running" => tst' \in {"running", "gone"}
          /\ tst' = "running" => tst \in {"child", "running"}
      BY <1>1 DEF TargetStep, TraceMe, Execve, ExecveFails, Execute, Trap,
                  ExecuteGarbage, Store, Exit, Running, AfterInsn, Dead
    <2>3. pc \in {"wait_exec", "wait_step", "wait_bp"} \cup Ended
      BY <2>1, TargetMoves
    <2> QED
      BY <2>1, <2>2, <2>3 DEF PhaseInv, Held, PtraceCalls, Alive, Ended
  <1>2. CASE Signal
    <2>1. pc \in {"wait_exec", "wait_step", "wait_bp"}
      BY <1>2, TargetMoves DEF Signal, Alive, Running
    <2> QED
      BY <1>2, <2>1 DEF Signal, PhaseInv, Held, PtraceCalls, tracerVars
  <1>3. CASE KilledTarget
    BY <1>3 DEF KilledTarget, Dead, Alive, Ended, PhaseInv, Held, PtraceCalls, tracerVars
  <1>4. CASE KilledTracer
    BY <1>4 DEF KilledTracer, PhaseInv, Held, PtraceCalls
  <1> QED
    BY <1>1, <1>2, <1>3, <1>4 DEF Environment

-----------------------------------------------------------------------------
(* The target's memory                                                     *)

\* Before fork() no word was read and the bytes are as they were.
LEMMA MemoryInit == Init => ImageInv /\ MemoryInv
  BY DEF Init, ImageInv, MemoryInv, Unarmed, Peeked, Restored, PcValues, Waits,
         Ended, PtraceCalls

\* A fatal error leaves the target's memory alone, and no breakpoint is set
\* afterwards.
LEMMA EndKeepsMemory ==
  ASSUME ImageInv, pc' \in Ended, UNCHANGED <<bp, img, text, shadow>>
  PROVE  ImageInv' /\ MemoryInv'
  BY DEF ImageInv, MemoryInv, Unarmed, Peeked, Restored, PcValues, Waits, Ended,
         PtraceCalls

\* The tracer changes only the word at the hook, and puts back what it read there.
LEMMA MemoryTracer ==
  TypeOK /\ PhaseInv /\ ImageInv /\ MemoryInv /\ TracerStep => ImageInv' /\ MemoryInv'
  <1> SUFFICES ASSUME TypeOK, PhaseInv, ImageInv, MemoryInv, TracerStep
               PROVE  ImageInv' /\ MemoryInv'
    OBVIOUS
  <1>1. CASE \/ ForkFails \/ WaitExecDead \/ GetImageBaseFails \/ PtraceFails
             \/ PeekTextFails \/ DumpFails \/ WaitFails \/ PokeTextFails
             \/ WaitStepDead \/ WaitBreakpointDead \/ ReapTarget
    <2>1. pc' \in Ended /\ UNCHANGED <<bp, img, text, shadow>>
      BY <1>1 DEF WaitFails, PokeTextFails, ForkFails, WaitExecDead,
                     GetImageBaseFails, PtraceFails, PeekTextFails,
                  DumpFails, Fatal, WaitStepDead, WaitBreakpointDead, ReapTarget,
                  TargetEnded, Goto, Ended
    <2> QED
      BY <2>1, EndKeepsMemory
  <1>2. CASE Fork \/ WaitExec \/ GetImageBase
    <2>1. UNCHANGED <<bp, img, text, shadow>>
      BY <1>2 DEF Fork, WaitExec, GetImageBase, targetVars
    <2>2. pc \in Unarmed \ {"poke"} /\ pc' \in Unarmed \ {"poke"}
      BY <1>2 DEF Fork, WaitExec, GetImageBase, Goto, Unarmed
    <2> QED
      BY <2>1, <2>2 DEF ImageInv, MemoryInv, Unarmed, Peeked, Restored
  <1>3. CASE PeekText
    <2>1. /\ bp' = [hook |-> bp.hook, old |-> [a \in Window(bp.hook) |-> text[a]], img |-> img]
          /\ UNCHANGED <<img, text, shadow>>
          /\ pc = "peek" /\ pc' = "poke"
          /\ Window(bp.hook) \subseteq Addr
      BY <1>3 DEF PeekText, Goto, TypeOK, targetVars
    <2>2. text = shadow
      BY <2>1 DEF MemoryInv, Unarmed
    <2>3. ImageInv'
      BY <2>1 DEF ImageInv, TypeOK, Unarmed
    <2> QED
      BY <2>1, <2>2, <2>3 DEF MemoryInv, Restored
  <1>4. CASE ArmBreakpoint
    <2>1. /\ UNCHANGED <<bp, img, shadow>>
          /\ pc = "poke" /\ pc' = "getregs1"
          /\ text' = Poked(bp.hook, PLACE_INT3_IN_FIRST_BYTE(bp.hook, bp.old))
      BY <1>4 DEF ArmBreakpoint, Goto
    <2>2. \A a \in Addr \ Window(bp.hook) : text'[a] = text[a]
      BY <2>1, ArmedWord, PokedBytes DEF TypeOK
    <2>3. text = shadow /\ \A a \in Window(bp.hook) : bp.old[a] = text[a]
      BY <2>1 DEF MemoryInv, Unarmed
    <2>4. ImageInv'
      BY <2>1 DEF ImageInv, Unarmed, Peeked, PcValues, PtraceCalls, Ended
    <2> QED
      BY <2>1, <2>2, <2>3, <2>4 DEF MemoryInv, Unarmed, Restored
  <1>5. CASE RestoreAfterStep \/ RestoreOriginal
    <2>1. /\ UNCHANGED <<bp, img, shadow>>
          /\ pc \in {"restore1", "restore2"} /\ pc' \in {"cont", "snapshot"}
          /\ text' = Poked(bp.hook, bp.old)
      BY <1>5 DEF RestoreAfterStep, RestoreOriginal, Restore, Goto
    <2>2. /\ pc \in Peeked /\ pc' \in Peeked /\ pc' \notin Unarmed
      BY <2>1 DEF Peeked, Unarmed, PcValues, PtraceCalls, Ended
    <2>3. /\ \A a \in Addr \ Window(bp.hook) : text'[a] = text[a]
          /\ \A a \in Addr \cap Window(bp.hook) : text'[a] = bp.old[a]
      BY <2>1, PokedBytes DEF TypeOK
    <2>4. ImageInv'
      BY <2>1, <2>2 DEF ImageInv
    <2> QED
      BY <2>1, <2>2, <2>3, <2>4 DEF MemoryInv, ImageInv
  <1>6. CASE \/ GetRegsBefore \/ SingleStep \/ WaitStep \/ Cont \/ WaitBreakpoint
             \/ GetRegsAfter \/ SetRegs
    <2>1. UNCHANGED <<bp, img, text, shadow>>
      BY <1>6 DEF GetRegsBefore, SingleStep, WaitStep, Cont, WaitBreakpoint,
                  GetRegsAfter, SetRegs, targetVars
    <2>2. pc \in Peeked /\ pc' \in Peeked /\ pc' \notin Unarmed \cup Restored
      BY <1>6 DEF GetRegsBefore, SingleStep, WaitStep, Cont, WaitBreakpoint,
                  GetRegsAfter, SetRegs, Goto, Peeked, Unarmed, Restored, PcValues,
                  PtraceCalls, Waits, Ended
    <2> QED
      BY <2>1, <2>2 DEF ImageInv, MemoryInv, Unarmed
  <1>7. CASE CreateSnapshot \/ OpenDump \/ WriteDump \/ CloseDump \/ KillTarget \/ KillFails
    <2>1. UNCHANGED <<bp, img, text, shadow>>
      BY <1>7 DEF CreateSnapshot, OpenDump, WriteDump, CloseDump, KillTarget, KillFails,
                  targetVars
    <2>2. /\ pc \in Peeked /\ pc' \in Peeked
          /\ pc \in Restored /\ pc' \in Restored /\ pc' \notin Unarmed
      BY <1>7 DEF CreateSnapshot, OpenDump, WriteDump, CloseDump, KillTarget, KillFails,
                  Goto, Peeked, Unarmed, Restored, PcValues, PtraceCalls, Waits, Ended
    <2> QED
      BY <2>1, <2>2 DEF ImageInv, MemoryInv, Unarmed
  <1> QED
    BY <1>1, <1>2, <1>3, <1>4, <1>5, <1>6, <1>7 DEF TracerStep

\* What a running target does to its own memory.  A store reaches the image and
\* the history alike; execve replaces both.
LEMMA MemoryOthers ==
  TypeOK /\ PhaseInv /\ ImageInv /\ MemoryInv /\ (TargetStep \/ Environment)
    => ImageInv' /\ MemoryInv'
  <1> SUFFICES ASSUME TypeOK, PhaseInv, ImageInv, MemoryInv, TargetStep \/ Environment
               PROVE  ImageInv' /\ MemoryInv'
    OBVIOUS
  <1>1. CASE Execve
    <2>1. /\ UNCHANGED <<pc, bp>> /\ img' = "target" /\ img = "self"
          /\ text' = ProgText /\ shadow' = ProgText
          /\ pc \in {"wait_exec", "wait_step", "wait_bp"} \cup Ended
      BY <1>1, TargetMoves DEF Execve, tracerVars
    <2>2. bp.img # "target"
      BY <2>1 DEF ImageInv
    <2>3. ImageInv'
      BY <2>1, <2>2 DEF ImageInv
    <2> QED
      BY <2>1, <2>2, <2>3 DEF MemoryInv, Unarmed, Restored, Ended
  <1>2. CASE Store
    <2>1. /\ UNCHANGED <<pc, bp, img>>
          /\ pc \in {"wait_exec", "wait_step", "wait_bp"} \cup Ended
      BY <1>2, TargetMoves DEF Store, Running, tracerVars
    <2>2. PICK s \in Stores : /\ text' = [text EXCEPT ![s] = "new"]
                              /\ shadow' = [shadow EXCEPT ![s] = "new"]
      BY <1>2 DEF Store
    <2>3. \A a \in Addr : \/ text'[a] = text[a] /\ shadow'[a] = shadow[a]
                          \/ text'[a] = "new" /\ shadow'[a] = "new"
      BY <2>2 DEF TypeOK
    <2>4. text = shadow => text' = shadow'
      BY <2>2
    <2>5. ImageInv'
      BY <2>1 DEF ImageInv
    <2> QED
      BY <2>1, <2>3, <2>4, <2>5 DEF MemoryInv, Unarmed, Restored, Ended
  <1>3. CASE \/ TraceMe \/ ExecveFails \/ Execute \/ Trap \/ ExecuteGarbage \/ Exit
             \/ Signal \/ KilledTarget
    <2>1. UNCHANGED <<pc, bp, img, text, shadow>>
      BY <1>3 DEF TraceMe, ExecveFails, Execute, Trap, ExecuteGarbage, Exit, Signal,
                  KilledTarget, tracerVars
    <2> QED
      BY <2>1 DEF ImageInv, MemoryInv
  <1>4. CASE KilledTracer
    BY <1>4, EndKeepsMemory DEF KilledTracer, Ended
  <1> QED
    BY <1>1, <1>2, <1>3, <1>4 DEF TargetStep, Environment

-----------------------------------------------------------------------------
(* The armed byte                                                          *)

\* The hook is a byte of the image once its word was read.
LEMMA HookInImage ==
  ASSUME TypeOK, ImageInv, pc \in Peeked
  PROVE  bp.hook \in Addr /\ bp.hook \in Window(bp.hook)
  <1>1. bp.hook \in Nat
    BY TracerAssumption DEF TypeOK, Ptr
  <1>2. bp.hook \in Window(bp.hook)
    BY <1>1, TracerAssumption DEF Window
  <1> QED
    BY <1>2 DEF ImageInv

\* Before fork() the single-step branch was not taken.
LEMMA ArmedInit == Init => ArmedInv
  BY DEF Init, ArmedInv

\* On its way to PTRACE_CONT the tracer removes the int3 only after a single step.
LEMMA ArmedTracer == TypeOK /\ ImageInv /\ ArmedInv /\ TracerStep => ArmedInv'
  <1> SUFFICES ASSUME TypeOK, ImageInv, ArmedInv, TracerStep PROVE ArmedInv'
    OBVIOUS
  <1>1. CASE \/ ForkFails \/ WaitExecDead \/ GetImageBaseFails \/ PtraceFails
             \/ PeekTextFails \/ DumpFails \/ WaitFails \/ PokeTextFails
             \/ WaitStepDead \/ WaitBreakpointDead \/ ReapTarget
    BY <1>1 DEF WaitFails, PokeTextFails, ForkFails, WaitExecDead,
                     GetImageBaseFails, PtraceFails, PeekTextFails,
                DumpFails, Fatal, WaitStepDead, WaitBreakpointDead, ReapTarget,
                TargetEnded, Goto, ArmedInv
  <1>2. CASE Fork \/ WaitExec \/ GetImageBase \/ PeekText
    BY <1>2 DEF Fork, WaitExec, GetImageBase, PeekText, Goto, ArmedInv
  <1>3. CASE ArmBreakpoint
    <2>1. /\ bp' = bp /\ pc = "poke" /\ pc' = "getregs1" /\ stepped' = stepped
          /\ text' = Poked(bp.hook, PLACE_INT3_IN_FIRST_BYTE(bp.hook, bp.old))
      BY <1>3 DEF ArmBreakpoint, Goto
    <2>2. bp.hook \in Addr /\ bp.hook \in Window(bp.hook)
      BY <2>1, HookInImage DEF Peeked, PcValues, PtraceCalls, Ended
    <2>3. PLACE_INT3_IN_FIRST_BYTE(bp.hook, bp.old)[bp.hook] = "int3"
      BY <2>2 DEF PLACE_INT3_IN_FIRST_BYTE, TypeOK
    <2>4. text'[bp.hook] = "int3"
      BY <2>1, <2>2, <2>3, ArmedWord, PokedBytes DEF TypeOK
    <2> QED
      BY <2>1, <2>4 DEF ArmedInv
  <1>4. CASE GetRegsBefore
    BY <1>4 DEF GetRegsBefore, ArmedInv, targetVars
  <1>5. CASE SingleStep \/ WaitStep \/ RestoreAfterStep
    BY <1>5 DEF SingleStep, WaitStep, RestoreAfterStep, Restore, Goto, ArmedInv
  <1>6. CASE Cont
    BY <1>6 DEF Cont, Goto, ArmedInv
  <1>7. CASE \/ WaitBreakpoint \/ GetRegsAfter \/ SetRegs \/ RestoreOriginal
             \/ CreateSnapshot \/ OpenDump \/ WriteDump \/ CloseDump
             \/ KillTarget \/ KillFails
    BY <1>7 DEF WaitBreakpoint, GetRegsAfter, SetRegs, RestoreOriginal, Restore,
                CreateSnapshot, OpenDump, WriteDump, CloseDump, KillTarget, KillFails,
                Goto, ArmedInv
  <1> QED
    BY <1>1, <1>2, <1>3, <1>4, <1>5, <1>6, <1>7 DEF TracerStep

\* A running target loses the int3 only to a store of its own or to execve.
LEMMA ArmedOthers ==
  TypeOK /\ PhaseInv /\ ImageInv /\ ArmedInv /\ (TargetStep \/ Environment) => ArmedInv'
  <1> SUFFICES ASSUME TypeOK, PhaseInv, ImageInv, ArmedInv, TargetStep \/ Environment
               PROVE  ArmedInv'
    OBVIOUS
  <1>1. CASE Execve
    <2>1. /\ UNCHANGED <<pc, bp, stepped>> /\ img' = "target" /\ img = "self"
          /\ pc \in {"wait_exec", "wait_step", "wait_bp"} \cup Ended
      BY <1>1, TargetMoves DEF Execve, tracerVars
    <2> QED
      BY <2>1 DEF ArmedInv, ImageInv, Ended
  <1>2. CASE Store
    <2>1. /\ UNCHANGED <<pc, bp, stepped, img>>
          /\ pc \in {"wait_exec", "wait_step", "wait_bp"} \cup Ended
      BY <1>2, TargetMoves DEF Store, Running, tracerVars
    <2>2. PICK s \in Stores : /\ text' = [text EXCEPT ![s] = "new"]
                              /\ shadow' = [shadow EXCEPT ![s] = "new"]
      BY <1>2 DEF Store
    <2>3. CASE pc = "wait_bp"
      <3>1. bp.hook \in Addr
        BY <2>3, HookInImage DEF Peeked, PcValues, Waits, Ended
      <3>2. \/ text'[bp.hook] = text[bp.hook] /\ shadow'[bp.hook] = shadow[bp.hook]
            \/ shadow'[bp.hook] = "new"
        BY <2>2, <3>1 DEF TypeOK
      <3> QED
        BY <2>1, <2>3, <3>2 DEF ArmedInv
    <2> QED
      BY <2>1, <2>3 DEF ArmedInv, Ended
  <1>3. CASE \/ TraceMe \/ ExecveFails \/ Execute \/ Trap \/ ExecuteGarbage \/ Exit
             \/ Signal \/ KilledTarget
    BY <1>3 DEF TraceMe, ExecveFails, Execute, Trap, ExecuteGarbage, Exit, Signal,
                KilledTarget, tracerVars, ArmedInv
  <1>4. CASE KilledTracer
    BY <1>4 DEF KilledTracer, ArmedInv
  <1> QED
    BY <1>1, <1>2, <1>3, <1>4 DEF TargetStep, Environment

-----------------------------------------------------------------------------
(* The rewind, the file and the end                                        *)

\* At the start nothing is captured or written.
LEMMA BooksInit == Init => RewindInv /\ FileInv
  BY DEF Init, RewindInv, FileInv, Captured, Ended

\* The decrement, PTRACE_SETREGS and create_snapshot carry the hook to the snapshot
\* when there was no warning, and the file follows dump_snapshot.
LEMMA BooksTracer ==
  TypeOK /\ RewindInv /\ FileInv /\ TracerStep => RewindInv' /\ FileInv'
  <1> SUFFICES ASSUME TypeOK, RewindInv, FileInv, TracerStep
               PROVE  RewindInv' /\ FileInv'
    OBVIOUS
  <1> USE DEF RewindInv, FileInv, Captured, Ended
  <1>1. CASE \/ ForkFails \/ WaitExecDead \/ GetImageBaseFails \/ PtraceFails
             \/ PeekTextFails \/ DumpFails \/ WaitFails \/ PokeTextFails
             \/ WaitStepDead \/ WaitBreakpointDead \/ ReapTarget
    BY <1>1 DEF WaitFails, PokeTextFails, ForkFails, WaitExecDead,
                     GetImageBaseFails, PtraceFails, PeekTextFails,
                DumpFails, Fatal, WaitStepDead, WaitBreakpointDead, ReapTarget,
                TargetEnded, Goto
  <1>2. CASE Fork \/ WaitExec \/ GetImageBase \/ PeekText \/ ArmBreakpoint
               \/ GetRegsBefore \/ SingleStep \/ WaitStep \/ RestoreAfterStep
               \/ Cont \/ WaitBreakpoint
    BY <1>2 DEF Fork, WaitExec, GetImageBase, PeekText, ArmBreakpoint, GetRegsBefore,
                SingleStep, WaitStep, RestoreAfterStep, Restore, Cont, WaitBreakpoint,
                Goto
  <1>3. CASE GetRegsAfter
    <2>1. bp.hook \in Ptr
      BY TracerAssumption DEF TypeOK
    <2>2. ~warned' => regs' = bp.hook
      BY <1>3, <2>1, PointerArithmetic DEF GetRegsAfter
    <2> QED
      BY <1>3, <2>2 DEF GetRegsAfter, Goto, targetVars
  <1>4. CASE SetRegs \/ RestoreOriginal \/ CreateSnapshot
    BY <1>4 DEF SetRegs, RestoreOriginal, Restore, CreateSnapshot, Goto, targetVars
  <1>5. CASE OpenDump \/ WriteDump \/ CloseDump \/ KillTarget \/ KillFails
    BY <1>5 DEF OpenDump, WriteDump, CloseDump, KillTarget, KillFails, Goto, targetVars
  <1> QED
    BY <1>1, <1>2, <1>3, <1>4, <1>5 DEF TracerStep

\* A held target does not move its instruction pointer, and only the tracer writes
\* the file.
LEMMA BooksOthers ==
  TypeOK /\ PhaseInv /\ RewindInv /\ FileInv /\ (TargetStep \/ Environment)
    => RewindInv' /\ FileInv'
  <1> SUFFICES ASSUME TypeOK, PhaseInv, RewindInv, FileInv, TargetStep \/ Environment
               PROVE  RewindInv' /\ FileInv'
    OBVIOUS
  <1>1. CASE TargetStep
    <2>1. /\ UNCHANGED tracerVars
          /\ tst \in {"child", "running", "stepping"}
      BY <1>1 DEF TargetStep, TraceMe, Execve, ExecveFails, Execute, Trap,
                  ExecuteGarbage, Store, Exit, Running
    <2>2. pc \notin {"restore2", "snapshot"}
      BY <2>1, TargetMoves DEF Ended
    <2> QED
      BY <2>1, <2>2 DEF RewindInv, FileInv, Captured, tracerVars
  <1>2. CASE Signal \/ KilledTarget
    BY <1>2 DEF Signal, KilledTarget, RewindInv, FileInv, Captured, tracerVars
  <1>3. CASE KilledTracer
    BY <1>3 DEF KilledTracer, RewindInv, FileInv, Captured, Ended
  <1> QED
    BY <1>1, <1>2, <1>3 DEF Environment

\* Once the word was written back, the target's bytes are its own.
LEMMA RestoredIsClean ==
  ASSUME TypeOK, ImageInv, MemoryInv, pc \in Restored, bp.img = img
  PROVE  \A a \in Addr :
           text[a] = shadow[a] \/ Undone(a)
  <1>1. pc \in Peeked
    BY DEF Restored, Peeked, PcValues, PtraceCalls, Waits, Ended
  <1> QED
    BY <1>1 DEF MemoryInv, Undone

\* However the tracer ends by itself, what it leaves behind is accounted for.
LEMMA EndTracer ==
  (/\ TypeOK /\ PhaseInv /\ ImageInv /\ MemoryInv /\ FileInv
   /\ OrphanIsClean /\ SuccessIsAccounted /\ TracerStep)
    => OrphanIsClean' /\ SuccessIsAccounted'
  <1> SUFFICES ASSUME TypeOK, PhaseInv, ImageInv, MemoryInv, FileInv,
                      OrphanIsClean, SuccessIsAccounted, TracerStep
               PROVE  OrphanIsClean' /\ SuccessIsAccounted'
    OBVIOUS
  <1>1. CASE ForkFails \/ WaitExecDead \/ WaitFails \/ PtraceFails
    <2>1. Fatal /\ tst \in {"none", "zombie"}
      BY <1>1 DEF ForkFails, WaitExecDead, WaitFails, PtraceFails, PhaseInv, Held
    <2>2. pc' = "exit1" /\ tst' \in {"none", "gone"}
      BY <2>1, DetachedStates DEF Fatal
    <2> QED
      BY <2>2 DEF OrphanIsClean, SuccessIsAccounted, Running
  <1>2. CASE GetImageBaseFails \/ PeekTextFails \/ PokeTextFails
    <2>1. pc \in Unarmed /\ Fatal
      BY <1>2 DEF GetImageBaseFails, PeekTextFails, PokeTextFails, Unarmed
    <2>2. text = shadow /\ UNCHANGED <<text, shadow>> /\ pc' = "exit1"
      BY <2>1 DEF MemoryInv, Fatal
    <2> QED
      BY <2>2 DEF OrphanIsClean, SuccessIsAccounted
  <1>3. CASE DumpFails
    <2>1. pc \in Restored /\ pc \in Peeked /\ Fatal
      BY <1>3 DEF DumpFails, Restored, Peeked, PcValues, PtraceCalls, Waits, Ended
    <2>2. bp.img # "none" /\ UNCHANGED <<bp, img, text, shadow>> /\ pc' = "exit1"
      BY <2>1 DEF ImageInv, Fatal
    <2>3. (img = "target" /\ bp.img # "self") => bp.img = img
      BY <2>2 DEF TypeOK
    <2>4. (img = "target" /\ bp.img # "self") =>
            \A a \in Addr : text[a] = shadow[a] \/ Undone(a)
      BY <2>1, <2>3, RestoredIsClean
    <2> QED
      BY <2>2, <2>4 DEF OrphanIsClean, SuccessIsAccounted, Undone
  <1>4. CASE WaitStepDead \/ WaitBreakpointDead \/ ReapTarget
    <2>1. /\ pc' = "exit0" /\ tst' = "gone" /\ UNCHANGED <<file, saved>>
          /\ pc \in {"wait_step", "wait_bp", "reap"}
      BY <1>4 DEF WaitStepDead, WaitBreakpointDead, ReapTarget, TargetEnded, Goto
    <2> QED
      BY <2>1 DEF OrphanIsClean, SuccessIsAccounted, FileInv, Captured, Ended
  <1>5. CASE \/ Fork \/ WaitExec \/ GetImageBase \/ PeekText \/ ArmBreakpoint
             \/ GetRegsBefore \/ SingleStep \/ WaitStep \/ RestoreAfterStep
             \/ Cont \/ WaitBreakpoint \/ GetRegsAfter \/ SetRegs \/ RestoreOriginal
             \/ CreateSnapshot \/ OpenDump \/ WriteDump \/ CloseDump
             \/ KillTarget \/ KillFails
    <2>1. pc' \notin {"exit0", "exit1"}
      BY <1>5 DEF Fork, WaitExec, GetImageBase, PeekText, ArmBreakpoint, GetRegsBefore,
                  SingleStep, WaitStep, RestoreAfterStep, Restore, Cont, WaitBreakpoint,
                  GetRegsAfter, SetRegs, RestoreOriginal, CreateSnapshot, OpenDump,
                  WriteDump, CloseDump, KillTarget, KillFails, Goto
    <2> QED
      BY <2>1 DEF OrphanIsClean, SuccessIsAccounted
  <1> QED
    BY <1>1, <1>2, <1>3, <1>4, <1>5 DEF TracerStep

\* What it left behind stays accounted for whatever the target does next.
LEMMA EndOthers ==
  (/\ TypeOK /\ PhaseInv /\ OrphanIsClean /\ SuccessIsAccounted
   /\ (TargetStep \/ Environment))
    => OrphanIsClean' /\ SuccessIsAccounted'
  <1> SUFFICES ASSUME TypeOK, PhaseInv, OrphanIsClean, SuccessIsAccounted,
                      TargetStep \/ Environment
               PROVE  OrphanIsClean' /\ SuccessIsAccounted'
    OBVIOUS
  <1>1. CASE KilledTracer
    BY <1>1 DEF KilledTracer, OrphanIsClean, SuccessIsAccounted
  <1>2. CASE TargetStep \/ Signal \/ KilledTarget
    <2>1. /\ UNCHANGED tracerVars
          /\ tst \in {"child", "running", "stepping", "stopped"}
      BY <1>2 DEF TargetStep, TraceMe, Execve, ExecveFails, Execute, Trap,
                  ExecuteGarbage, Store, Exit, Signal, KilledTarget, Running
    <2>2. pc # "exit0"
      BY <2>1 DEF PhaseInv
    <2>3. SuccessIsAccounted'
      BY <2>1, <2>2 DEF SuccessIsAccounted, tracerVars
    <2>4. ASSUME pc = "exit1" PROVE OrphanIsClean'
      <3>1. tst = "running" /\ Running
        BY <2>1, <2>4 DEF PhaseInv, Running
      <3>2. CASE Execve
        BY <3>2 DEF Execve, OrphanIsClean
      <3>3. CASE Store
        <4>1. PICK s \in Stores : /\ text' = [text EXCEPT ![s] = "new"]
                                  /\ shadow' = [shadow EXCEPT ![s] = "new"]
          BY <3>3 DEF Store
        <4>2. \A a \in Addr : \/ text'[a] = text[a] /\ shadow'[a] = shadow[a]
                              \/ text'[a] = shadow'[a]
          BY <4>1 DEF TypeOK
        <4>3. UNCHANGED <<pc, bp, img>>
          BY <3>3 DEF Store, tracerVars
        <4> QED
          BY <2>4, <3>1, <3>3, <4>2, <4>3 DEF Store, OrphanIsClean, Undone
      <3>4. CASE \/ TraceMe \/ ExecveFails \/ Execute \/ Trap \/ ExecuteGarbage \/ Exit
                 \/ Signal \/ KilledTarget
        <4>1. UNCHANGED <<pc, bp, img, text, shadow>>
          BY <3>4 DEF TraceMe, ExecveFails, Execute, Trap, ExecuteGarbage, Exit, Signal,
                      KilledTarget, tracerVars
        <4> QED
          BY <2>4, <3>1, <4>1 DEF OrphanIsClean, Undone
      <3> QED
        BY <1>2, <3>2, <3>3, <3>4 DEF TargetStep
    <2> QED
      BY <2>1, <2>3, <2>4 DEF OrphanIsClean, tracerVars
  <1> QED
    BY <1>1, <1>2 DEF Environment

-----------------------------------------------------------------------------
(* The theorems                                                            *)

\* The inductive invariant holds initially,
LEMMA InductiveInit == Init => IInv
  <1>1. Init => OrphanIsClean /\ SuccessIsAccounted
    BY DEF Init, OrphanIsClean, SuccessIsAccounted
  <1> QED
    BY <1>1, TypeInit, PhaseInit, MemoryInit, ArmedInit, BooksInit DEF IInv

\* is kept by every step,
LEMMA InductiveNext == IInv /\ [Next]_vars => IInv'
  <1> SUFFICES ASSUME IInv, [Next]_vars PROVE IInv'
    OBVIOUS
  <1>1. CASE TracerStep
    BY <1>1, TypeTracer, PhaseTracer, MemoryTracer, ArmedTracer, BooksTracer, EndTracer
       DEF IInv
  <1>2. CASE TargetStep \/ Environment
    BY <1>2, TypeOthers, PhaseOthers, MemoryOthers, ArmedOthers, BooksOthers, EndOthers
       DEF IInv
  <1>3. CASE UNCHANGED vars
    BY <1>3 DEF IInv, TypeOK, PhaseInv, ImageInv, MemoryInv, ArmedInv, RewindInv,
                FileInv, OrphanIsClean, SuccessIsAccounted, Undone, Captured, Running, vars
  <1> QED
    BY <1>1, <1>2, <1>3 DEF Next, Finished

\* and so holds throughout: at each point of main() the target, its bytes and what
\* the tracer holds of it are as the code up to there left them.
THEOREM Inductive == Spec => []IInv
  BY InductiveInit, InductiveNext, PTL DEF Spec

\* The memory that is dumped is the target's own: once execute_up_to_breakpoint
\* has written old_word back, a byte differs from what an undebugged target would
\* have only if it lies in the replaced word and the target rewrote it, and then it
\* has the value it had before.
THEOREM DumpIsFaithful == Spec => []MemoryFaithful
  <1>1. IInv => MemoryFaithful
    <2> SUFFICES ASSUME IInv, Captured, bp.img = img
                 PROVE  \A a \in Addr : text[a] = shadow[a] \/ Undone(a)
      BY DEF MemoryFaithful
    <2> QED
      BY RestoredIsClean DEF IInv, Captured, Restored
  <1> QED
    BY <1>1, Inductive, PTL

\* A snapshot taken without the warning resumes at the breakpoint, on the byte
\* that the int3 had replaced.
THEOREM SnapshotResumes == Spec => []ResumesAtHook
  <1>1. IInv => ResumesAtHook
    <2> SUFFICES ASSUME IInv, Captured, ~warned
                 PROVE  saved.ip = bp.hook /\ text[bp.hook] = bp.old[bp.hook]
      BY DEF ResumesAtHook
    <2>1. pc \in Restored /\ pc \in Peeked
      BY DEF Captured, Restored, Peeked, PcValues, PtraceCalls, Waits, Ended
    <2>2. bp.hook \in Window(bp.hook)
      BY <2>1, HookInImage DEF IInv
    <2> QED
      BY <2>1, <2>2 DEF IInv, MemoryInv, RewindInv
  <1> QED
    BY <1>1, Inductive, PTL

\* A target that outlives a failed snapshotter runs its own code.
THEOREM OrphansAreClean == Spec => []OrphanIsClean
  <1>1. IInv => OrphanIsClean
    BY DEF IInv
  <1> QED
    BY <1>1, Inductive, PTL

\* Between any two calls of the tracer, the int3 at the hook is the one byte of the
\* image that is not the target's own.
LEMMA DamageNext == IInv /\ DamageIsConfined /\ [Next]_vars => DamageIsConfined'
  <1> SUFFICES ASSUME IInv, DamageIsConfined, [Next]_vars PROVE DamageIsConfined'
    OBVIOUS
  <1> USE DEF IInv
  <1>1. ASSUME UNCHANGED <<bp, img, text, shadow>> PROVE DamageIsConfined'
    BY <1>1 DEF DamageIsConfined, Undone
  <1>2. CASE PeekText
    <2>1. text = shadow /\ UNCHANGED <<text, shadow>>
      BY <1>2 DEF PeekText, Goto, targetVars, MemoryInv, Unarmed
    <2> QED
      BY <2>1 DEF DamageIsConfined, Undone
  <1>3. CASE ArmBreakpoint
    <2>1. /\ UNCHANGED <<bp, img, shadow>> /\ text = shadow
          /\ \A a \in Window(bp.hook) : bp.old[a] = text[a]
          /\ text' = Poked(bp.hook, PLACE_INT3_IN_FIRST_BYTE(bp.hook, bp.old))
      BY <1>3 DEF ArmBreakpoint, Goto, MemoryInv, Unarmed
    <2>2. bp.old \in [Window(bp.hook) -> Byte] /\ text \in [Addr -> Byte]
      BY DEF TypeOK
    <2>3. \A a \in Window(bp.hook) :
            \/ PLACE_INT3_IN_FIRST_BYTE(bp.hook, bp.old)[a] = text[a]
            \/ a = bp.hook /\ PLACE_INT3_IN_FIRST_BYTE(bp.hook, bp.old)[a] = "int3"
      BY <2>1, <2>2 DEF PLACE_INT3_IN_FIRST_BYTE
    <2>4. \A a \in Addr : text'[a] = IF a \in Window(bp.hook)
                                     THEN PLACE_INT3_IN_FIRST_BYTE(bp.hook, bp.old)[a]
                                     ELSE text[a]
      BY <2>1, <2>2, ArmedWord, PokedBytes
    <2> QED
      BY <2>1, <2>3, <2>4 DEF DamageIsConfined, Undone
  <1>4. CASE RestoreAfterStep \/ RestoreOriginal
    <2>1. /\ UNCHANGED <<bp, img, shadow>> /\ text' = Poked(bp.hook, bp.old)
          /\ pc \in Peeked
      BY <1>4 DEF RestoreAfterStep, RestoreOriginal, Restore, Goto, Peeked, PcValues,
                  PtraceCalls, Waits, Ended
    <2>2. (img = "target" /\ bp.img # "self") => bp.img = img
      BY <2>1 DEF ImageInv, TypeOK
    <2>3. \A a \in Addr : text'[a] = IF a \in Window(bp.hook) THEN bp.old[a] ELSE text[a]
      BY <2>1, PokedBytes DEF TypeOK
    <2> QED
      BY <2>1, <2>2, <2>3 DEF DamageIsConfined, Undone, MemoryInv
  <1>5. CASE Store
    <2>1. PICK s \in Stores : /\ text' = [text EXCEPT ![s] = "new"]
                              /\ shadow' = [shadow EXCEPT ![s] = "new"]
      BY <1>5 DEF Store
    <2>2. \A a \in Addr : \/ text'[a] = text[a] /\ shadow'[a] = shadow[a]
                          \/ text'[a] = shadow'[a]
      BY <2>1 DEF TypeOK
    <2>3. UNCHANGED <<bp, img>>
      BY <1>5 DEF Store, tracerVars
    <2> QED
      BY <2>2, <2>3 DEF DamageIsConfined, Undone
  <1>6. CASE Execve
    BY <1>6 DEF Execve, DamageIsConfined, Undone
  <1>7. CASE TracerStep /\ ~(PeekText \/ ArmBreakpoint \/ RestoreAfterStep \/ RestoreOriginal)
    BY <1>1, <1>7 DEF TracerStep, Fork, ForkFails, WaitExec, WaitExecDead, WaitFails, GetImageBase,
       GetImageBaseFails, PeekTextFails, PokeTextFails, PtraceFails, GetRegsBefore, SingleStep,
       WaitStep, WaitStepDead, Cont, WaitBreakpoint, WaitBreakpointDead, GetRegsAfter,
       SetRegs, CreateSnapshot, OpenDump, WriteDump, CloseDump, DumpFails, KillTarget,
       KillFails, ReapTarget, Fatal, TargetEnded, targetVars
  <1>8. CASE (TargetStep \/ Environment) /\ ~(Store \/ Execve)
    BY <1>1, <1>8 DEF TargetStep, Environment, TraceMe, ExecveFails, Execute, Trap,
       ExecuteGarbage, Exit, Signal, KilledTarget, KilledTracer, tracerVars
  <1>9. CASE UNCHANGED vars
    BY <1>1, <1>9 DEF vars
  <1> QED
    BY <1>2, <1>3, <1>4, <1>5, <1>6, <1>7, <1>8, <1>9 DEF Next, Finished

\* Whenever the snapshotter is killed, the target it leaves differs from an undebugged
\* one in the int3 at the hook at most, and in what restoring old_word undid.
THEOREM DamageConfined == Spec => []DamageIsConfined
  <1>1. Init => DamageIsConfined
    BY DEF Init, DamageIsConfined
  <1> QED
    BY <1>1, DamageNext, Inductive, PTL DEF Spec

\* Exit status 0 leaves no target behind, and a file that is complete or as it was.
THEOREM SuccessMeansDone == Spec => []SuccessIsAccounted
  <1>1. IInv => SuccessIsAccounted
    BY DEF IInv
  <1> QED
    BY <1>1, Inductive, PTL

\* No target gets past an armed breakpoint unnoticed while it is waited for.
THEOREM BreakpointCatches == Spec => BreakpointNotMissed
  <1> DEFINE AtHook == /\ pc = "wait_bp" /\ ~stepped /\ bp.img = img /\ img = "target"
                       /\ shadow[bp.hook] # "new"
                       /\ tip = bp.hook /\ tip' # tip
  <1>1. IInv /\ [Next]_vars => [AtHook => why' = "trap" /\ tst' = "stopped"]_vars
    <2> SUFFICES ASSUME IInv, Next, AtHook PROVE why' = "trap" /\ tst' = "stopped"
      OBVIOUS
    <2>1. AtInt3 /\ Alive
      <3>1. bp.hook \in Addr
        BY HookInImage DEF IInv, Peeked, PcValues, Waits, Ended
      <3> QED
        BY <3>1 DEF IInv, ArmedInv, AtInt3, Alive, Ended
    <2>2. ~TracerStep
      <3>1. SUFFICES ASSUME TracerStep PROVE tip' = tip
        OBVIOUS
      <3> QED
        BY <3>1 DEF TracerStep, Fork, ForkFails, WaitExec, WaitExecDead, WaitFails, GetImageBase,
          GetImageBaseFails, PeekText, PeekTextFails, ArmBreakpoint, PokeTextFails,
          PtraceFails,
          GetRegsBefore, SingleStep, WaitStep, WaitStepDead, RestoreAfterStep, Cont,
          WaitBreakpoint, WaitBreakpointDead, GetRegsAfter, SetRegs, RestoreOriginal,
          CreateSnapshot, OpenDump, WriteDump, CloseDump, DumpFails, KillTarget,
          KillFails, ReapTarget, Fatal, Restore, TargetEnded, Goto, targetVars
    <2>3. Trap
      BY <2>1, <2>2 DEF Next, TargetStep, Environment, Finished, vars, TraceMe, Execve,
          ExecveFails, Execute, ExecuteGarbage, Store, Exit, Signal, KilledTarget,
          KilledTracer
    <2> QED
      BY <2>1, <2>3 DEF Trap
  <1> QED
    BY <1>1, Inductive, PTL DEF Spec, BreakpointNotMissed

-----------------------------------------------------------------------------
(* A target that nothing disturbs                                          *)

\* Nobody sends the target a signal, it has no int3 of its own, and the user asks
\* for the start of an instruction other than the one execve stops at.
Undisturbed ==
  /\ MaxSignals = 0 /\ OwnTraps = {}
  /\ Hooks \subseteq Insn /\ Entry \notin Hooks

\* The tracer has ended, or waits for the target, or holds it after execve.
QuietTarget ==
  /\ pc = "fork" => img = "self"
  /\ pc \notin {"fork", "wait_exec"} \cup Ended => img = "target"
  /\ pc = "wait_exec" /\ tst = "stopped" => img = "target"
  /\ pc = "wait_exec" /\ img = "target" => tip = Entry /\ tst \in {"stopped", "zombie"}
  /\ pc \in {"image_base", "peek", "poke", "getregs1", "cont"} => tip = Entry
  /\ pc = "wait_bp" /\ tst = "running" => tip \in Insn
  /\ pc = "wait_bp" /\ tst = "stopped" => tip = Inc(bp.hook)
  /\ pc = "getregs2" => tip = Inc(bp.hook)

\* While it runs to the breakpoint, the int3 is the one byte that is not its own.
QuietMemory ==
  /\ \A a \in Addr : shadow[a] # "int3"
  /\ pc \in {"getregs1", "cont", "wait_bp"} =>
       \A a \in Addr : text[a] = shadow[a] \/ (a = bp.hook /\ text[a] = "int3")

\* What an undisturbed target keeps true, and execute_up_to_breakpoint relies on
\* without a check: the only stop after PTRACE_CONT is the one at the breakpoint.
QuietInv ==
  /\ QuietTarget
  /\ QuietMemory
  /\ ~stepped /\ ~warned
  /\ pc \notin {"singlestep", "wait_step", "restore1"}
  /\ SnapshotAtBreakpoint

\* At the start no target runs.
LEMMA QuietInit == Init => QuietInv
  BY DEF Init, QuietInv, QuietTarget, QuietMemory, SnapshotAtBreakpoint, SelfText, Ended

\* An instruction of the program that runs to the breakpoint is whole: the int3 stands
\* at the start of an instruction, so it damages no other, and that one traps.
LEMMA QuietInstruction ==
  ASSUME Undisturbed, TypeOK, QuietMemory, pc = "wait_bp", tip \in Insn
  PROVE  /\ AtInt3 => tip = bp.hook
         /\ ~AtInt3 => Intact
  <1>1. bp.hook \in Insn /\ tip \in Addr /\ Insn \subseteq Addr
    BY TracerAssumption DEF Undisturbed, TypeOK
  <1>2. \A a \in Addr : /\ shadow[a] # "int3"
                        /\ text[a] = shadow[a] \/ (a = bp.hook /\ text[a] = "int3")
    BY DEF QuietMemory
  <1>3. AtInt3 => tip = bp.hook
    BY <1>1, <1>2 DEF AtInt3
  <1>4. ASSUME ~AtInt3, NEW b \in Extent(tip) PROVE text[b] = shadow[b]
    <2>1. b \in Addr /\ tip <= b /\ ~(tip < bp.hook /\ bp.hook <= b)
      BY <1>1 DEF Extent
    <2>2. b = bp.hook => b = tip
      BY <1>1, <2>1, TracerAssumption DEF Addr
    <2>3. text[tip] # "int3"
      BY <1>1, <1>4 DEF AtInt3
    <2> QED
      BY <1>2, <2>1, <2>2, <2>3
  <1> QED
    BY <1>3, <1>4 DEF Intact

\* The tracer keeps to the path without a single step, and rewinds to the hook.
LEMMA QuietTracer == ASSUME Undisturbed, IInv, QuietInv, TracerStep PROVE QuietInv'
  <1> USE DEF QuietInv, QuietTarget, QuietMemory, SnapshotAtBreakpoint
  <1>1. CASE \/ ForkFails \/ WaitExecDead \/ GetImageBaseFails \/ PtraceFails
             \/ PeekTextFails \/ DumpFails \/ WaitFails \/ PokeTextFails
             \/ WaitStepDead \/ WaitBreakpointDead \/ ReapTarget
    <2>1. pc' \in {"exit0", "exit1"} /\ UNCHANGED <<bp, shadow, stepped, warned, saved>>
      BY <1>1 DEF WaitFails, PokeTextFails, ForkFails, WaitExecDead,
                     GetImageBaseFails, PtraceFails, PeekTextFails,
                  DumpFails, Fatal, WaitStepDead, WaitBreakpointDead, ReapTarget,
                  TargetEnded, Goto
    <2> QED
      BY <2>1 DEF Ended
  <1>2. CASE Fork \/ WaitExec \/ GetImageBase
    BY <1>2 DEF Fork, WaitExec, GetImageBase, Goto, targetVars, Ended
  <1>3. CASE PeekText
    BY <1>3 DEF PeekText, Goto, targetVars, Ended, IInv, FileInv
  <1>4. CASE ArmBreakpoint
    <2>1. /\ UNCHANGED <<bp, img, tip, shadow, stepped, warned, saved>>
          /\ pc = "poke" /\ pc' = "getregs1"
          /\ text' = Poked(bp.hook, PLACE_INT3_IN_FIRST_BYTE(bp.hook, bp.old))
      BY <1>4 DEF ArmBreakpoint, Goto
    <2>2. text = shadow /\ \A a \in Window(bp.hook) : bp.old[a] = text[a]
      BY <2>1 DEF IInv, MemoryInv, Unarmed
    <2>3. bp.old \in [Window(bp.hook) -> Byte] /\ text \in [Addr -> Byte]
      BY DEF IInv, TypeOK
    <2>4. \A a \in Window(bp.hook) :
            \/ PLACE_INT3_IN_FIRST_BYTE(bp.hook, bp.old)[a] = text[a]
            \/ a = bp.hook /\ PLACE_INT3_IN_FIRST_BYTE(bp.hook, bp.old)[a] = "int3"
      BY <2>2, <2>3 DEF PLACE_INT3_IN_FIRST_BYTE
    <2>5. \A a \in Addr : text'[a] = IF a \in Window(bp.hook)
                                     THEN PLACE_INT3_IN_FIRST_BYTE(bp.hook, bp.old)[a]
                                     ELSE text[a]
      BY <2>1, <2>3, ArmedWord, PokedBytes
    <2>6. \A a \in Addr : text'[a] = shadow[a] \/ (a = bp.hook /\ text'[a] = "int3")
      BY <2>2, <2>4, <2>5
    <2> QED
      BY <2>1, <2>6 DEF Ended
  <1>5. CASE GetRegsBefore
    <2>1. tip # bp.hook
      BY <1>5 DEF GetRegsBefore, Undisturbed, IInv, TypeOK
    <2> QED
      BY <1>5, <2>1 DEF GetRegsBefore, targetVars, Ended
  <1>6. CASE SingleStep \/ WaitStep \/ RestoreAfterStep
    BY <1>6 DEF SingleStep, WaitStep, RestoreAfterStep, Restore, Goto
  <1>7. CASE Cont
    BY <1>7, TracerAssumption DEF Cont, Goto, Ended
  <1>8. CASE WaitBreakpoint
    BY <1>8 DEF WaitBreakpoint, Goto, targetVars, Ended
  <1>9. CASE GetRegsAfter
    <2>1. ~warned'
      BY <1>9 DEF GetRegsAfter, Goto
    <2> QED
      BY <1>9, <2>1 DEF GetRegsAfter, Goto, targetVars, Ended
  <1>10. CASE SetRegs \/ RestoreOriginal
    BY <1>10 DEF SetRegs, RestoreOriginal, Restore, Goto, Ended
  <1>11. CASE CreateSnapshot
    <2>1. tip = bp.hook
      BY <1>11 DEF CreateSnapshot, Goto, IInv, RewindInv
    <2> QED
      BY <1>11, <2>1 DEF CreateSnapshot, Goto, targetVars, Ended
  <1>12. CASE OpenDump \/ WriteDump \/ CloseDump \/ KillTarget \/ KillFails
    BY <1>12 DEF OpenDump, WriteDump, CloseDump, KillTarget, KillFails, Goto, targetVars,
                 Ended
  <1> QED
    BY <1>1, <1>2, <1>3, <1>4, <1>5, <1>6, <1>7, <1>8, <1>9, <1>10, <1>11, <1>12
       DEF TracerStep

\* The target runs its own instructions up to the int3, and nothing else stops it.
LEMMA QuietOthers ==
  ASSUME Undisturbed, IInv, QuietInv, TargetStep \/ Environment PROVE QuietInv'
  <1> USE DEF QuietInv, QuietTarget, QuietMemory, SnapshotAtBreakpoint
  <1>1. CASE KilledTracer
    BY <1>1 DEF KilledTracer, Ended
  <1>2. ~Signal
    BY DEF Signal, Undisturbed, IInv, TypeOK
  <1>3. CASE TargetStep \/ KilledTarget
    <2>1. UNCHANGED <<pc, bp, stepped, warned, saved>>
      BY <1>3 DEF TargetStep, TraceMe, Execve, ExecveFails, Execute, Trap,
                  ExecuteGarbage, Store, Exit, KilledTarget, tracerVars
    <2>2. CASE Execve
      <3>1. pc \in {"wait_exec"} \cup Ended
        BY <2>2, TargetMoves DEF Execve, IInv
      <3>2. \A a \in Addr : ProgText[a] # "int3"
        BY DEF ProgText, Undisturbed
      <3> QED
        BY <2>1, <2>2, <3>1, <3>2 DEF Execve, Alive, Ended
    <2>3. CASE TraceMe \/ ExecveFails \/ Exit \/ KilledTarget
      <3>1. UNCHANGED <<img, tip, text, shadow>>
        BY <2>3 DEF TraceMe, ExecveFails, Exit, KilledTarget
      <3>2. tst' \in {"zombie", "gone"} \/ (tst = "child" /\ tst' = "running")
        BY <2>3 DEF TraceMe, ExecveFails, Exit, KilledTarget, Dead
      <3>3. tst' = "gone" => ~Alive
        BY <2>3 DEF TraceMe, ExecveFails, Exit, KilledTarget, Dead
      <3> QED
        BY <2>1, <3>1, <3>2, <3>3 DEF Alive, Ended, IInv, PhaseInv
    <2>4. CASE Store
      <3>1. PICK s \in Stores : /\ text' = [text EXCEPT ![s] = "new"]
                                /\ shadow' = [shadow EXCEPT ![s] = "new"]
        BY <2>4 DEF Store
      <3>2. \A a \in Addr : \/ text'[a] = text[a] /\ shadow'[a] = shadow[a]
                            \/ text'[a] = "new" /\ shadow'[a] = "new"
        BY <3>1 DEF IInv, TypeOK
      <3> QED
        BY <2>1, <2>4, <3>2 DEF Store
    <2>5. CASE Execute \/ Trap \/ ExecuteGarbage
      <3>1. UNCHANGED <<img, text, shadow>> /\ img = "target" /\ Running
        BY <2>5 DEF Execute, Trap, ExecuteGarbage
      <3>2. pc \in {"wait_bp"} \cup Ended
        BY <3>1, TargetMoves DEF Running, IInv
      <3>3. CASE pc \in Ended
        BY <2>1, <3>1, <3>3 DEF Ended
      <3>4. CASE pc = "wait_bp"
        <4>1. tst = "running" /\ tip \in Insn /\ Alive
          BY <3>1, <3>4 DEF Running, IInv, PhaseInv, Alive, Ended
        <4>2. /\ AtInt3 => tip = bp.hook
              /\ ~AtInt3 => Intact
          BY <3>4, <4>1, QuietInstruction DEF IInv
        <4>3. \/ tst' = "running" /\ tip' \in Insn
              \/ tst' = "stopped" /\ tip' = Inc(bp.hook)
          BY <2>5, <4>1, <4>2, TracerAssumption DEF Execute, Trap, ExecuteGarbage, AfterInsn
        <4> QED
          BY <2>1, <3>1, <3>4, <4>3 DEF Ended
      <3> QED
        BY <3>2, <3>3, <3>4
    <2> QED
      BY <1>3, <2>2, <2>3, <2>4, <2>5 DEF TargetStep
  <1> QED
    BY <1>1, <1>2, <1>3 DEF Environment

\* An undisturbed target is stopped by the breakpoint alone, at every point of main().
THEOREM QuietHolds ==
  ASSUME Undisturbed PROVE Spec => []QuietInv
  <1>1. IInv /\ QuietInv /\ [Next]_vars => QuietInv'
    <2> SUFFICES ASSUME IInv, QuietInv, [Next]_vars PROVE QuietInv'
      OBVIOUS
    <2>1. CASE UNCHANGED vars
      BY <2>1 DEF QuietInv, QuietTarget, QuietMemory, SnapshotAtBreakpoint, vars
    <2> QED
      BY <2>1, QuietTracer, QuietOthers DEF Next, Finished
  <1> QED
    BY <1>1, QuietInit, Inductive, PTL DEF Spec

\* The snapshot of an undisturbed target is taken where the user asked for it, although
\* execute_up_to_breakpoint takes any stop for the breakpoint.
THEOREM QuietSnapshot ==
  ASSUME Undisturbed PROVE Spec => []SnapshotAtBreakpoint
  <1>1. QuietInv => SnapshotAtBreakpoint
    BY DEF QuietInv
  <1> QED
    BY <1>1, QuietHolds, PTL

=============================================================================
