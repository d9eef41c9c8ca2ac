------------------------------- MODULE Tracer -------------------------------
(***************************************************************************)
(* The snapshotter (snapshotter/src/main.c, linux/breakpoint.c,            *)
(* <arch>/snapshot.c, linux/snapshot_dump.c) as a tracer process that runs *)
(* concurrently with the target it forks, the kernel's ptrace rules that   *)
(* connect the two, and an environment that may send the target signals,   *)
(* kill it, or kill the tracer.                                            *)
(*                                                                         *)
(* There is one tracer action for every system call whose effect another   *)
(* process can observe or whose failure the code tests; the statements     *)
(* between two calls belong to the action of the call before them.         *)
(*                                                                         *)
(* The target is a program over byte addresses: Insn are the addresses     *)
(* where an instruction starts and Succ the instructions that may follow   *)
(* each.  A byte is the program's own ("prog"), the program's own after it *)
(* rewrote it ("new", a relocation or self-modification), a byte of the    *)
(* image the child still runs before execve ("self"), or the int3 opcode.  *)
(***************************************************************************)
EXTENDS Integers, FiniteSets

CONSTANTS
  LastAddr,    \* the target's image occupies the addresses 0..LastAddr
  AddrMod,     \* 2^w: instruction pointers are 0..AddrMod-1 and wrap
  WordSize,    \* bytes moved by PTRACE_PEEKTEXT and PTRACE_POKETEXT
  Insn,        \* addresses at which an instruction of the target starts
  Succ,        \* Succ[a]: where control may go after the instruction at a
  Exits,       \* instructions that end the process
  Entry,       \* instruction pointer at the stop execve causes
  OwnTraps,    \* int3 instructions that belong to the program
  Stores,      \* image bytes that the program writes while it runs
  Hooks,       \* values of image_base + breakpoint_offset the user may ask for
  PIE,         \* TRUE when the target is ET_DYN
  KillMayFail, \* TRUE when kill(SIGKILL) may be refused
  MaxSignals,  \* bound: signals sent to the target
  MaxKills     \* bound: SIGKILLs sent to the target or to the tracer

Addr == 0 .. LastAddr
Ptr  == 0 .. (AddrMod - 1)
Byte == {"prog", "self", "int3", "new"}

\* The instruction pointer of the forked child while it still runs the image of
\* the snapshotter: no address of the target's image.
SelfIp == LastAddr + 2

ASSUME TracerAssumption ==
  /\ LastAddr \in Nat /\ AddrMod \in Nat /\ AddrMod > LastAddr + 3
  /\ WordSize \in Nat \ {0}
  /\ Insn \subseteq Addr /\ Succ \in [Insn -> SUBSET Insn]
  /\ Exits \subseteq Insn /\ Entry \in Insn /\ OwnTraps \subseteq Insn
  /\ Stores \subseteq Addr
  /\ Hooks \subseteq Ptr /\ SelfIp \notin Hooks
  /\ PIE \in BOOLEAN /\ KillMayFail \in BOOLEAN
  /\ MaxSignals \in Nat /\ MaxKills \in Nat

VARIABLES
  pc,      \* where main() is
  bp,      \* breakpoint_t: hook_addr and old_word; img is the image it was read from
  regs,    \* the instruction pointer in execute_up_to_breakpoint's regs
  stepped, \* execute_up_to_breakpoint took its single-step branch
  warned,  \* "stopped at an unexpected address" was logged
  saved,   \* process_state_t captured by create_snapshot
  file,    \* ql_snapshot: what an earlier run left, partly written, complete
  tst,     \* run state of the target as the kernel keeps it
  img,     \* the image mapped in the target
  tip,     \* the target's instruction pointer
  text,    \* the bytes of the target's image
  why,     \* what caused the target's latest stop
  shadow,  \* history: the bytes the target would have had it not been traced
  nsig,    \* signals sent so far
  nkill    \* SIGKILLs sent so far

tracerVars == <<pc, bp, regs, stepped, warned, saved, file>>
targetVars == <<tst, img, tip, text, why, shadow>>
vars == <<pc, bp, regs, stepped, warned, saved, file,
          tst, img, tip, text, why, shadow, nsig, nkill>>

\* The program counters at which the next statement is a ptrace request on the
\* target.
PtraceCalls == {"peek", "poke", "getregs1", "singlestep", "restore1", "cont",
                "getregs2", "setregs", "restore2", "snapshot"}

Waits == {"wait_exec", "wait_step", "wait_bp", "reap"}

Ended == {"exit0", "exit1", "killed"}

PcValues == PtraceCalls \cup Waits \cup Ended
              \cup {"fork", "image_base", "open", "write", "close", "kill"}

Alive   == pc \notin Ended
Running == tst \in {"running", "stepping"}

-----------------------------------------------------------------------------
(* Memory words and instructions                                           *)

Window(h) == h .. (h + WordSize - 1)

Inc(x) == IF x = AddrMod - 1 THEN 0 ELSE x + 1

\* Mutant: the decrement does not wrap.
PlainDec(x) == x - 1

\* (*pip)--: the bits of the pointer wrap.  Where pip points to a signed long (i386)
\* the language leaves the step from its least value undefined; the build's
\* instruction is the same.
Dec(x) == IF x = 0 THEN AddrMod - 1 ELSE x - 1

ProgText == [a \in Addr |-> IF a \in OwnTraps THEN "int3" ELSE "prog"]
SelfText == [a \in Addr |-> "self"]

\* Mutant: the int3 goes into the most significant byte.
Int3InLastByte(h, word) == [word EXCEPT ![h + WordSize - 1] = "int3"]

\* Mutant: every byte of the word becomes an int3.
Int3InEveryByte(h, word) == [a \in DOMAIN word |-> "int3"]

\* The byte at the lowest address is the least significant one of the word.
PLACE_INT3_IN_FIRST_BYTE(h, word) == [word EXCEPT ![h] = "int3"]

Poked(h, word) == [a \in Addr |-> IF a \in Window(h) THEN word[a] ELSE text[a]]

\* The bytes of the instruction that starts at a.
Extent(a) == {b \in Addr : a <= b /\ \A c \in Insn : ~(a < c /\ c <= b)}

\* The processor executes the program's own instruction at the instruction
\* pointer: it is at the start of one, and none of its bytes was replaced.
Intact == tip \in Insn /\ \A b \in Extent(tip) : text[b] = shadow[b]

AtInt3 == tip \in Addr /\ text[tip] = "int3"

-----------------------------------------------------------------------------
Init ==
  /\ pc = "fork"
  /\ \E h \in Hooks :
       bp = [hook |-> h, old |-> [a \in Window(h) |-> "self"], img |-> "none"]
  /\ regs = 0
  /\ stepped = FALSE
  /\ warned = FALSE
  /\ saved = [taken |-> FALSE, ip |-> 0]
  /\ file = "stale"
  /\ tst = "none"
  /\ img = "self"
  /\ tip = SelfIp
  /\ text = SelfText
  /\ why = "none"
  /\ shadow = SelfText
  /\ nsig = 0
  /\ nkill = 0

-----------------------------------------------------------------------------
(* The tracer                                                              *)

Goto(from, to) == pc = from /\ pc' = to

\* The kernel side of the end of a tracer without PTRACE_O_EXITKILL: a stopped
\* target is detached and resumes, or dies of the signal it was stopped with;
\* one that is already dead is reaped by init.
Detached(s) ==
  CASE s = "stopped" -> {"running", "gone"}
    [] s = "stepping" -> {"running"}
    [] s = "zombie" -> {"gone"}
    [] OTHER -> {s}

\* LOG_FATAL and LOG_FATAL_ERRNO: exit(EXIT_FAILURE).  Nothing is cleaned up.
Fatal ==
  /\ pc' = "exit1"
  /\ tst' \in Detached(tst)
  /\ UNCHANGED <<bp, regs, stepped, warned, saved, file,
                 img, tip, text, why, shadow, nsig, nkill>>

Fork ==
  /\ Goto("fork", "wait_exec")
  /\ tst' = "child"
  /\ UNCHANGED <<bp, regs, stepped, warned, saved, file,
                 img, tip, text, why, shadow, nsig, nkill>>

ForkFails == pc = "fork" /\ Fatal

\* waitpid in fork_child: any stop is taken for the one execve causes.
WaitExec ==
  /\ tst = "stopped"
  /\ Goto("wait_exec", "image_base")
  /\ UNCHANGED <<bp, regs, stepped, warned, saved, file, targetVars, nsig, nkill>>

WaitExecDead == pc = "wait_exec" /\ tst = "zombie" /\ Fatal

\* waitpid returns -1.  Without a handler nothing interrupts it; it finds no child
\* when the snapshotter was started with SIGCHLD ignored and the target is dead,
\* since the kernel then reaps it.  The last waitpid of main takes that for the end
\* of the target (ReapTarget).
WaitFails == pc \in {"wait_exec", "wait_step", "wait_bp"} /\ tst = "zombie" /\ Fatal

\* get_image_base: 0 for ET_EXEC; for ET_DYN it is derived from the target's
\* mappings of the executable, of which there are none before execve.
GetImageBase ==
  /\ ~(PIE /\ (img = "self" \/ tst = "zombie"))
  /\ Goto("image_base", "peek")
  /\ UNCHANGED <<bp, regs, stepped, warned, saved, file, targetVars, nsig, nkill>>

\* The executable cannot be opened or is no ELF image, or none of it is mapped.
GetImageBaseFails == pc = "image_base" /\ Fatal

\* Any ptrace request on a target that is not stopped fails with ESRCH.
PtraceFails == pc \in PtraceCalls /\ tst # "stopped" /\ Fatal

\* A word that is not mapped as a whole cannot be read; what the image of the
\* snapshotter has at that address is unknown.
PeekTextFails ==
  /\ pc = "peek"
  /\ tst = "stopped"
  /\ img = "self" \/ ~(Window(bp.hook) \subseteq Addr)
  /\ Fatal

\* Mutant: old_word is taken after the int3 was put into it.
PeekArmedWord ==
  /\ tst = "stopped"
  /\ Window(bp.hook) \subseteq Addr
  /\ Goto("peek", "poke")
  /\ bp' = [bp EXCEPT !.old = [[a \in Window(bp.hook) |-> text[a]]
                                EXCEPT ![bp.hook] = "int3"],
                      !.img = img]
  /\ UNCHANGED <<regs, stepped, warned, saved, file, targetVars, nsig, nkill>>

PeekText ==
  /\ tst = "stopped"
  /\ Window(bp.hook) \subseteq Addr
  /\ Goto("peek", "poke")
  /\ bp' = [bp EXCEPT !.old = [a \in Window(bp.hook) |-> text[a]], !.img = img]
  /\ UNCHANGED <<regs, stepped, warned, saved, file, targetVars, nsig, nkill>>

\* A word that can be read but not written: one of a shared mapping without write
\* permission.  The same word was written before when it is restored.
PokeTextFails == pc = "poke" /\ tst = "stopped" /\ Fatal

ArmBreakpoint ==
  /\ tst = "stopped"
  /\ Goto("poke", "getregs1")
  /\ text' = Poked(bp.hook, PLACE_INT3_IN_FIRST_BYTE(bp.hook, bp.old))
  /\ UNCHANGED <<bp, regs, stepped, warned, saved, file,
                 tst, img, tip, why, shadow, nsig, nkill>>

\* Mutant: the single-step branch is always taken.
AlwaysStep ==
  /\ Goto("getregs1", "singlestep")
  /\ tst = "stopped"
  /\ regs' = tip
  /\ stepped' = TRUE
  /\ UNCHANGED <<bp, warned, saved, file, targetVars, nsig, nkill>>

GetRegsBefore ==
  /\ pc = "getregs1"
  /\ tst = "stopped"
  /\ regs' = tip
  /\ stepped' = (tip = bp.hook)
  /\ pc' = IF tip = bp.hook THEN "singlestep" ELSE "cont"
  /\ UNCHANGED <<bp, warned, saved, file, targetVars, nsig, nkill>>

SingleStep ==
  /\ tst = "stopped"
  /\ Goto("singlestep", "wait_step")
  /\ tst' = "stepping"
  /\ UNCHANGED <<bp, regs, stepped, warned, saved, file,
                 img, tip, text, why, shadow, nsig, nkill>>

WaitStep ==
  /\ tst = "stopped"
  /\ Goto("wait_step", "restore1")
  /\ UNCHANGED <<bp, regs, stepped, warned, saved, file, targetVars, nsig, nkill>>

\* The target ended before the stop: exit(EXIT_SUCCESS), nothing is written.
TargetEnded(from) ==
  /\ tst = "zombie"
  /\ Goto(from, "exit0")
  /\ tst' = "gone"
  /\ UNCHANGED <<bp, regs, stepped, warned, saved, file,
                 img, tip, text, why, shadow, nsig, nkill>>

WaitStepDead == TargetEnded("wait_step")

\* Mutant: the word is left as it is.
SkipRestore(from, to) ==
  /\ tst = "stopped"
  /\ Goto(from, to)
  /\ UNCHANGED <<bp, regs, stepped, warned, saved, file, targetVars, nsig, nkill>>

Restore(from, to) ==
  /\ tst = "stopped"
  /\ Goto(from, to)
  /\ text' = Poked(bp.hook, bp.old)
  /\ UNCHANGED <<bp, regs, stepped, warned, saved, file,
                 tst, img, tip, why, shadow, nsig, nkill>>

RestoreAfterStep == Restore("restore1", "cont")

\* PTRACE_CONT passes signal 0: what stopped the target is not delivered.
Cont ==
  /\ tst = "stopped"
  /\ Goto("cont", "wait_bp")
  /\ tst' = "running"
  /\ UNCHANGED <<bp, regs, stepped, warned, saved, file,
                 img, tip, text, why, shadow, nsig, nkill>>

\* waitpid in execute_up_to_breakpoint: any stop is taken for the breakpoint.
WaitBreakpoint ==
  /\ tst = "stopped"
  /\ Goto("wait_bp", "getregs2")
  /\ UNCHANGED <<bp, regs, stepped, warned, saved, file, targetVars, nsig, nkill>>

\* Mutant: the snapshot is taken although there is no target any more.
DumpDeadTarget ==
  /\ tst = "zombie"
  /\ Goto("wait_bp", "open")
  /\ UNCHANGED <<bp, regs, stepped, warned, saved, file, targetVars, nsig, nkill>>

WaitBreakpointDead == TargetEnded("wait_bp")

\* Mutant: the rewind over the int3 is forgotten.
KeepIp ==
  /\ tst = "stopped"
  /\ Goto("getregs2", "setregs")
  /\ warned' = (tip # Inc(bp.hook))
  /\ regs' = tip
  /\ UNCHANGED <<bp, stepped, saved, file, targetVars, nsig, nkill>>

\* An instruction pointer that is not just after the int3 is only worth a
\* warning; it is decremented all the same.
GetRegsAfter ==
  /\ tst = "stopped"
  /\ Goto("getregs2", "setregs")
  /\ warned' = (tip # Inc(bp.hook))
  /\ regs' = Dec(tip)
  /\ UNCHANGED <<bp, stepped, saved, file, targetVars, nsig, nkill>>

SetRegs ==
  /\ tst = "stopped"
  /\ Goto("setregs", "restore2")
  /\ tip' = regs
  /\ UNCHANGED <<bp, regs, stepped, warned, saved, file,
                 tst, img, text, why, shadow, nsig, nkill>>

RestoreOriginal == Restore("restore2", "snapshot")

CreateSnapshot ==
  /\ tst = "stopped"
  /\ Goto("snapshot", "open")
  /\ saved' = [taken |-> TRUE, ip |-> tip]
  /\ UNCHANGED <<bp, regs, stepped, warned, file, targetVars, nsig, nkill>>

\* dump_snapshot: fopen(.., "wb") truncates what an earlier run left.
OpenDump ==
  /\ Goto("open", "write")
  /\ file' = "partial"
  /\ UNCHANGED <<bp, regs, stepped, warned, saved, targetVars, nsig, nkill>>

WriteDump ==
  /\ Goto("write", "close")
  /\ UNCHANGED <<bp, regs, stepped, warned, saved, file, targetVars, nsig, nkill>>

CloseDump ==
  /\ Goto("close", "kill")
  /\ file' = "complete"
  /\ UNCHANGED <<bp, regs, stepped, warned, saved, targetVars, nsig, nkill>>

\* fopen, an fwrite, fflush or fclose fails.
DumpFails == pc \in {"open", "write", "close"} /\ Fatal

\* Mutant: the signal sent does not end the target.
HarmlessKill ==
  /\ Goto("kill", "reap")
  /\ UNCHANGED <<bp, regs, stepped, warned, saved, file, targetVars, nsig, nkill>>

\* Mutant: main returns without waiting for a target it has not killed.
LeaveTarget ==
  /\ Goto("kill", "exit0")
  /\ tst' \in Detached(tst)
  /\ UNCHANGED <<bp, regs, stepped, warned, saved, file,
                 img, tip, text, why, shadow, nsig, nkill>>

KillTarget ==
  /\ Goto("kill", "reap")
  /\ tst' = "zombie"
  /\ UNCHANGED <<bp, regs, stepped, warned, saved, file,
                 img, tip, text, why, shadow, nsig, nkill>>

\* The refusal is logged and waitpid is called all the same.
KillFails ==
  /\ KillMayFail
  /\ tst = "stopped"
  /\ Goto("kill", "reap")
  /\ UNCHANGED <<bp, regs, stepped, warned, saved, file, targetVars, nsig, nkill>>

ReapTarget == TargetEnded("reap")

TracerStep ==
  \/ Fork \/ ForkFails \/ WaitExec \/ WaitExecDead \/ WaitFails
  \/ GetImageBase \/ GetImageBaseFails
  \/ PeekText \/ PeekTextFails \/ ArmBreakpoint \/ PokeTextFails \/ PtraceFails
  \/ GetRegsBefore \/ SingleStep \/ WaitStep \/ WaitStepDead \/ RestoreAfterStep
  \/ Cont \/ WaitBreakpoint \/ WaitBreakpointDead
  \/ GetRegsAfter \/ SetRegs \/ RestoreOriginal
  \/ CreateSnapshot \/ OpenDump \/ WriteDump \/ CloseDump \/ DumpFails
  \/ KillTarget \/ KillFails \/ ReapTarget

-----------------------------------------------------------------------------
(* The target, under the kernel's rules                                    *)

Dead == IF Alive THEN "zombie" ELSE "gone"

\* ptrace(PTRACE_TRACEME); if it fails the child exits.  A child whose parent has
\* ended by then is left untraced here.
TraceMe ==
  /\ tst = "child"
  /\ tst' \in {"running", Dead}
  /\ UNCHANGED <<tracerVars, img, tip, text, why, shadow, nsig, nkill>>

\* execve replaces the image and stops a traced process at its first instruction.
Execve ==
  /\ tst = "running"
  /\ img = "self"
  /\ img' = "target"
  /\ text' = ProgText
  /\ shadow' = ProgText
  /\ tip' = Entry
  /\ why' = "exec"
  /\ tst' = IF Alive THEN "stopped" ELSE "running"
  /\ UNCHANGED <<tracerVars, nsig, nkill>>

ExecveFails ==
  /\ tst = "running"
  /\ img = "self"
  /\ tst' = Dead
  /\ UNCHANGED <<tracerVars, img, tip, text, why, shadow, nsig, nkill>>

\* A process that single-steps stops after the instruction.
AfterInsn == IF tst = "stepping" THEN "stopped" ELSE tst

Execute ==
  /\ Running
  /\ img = "target"
  /\ ~AtInt3
  /\ Intact
  /\ tip' \in Succ[tip]
  /\ tst' = AfterInsn
  /\ why' = IF tst = "stepping" THEN "step" ELSE why
  /\ UNCHANGED <<tracerVars, img, text, shadow, nsig, nkill>>

\* int3 leaves the instruction pointer just after itself and raises SIGTRAP,
\* which stops a traced process and kills any other.
Trap ==
  /\ Running
  /\ img = "target"
  /\ AtInt3
  /\ IF Alive
     THEN tst' = "stopped" /\ tip' = Inc(tip) /\ why' = "trap"
     ELSE tst' = "gone" /\ UNCHANGED <<tip, why>>
  /\ UNCHANGED <<tracerVars, img, text, shadow, nsig, nkill>>

\* The bytes at the instruction pointer are no instruction of the program:
\* whatever they decode to runs, or faults.
ExecuteGarbage ==
  /\ Running
  /\ img = "target"
  /\ ~AtInt3
  /\ ~Intact
  /\ \/ /\ tip' \in Addr
        /\ tst' = AfterInsn
        /\ why' = IF tst = "stepping" THEN "step" ELSE why
     \/ /\ tst' = IF Alive THEN "stopped" ELSE "gone"
        /\ why' = "signal"
        /\ UNCHANGED tip
  /\ UNCHANGED <<tracerVars, img, text, shadow, nsig, nkill>>

Store ==
  /\ Running
  /\ img = "target"
  /\ \E a \in Stores :
       /\ text' = [text EXCEPT ![a] = "new"]
       /\ shadow' = [shadow EXCEPT ![a] = "new"]
  /\ UNCHANGED <<tracerVars, tst, img, tip, why, nsig, nkill>>

Exit ==
  /\ Running
  /\ img = "target"
  /\ ~AtInt3
  /\ Intact
  /\ tip \in Exits
  /\ tst' = Dead
  /\ UNCHANGED <<tracerVars, img, tip, text, why, shadow, nsig, nkill>>

TargetStep ==
  \/ TraceMe \/ Execve \/ ExecveFails
  \/ Execute \/ Trap \/ ExecuteGarbage \/ Store \/ Exit

-----------------------------------------------------------------------------
(* The environment                                                         *)

\* A signal for a traced process stops it wherever it is, whatever the signal
\* and its disposition are.
Signal ==
  /\ Alive
  /\ Running
  /\ nsig < MaxSignals
  /\ nsig' = nsig + 1
  /\ tst' = "stopped"
  /\ why' = "signal"
  /\ UNCHANGED <<tracerVars, img, tip, text, shadow, nkill>>

\* SIGKILL from outside, or the death of the whole process through one of its
\* other threads (one that runs into the int3, for example).
KilledTarget ==
  /\ tst \in {"child", "running", "stepping", "stopped"}
  /\ nkill < MaxKills
  /\ nkill' = nkill + 1
  /\ tst' = Dead
  /\ UNCHANGED <<tracerVars, img, tip, text, why, shadow, nsig>>

\* The tracer dies of a signal: it installs no handler.
KilledTracer ==
  /\ Alive
  /\ nkill < MaxKills
  /\ nkill' = nkill + 1
  /\ pc' = "killed"
  /\ tst' \in Detached(tst)
  /\ UNCHANGED <<bp, regs, stepped, warned, saved, file,
                 img, tip, text, why, shadow, nsig>>

Environment == Signal \/ KilledTarget \/ KilledTracer

\* Both processes are gone.
Finished == ~Alive /\ tst \in {"none", "gone"} /\ UNCHANGED vars

Next == TracerStep \/ TargetStep \/ Environment \/ Finished

Spec == Init /\ [][Next]_vars

\* The kernel schedules the tracer and the target; nothing obliges the
\* environment to act.
Progress == Execute \/ Trap \/ ExecuteGarbage \/ Exit \/ TraceMe \/ Execve \/ ExecveFails

FairSpec == Spec /\ WF_vars(TracerStep) /\ WF_vars(Progress)

-----------------------------------------------------------------------------
(* Properties                                                              *)

\* Every variable has its type.
TypeOK ==
  /\ pc \in PcValues
  /\ bp.hook \in Hooks
  /\ bp.img \in {"none", "self", "target"}
  /\ bp.old \in [Window(bp.hook) -> Byte]
  /\ bp = [hook |-> bp.hook, old |-> bp.old, img |-> bp.img]
  /\ regs \in Ptr
  /\ stepped \in BOOLEAN
  /\ warned \in BOOLEAN
  /\ saved \in [taken : BOOLEAN, ip : Ptr]
  /\ file \in {"stale", "partial", "complete"}
  /\ tst \in {"none", "child", "running", "stepping", "stopped", "zombie", "gone"}
  /\ img \in {"self", "target"}
  /\ tip \in Ptr
  /\ text \in [Addr -> Byte]
  /\ why \in {"none", "exec", "trap", "signal", "step"}
  /\ shadow \in [Addr -> Byte]
  /\ nsig \in 0 .. MaxSignals
  /\ nkill \in 0 .. MaxKills

\* The registers were captured and main() is on its way to writing them.
Captured == pc \in {"open", "write", "close", "kill", "reap"}

\* A byte of the replaced word that the target itself rewrote after the breakpoint was
\* set, and that restoring old_word (breakpoint.c:172) put back.
Undone(a) == a \in Window(bp.hook) /\ shadow[a] = "new" /\ text[a] = bp.old[a]

\* The memory the dump reads is the memory of an undebugged target.  If the
\* breakpoint was armed in the image that is dumped, each byte has the value the
\* target gave it; a byte of the replaced word that the target rewrote may have the
\* value it had before, and no other: never the int3 of the breakpoint.
MemoryFaithful ==
  (Captured /\ bp.img = img) =>
    \A a \in Addr : text[a] = shadow[a] \/ Undone(a)

\* A snapshot taken without the warning can be resumed where the user asked for
\* it: the saved instruction pointer is the hook, in spite of the int3 that was
\* executed there, and the byte at the hook is the one the int3 replaced.
ResumesAtHook ==
  (Captured /\ ~warned) =>
     saved.ip = bp.hook /\ text[bp.hook] = bp.old[bp.hook]

\* A target that survives a failed snapshotter (LOG_FATAL exits without killing
\* it) runs its own code: the int3 is never left behind in it.
OrphanIsClean ==
  (pc = "exit1" /\ Running /\ img = "target" /\ bp.img # "self") =>
    \A a \in Addr : text[a] = shadow[a] \/ Undone(a)

\* The snapshotter can be killed between any two calls, and then nothing takes
\* the int3 away; so at all times, while the target is traced and after, the one
\* byte that is not the target's own is the int3 at the hook, but for what
\* restoring old_word undid.
DamageIsConfined ==
  (img = "target" /\ bp.img # "self") =>
    \A a \in Addr :
      \/ text[a] = shadow[a]
      \/ Undone(a)
      \/ a = bp.hook /\ text[a] = "int3"

\* Exit status 0 means that the target is gone and that either the snapshot is
\* complete or the target ended by itself and an earlier snapshot is untouched.
SuccessIsAccounted ==
  pc = "exit0" =>
    /\ tst = "gone"
    /\ \/ file = "complete" /\ saved.taken
       \/ file = "stale" /\ ~saved.taken

\* The snapshot is taken where the user asked for it (README.md: "resumes
\* execution until the breakpoint is reached").
SnapshotAtBreakpoint == saved.taken => saved.ip = bp.hook

\* A target that comes to the breakpoint while the snapshotter waits for it does
\* not get past it unnoticed: the only step it takes there is the trap.  The
\* exceptions are a target that wrote over the int3 itself, a breakpoint at the
\* instruction where execve stops, which the single-step branch disarms, and a
\* breakpoint that was set in the image execve replaced.
BreakpointNotMissed ==
  [][(/\ pc = "wait_bp" /\ ~stepped /\ bp.img = img /\ img = "target"
      /\ shadow[bp.hook] # "new"
      /\ tip = bp.hook /\ tip' # tip)
       => why' = "trap" /\ tst' = "stopped"]_vars

\* The single-step branch moves the target past the instruction at the breakpoint
\* (breakpoint.c:103: "single-stepping past it").
StepsPastBreakpoint ==
  (pc = "cont" /\ stepped /\ why # "signal") => tip \in Succ[bp.hook]

\* fork_child returns with the target stopped by execve (breakpoint.c:56:
\* "stopped after PTRACE_TRACEME + execve").
StoppedAfterExecve == pc = "image_base" => img = "target"

\* The snapshotter always comes to an end: it never waits for a target that is
\* stopped or dead, under fair scheduling of both processes.
EventuallyEnds == <>(pc \in Ended)

=============================================================================
