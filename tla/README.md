# Verification of process-bridge

process-bridge runs a native Linux program up to a breakpoint, writes its memory
and processor state to a file (`ql_snapshot`), and loads that file into a Unicorn
or Qiling emulator. This directory has TLA+ models of it, TLC configurations that
check them, and TLAPS proofs: every safety property of a passing run is also a
theorem, for all values of the constants. All file names below are relative to the
repository.

## 1. The system

| Component | State | Operations | Module |
|---|---|---|---|
| snapshotter: control of the target (`snapshotter/src/main.c`, `linux/breakpoint.c`) | where `main` is, `breakpoint_t`, registers, the captured `process_state_t` | `fork_child`, `create_breakpoint`, `execute_up_to_breakpoint`, `create_snapshot`, `dump_snapshot`, kill and reap | `Tracer`; what it promises: `Snapshotter` |
| the target and the kernel's ptrace rules (external) | run state, image, instruction pointer, bytes | execve, instructions, int3, stores, exit, signals | `Tracer` |
| maps iterator (`linux/maps_parser.c`) | lines stdio has buffered, the entry | `create_maps_iter`, `next` | `MappingDump` |
| memory dump (`linux/mappings_reader.c`, `linux/snapshot_dump.c`) | `local_buffer`, position, the file | entry, chunks, flush and close | `MappingDump` |
| the target's other threads (external) | mappings, page contents | store, mmap, munmap, mprotect, die | `MappingDump` |
| capture of the processor state (`linux/<arch>/snapshot.c`) | registers, TLS descriptors | `create_snapshot` | `Tracer`, `CpuState` |
| loader, file part (`loader/src/loader.c`, `dump.c`) | offset, number of mappings loaded | `pb_restore_snapshot`, `pb_create_from_snapshot`, `dump_snapshot` | `Loader` |
| loader, processor part (`loader/src/*cpu_state_dump.c`) | descriptor table, trampoline | `dump_gdt`, `enter_ring3`, register writes | `CpuState`, `Loader` |
| Unicorn (external) | pages, registers, segment registers with hidden bases | `uc_mem_map`, `uc_mem_write`, `uc_mem_protect`, `uc_reg_write`, `uc_emu_start` | `Loader` |
| Python binding (`python/process_bridge`) | what Qiling mapped | `restore_snapshot`, `make_qiling_from_snapshot` | `Loader` |
| ELF information, image base (`linux/process_info.c`, arguments of `main.c`) | `elf_info_t`, `min_vaddr`, `min_maps_addr` | `open_elf`, `is_pie`, `get_min_vaddr`, `get_image_base` | `ImageBase` (its outcome in `Tracer`) |
| the file system (external) | which file the path names | rename, unlink | `ImageBase` |
| descriptor encoding (`loader/include/gdt_utils.h`) | bit fields | `GDT_ENTRY_INIT`, `USER_DESC_TO_REAL_DESC` | `Gdt` |
| logging (`utilities/log`) | `g_min_level`, `g_initialized` | `log_init`, `log_set_level`, `log_log`, `LOG_FATAL` | `Log`; that it ends the process also in `Tracer` and `Loader` |

How they interact: tracer and target are two processes that share the target's
text (`PTRACE_PEEKTEXT`/`POKETEXT`) and its run state (ptrace stops, `waitpid`).
The writer reads the target's memory while all threads but one still run. Writer
and loader meet only in the file, which may have been cut. The loader calls
Unicorn, whose owner may have mapped pages before. All of them log; the loader's
log is shared by the threads of a Python interpreter, since ctypes releases the
interpreter's lock.

What is hard here, and what makes each part correct:

* *Tracer.* Any stop of the target (a signal, a trap of its own, execve) answers
  a `waitpid`; either process may die between any two calls; the patched word is
  put back from a copy taken earlier; `LOG_FATAL` exits without cleaning up and
  the kernel then frees the target. Correct: the dumped bytes are the target's own,
  the saved instruction pointer is the breakpoint, nothing survives with an int3
  in it, the exit status tells the truth, the tracer ends.
* *Writer.* Mappings change while they are listed in batches and read in chunks
  through one buffer. Correct: the file is well formed, each page holds its own
  content or zeros, no untouched mapping is missing, and the dump ends.
* *Loader.* The file has no length or trailer; order of register writes matters
  (loading `fs` resets its base); two fixed pages are borrowed. Correct: whole
  mappings only, the captured processor with its segments, no scaffolding left, and
  nothing that is already in the emulator changed.
* *Image base.* The executable is opened a second time, by name, after execve; two
  minima are subtracted in unsigned arithmetic of two widths. Correct: the
  breakpoint is where the kernel put the chosen instruction, or an error.
* *Log.* The initialisation is not locked. Correct: the level settles on the one
  asked for, an unknown name is reported, and no fatal error is silent.

`PROJECT.json` lists each hazard at its line with the properties about it.

## 2. The modules and the code

### Tracer

One action per system call whose effect another process can see or whose failure
the code tests; the statements up to the next call belong to it. `pc` names the
next call of `main`. Any `LOG_FATAL` is `Fatal`, which includes what the kernel
does to the tracee of a dead tracer (`Detached`).

| Code | Actions |
|---|---|
| `fork_child` | `Fork`, `ForkFails`, `WaitExec`, `WaitExecDead`, `WaitFails`; in the child `TraceMe`, `Execve`, `ExecveFails` |
| `get_image_base` | `GetImageBase`, `GetImageBaseFails` |
| `create_breakpoint` | `PeekText`, `PeekTextFails`, `ArmBreakpoint`, `PokeTextFails` |
| `execute_up_to_breakpoint` | `GetRegsBefore`, `SingleStep`, `WaitStep`, `WaitStepDead`, `WaitFails`, `RestoreAfterStep`, `Cont`, `WaitBreakpoint`, `WaitBreakpointDead`, `GetRegsAfter`, `SetRegs`, `RestoreOriginal` |
| `create_snapshot`, `dump_snapshot`, end of `main` | `CreateSnapshot`, `OpenDump`, `WriteDump`, `CloseDump`, `DumpFails`, `KillTarget`, `KillFails`, `ReapTarget` |
| each failed ptrace request | `PtraceFails` (the target is no longer stopped) |

The target is a program over byte addresses with a successor relation, so that an
int3 in the middle of an instruction, or an instruction pointer one byte off, has
its consequences (`ExecuteGarbage`: any address next, or a fault). `shadow` is
history: the bytes an undebugged target would have. The environment sends signals,
kills the target, kills the tracer.

Abstractions: bytes are told apart only by origin; the breakpoint address is a
member of `Hooks`, which stands for the sum that `ImageBase` computes;
registers other than the instruction pointer are in `CpuState`. A ptrace request
on a stopped target is assumed to succeed, except `PTRACE_PEEKTEXT` of a word that
is not mapped and the `PTRACE_POKETEXT` that arms a word which cannot be written;
restoring writes a word that was written before, so a fatal exit with an armed int3
and a live target is left out. `waitpid` fails (`WaitFails`) only for a target that
is dead and was reaped by the kernel, which takes an inherited `SIG_IGN` for
`SIGCHLD`. `Dec` is the decrement of the bits: on i386 `pip` points to a signed
`long`, and its step from the least value is undefined in C, but compiled to the
same instruction. If a fork outlives its parent before `PTRACE_TRACEME`, it runs
untraced, not traced by init.

### Snapshotter and TracerRefines

`Snapshotter` is the promise behind `Tracer`, in four variables and seven actions:
a target is launched, captured at most once while it lives, the file is touched
only afterwards, and status 0 needs a dead target and a file that is complete, or
untouched because nothing was captured. `TracerRefines` maps `pc` to the status
of the run and the target's ptrace state to absent, live or dead (a zombie is
dead); `saved` and `file` are taken as they are.

### ImageBase

The steps from `argv[1]` to the address given to `create_breakpoint`: `ParseOffset`
(`strtoull`, then the cut to a word), `ForkChild`, `OpenElf` (the file the path
names *now*), `ReadLink` (the name the open file has *now*), `IsPie`, the loops
`ReadHeader` and `ReadLine`, `EndOfMaps` (the subtraction in 64 bits), `SetHook`
(the sum in a word). `Replace` renames another file over the path, or unlinks it,
between any two of them; `TargetDies` empties the listing. The file that is executed
is not renamed back to the path once it was replaced. The two ELF classes
differ in the layout of their headers, which is left out, and in their word,
which is `WordMod`.

### MappingDump

Units are pages. A page's content is its address and a version. `FetchLines` is
stdio's `read` of several lines of `/proc/<pid>/maps`, which the kernel lists in
order of address as they are at that moment; `SkipMapping`, `StartMapping`,
`ReadChunk`, `WriteChunk` are the body of the loop in `dump_mappings_content`.
The other threads store, unmap and protect whole mappings, map fresh pages, and let a
mapping grow at either end, which is also how the kernel merges a fresh mapping with
its neighbour; a mapping that is split, or one of which a part is unmapped, is an
unmap followed by maps. A mapping can so grow back below what is already listed; that
it is then listed from there on only is the kernel's documented promise that mapped
addresses never go backwards, on which the order in `WellFormed` rests.
`buffer` survives from one mapping to the next as `local_buffer` does.
`FinishDump` flushes and closes; `AbortDump` is any failed write or the death of
the snapshotter, after which any prefix of what was written may be in the file. The module starts
when `fopen` has emptied the file; an `fopen` that fails leaves an older file alone and
is `DumpFails` of `Tracer`.

### Gdt, CpuState and Loader

`Gdt` has the macros of `gdt_utils.h`, with a word as the set of its bits, so that
`|` is union and a mask with its shifts is `Field`; the decoders at its end are the
processor's reading of a descriptor. `CpuState` has operators only: what `create_snapshot` captures of a thread's
segment registers and TLS, which states `dump_gdt` accepts, which table it builds.
`Loader` extends both modules: the writer runs, ends or aborts, and then the
loader runs on the resulting file. Each step of the loader is a group of Unicorn
calls between two points where the outcome can differ; `Die` may take any of them,
for a failed call or an error path that logs fatally. `UnmapQiling` is the whole loop
of the binding: nobody else uses that emulator yet, and an exception in it is raised
before the loader is called. The two architectures share
actions where their code is the same and have their own (`...32`, `...64`) where
it is not. A segment register has the hidden part that the processor decodes from
the table when the selector is loaded.

### Log

Threads in `log_init`, `log_set_level`, `log_log` and `LOG_FATAL`. The two static
variables are plain, so the stores of one function (`stores`) become visible in
either order; every read is a step. `log_set_level` is modelled as the API it is; nothing
under `src/` calls it. `exit` ends all threads wherever they are.

## 3. The runs

| Run | Asks | Expect |
|---|---|---|
| `tracer_stress` | all of `Tracer` with signals, kills, refused kills, stores, own int3s: `TypeOK`, `MemoryFaithful`, `ResumesAtHook`, `OrphanIsClean`, `SuccessIsAccounted`, `DamageIsConfined`, `BreakpointNotMissed`, the inductive invariant `IInv` of the proofs, and the refinement `KeepsPromise` of `Snapshotter` | pass |
| `tracer_quiet` | no signals, a breakpoint that is not the entry point: every snapshot is at the breakpoint (`SnapshotAtBreakpoint`, and the invariant `QuietInv` it is proved from) | pass |
| `tracer_live` | the snapshotter ends (`EventuallyEnds`) | pass |
| `dump` | `DumpTypeOK`, `NoForeignContent`, `NothingUnreadable`, `WellFormed`, `StableMappingsDumped`, `DumpEnds` and the inductive invariant `DumpInv`, with other threads at work and the target killed | pass |
| `bridge` | writer and loader composed: `LoaderTypeOK`, `EndToEnd`, `NoPartialMapping`, `NoScaffoldingLeft`, `CpuRestored`, `SegmentsRestored`, the action property `NothingOverwritten`, and the inductive invariant `LoaderInv` | pass |
| `image_base` | from the typed offset to the breakpoint while files are replaced: `ImageBaseTypeOK`, `HookIsRight`, `OtherFileRefused`, and the inductive invariant `ImageBaseInv` | pass |
| `log` | two threads, all interleavings and store orders: `LogTypeOK`, `LevelSettles`, `UnknownReported`, `FatalIsHeard`, and the inductive invariant `LogInv` | pass |
| `signal_as_breakpoint`, `step_onto_int3`, `stop_before_execve`, `loader_failure`, `image_base_layout` | statements of the README, of log messages and of the binding that the code does not keep | violation |

Bounds, and why they are enough:

* *Tracer.* Six byte addresses, instructions of one and two bytes, words of two
  bytes: the word at a hook can lie within one instruction, span two, and stick
  out of the image. Hooks include the entry point, the middle of an instruction,
  the program's own int3 and the last byte. Two signals (one may be spent before
  execve, one on the way) and two kills (target and tracer) exceed what any path
  to a stop can distinguish, as the tracer waits three times.
* *Dump.* Five pages, a buffer of two: mappings shorter than, equal to and
  longer than the buffer, with an odd last chunk. Batches of one or two lines put
  changes before, between and after the reads of the listing. Two changes allow
  unmap-then-map under an already listed entry, and a mapping that grows back into
  the place of one that was listed and then unmapped.
* *Bridge.* The file can be cut at every unit; an entry and the state are two
  units, so cuts fall inside them as well as between. One layout collides with
  the trampoline, host pages may collide with the snapshot, or not. Threads: the
  four kinds of selector set that the code distinguishes, with TLS segments of
  4 GiB and of an odd size above 64 Ki that is read-only, and one that uses an LDT.
* *Image base.* Words of 32 values, 64 for `uint64_t`, pages of four: sums,
  differences and numbers wrap in both widths. Files: PIE and not, with an aligned
  and an unaligned lowest segment, with one that has no file content, with a header
  that is not loaded, a script, another type, and no file. Two replacements are
  what it takes for both the executed and the opened file to be deleted.
* *Log.* Two threads of two calls each: one can initialise while the other logs,
  and either can set a level before or after. Names that are a level, an alias,
  unknown, empty, and absent. The threads are symmetric.
* None of these bounds is in the theorems of section 4, which hold for all values.
* `AddrMod` is the width of an instruction pointer: small, so that wrapping
  happens. `MaxSignals`, `MaxKills`, `MaxChanges`, `BatchSize` are the only bounds
  on behaviour.

Deadlock is checked in the `Tracer` runs except `tracer_stress`, where a refused
`kill` leaves the last `waitpid` waiting for ever; that is what the code does. The
other runs end when the file is written or the loader has returned.

Fairness (`FairSpec`): weak fairness of the tracer's next call and of the target's
next instruction, which the kernel's scheduler gives both; none for stores,
signals, kills or any particular branch. `tracer_live` uses a program without
loops, since the snapshotter rightly waits for as long as its target runs, and a
`kill` that is not refused. Its hooks leave out the entry point and the inside of an
instruction: a target that executes garbage after them may loop, whatever its program. `FairDumpSpec`: weak fairness of the writer, which is a
sequential program that waits for nobody; none for the other threads or for
failures.

## 4. What is proved

Each component has an inductive invariant, which its run checks and a theorem
states; the properties follow from it. A proof that a step keeps the invariant has
one lemma per part of it or per group of actions.

### The tracer (`TracerProofs`, `TracerRefines`)

For every image size, word size, program, set of hooks and number of signals and
kills:

| Theorem | States |
|---|---|
| `TypeCorrect` | `TypeOK` always |
| `Inductive` | the inductive invariant `IInv` |
| `DumpIsFaithful` | `MemoryFaithful`: dumped bytes are the target's own, but for bytes of the replaced word that it rewrote itself, which have their earlier value |
| `SnapshotResumes` | `ResumesAtHook`: without the warning, the saved pointer is the hook and the byte there the original one |
| `OrphansAreClean` | `OrphanIsClean` |
| `SuccessMeansDone` | `SuccessIsAccounted` |
| `BreakpointCatches` | the action property `BreakpointNotMissed` |
| `DamageConfined` | `DamageIsConfined`: wherever the snapshotter is killed, what it leaves in the target is at most the int3, or an undone store next to it |
| `QuietHolds`, `QuietSnapshot` | if the target is `Undisturbed`, `QuietInv` and so `SnapshotAtBreakpoint` |
| `TracerImplementsSnapshotter` | `KeepsPromise`: `Spec` implements `Snapshotter` |

The only assumption is `TracerAssumption`: the program lies in its image,
addresses are natural numbers with room above the image, and no hook equals the
placeholder pointer of the child before execve.

None of the properties is inductive. `MemoryFaithful` speaks of the dump, but its
reason is the value of `old_word` since `PTRACE_PEEKTEXT`. `IInv`
adds, by phase of `main`: what the target may be doing (`PhaseInv`: it moves only
inside a `waitpid`), which image holds the breakpoint and that its word is within
it (`ImageInv`), what the bytes inside and outside the word are from the moment it
was read (`MemoryInv`), when the int3 is in place (`ArmedInv`), how the hook
travels through `regs` and the target's registers into the snapshot (`RewindInv`),
and what is in the file (`FileInv`). `OrphanIsClean` follows because the target is
held or dead at every fatal exit between arming and restoring.

`SnapshotAtBreakpoint` is false in general (section 5). The hypothesis
`Undisturbed` says under which conditions the code does keep it: no signals, no int3
of the program's own, and a hook that is the start of an instruction other than the
one execve stops at. `tracer_quiet` is an instance of it. Each part is needed: a
signal or a foreign int3 is a stop elsewhere; an int3 inside an instruction damages
that instruction; and at the entry point the single step executes the int3. Kills
and stores, over the int3 too, are allowed. The argument is that the int3 at
the start of an instruction damages no other instruction (`QuietInstruction`), so
that whatever the target executes is its own, or the trap.

The refinement has one step per action under `IInv`: most are hidden; `Fork`
launches, `CreateSnapshot` captures (`PhaseInv` says that the target lives, or the
call fails), the three steps of the dump truncate and complete (`FileInv` says what
the file is before each), and the last step succeeds because a reaped target is
dead. A fatal exit or a kill of the tracer is `GiveUp`, with what the kernel does to
the target (`DetachedTarget`).

### The writer (`MappingDumpProofs`)

For every set of layouts, every buffer, batch, entry and state size and any number
of changes by other threads: `DumpInvariant` (`DumpInv`), `DumpTypeCorrect`
(`DumpTypeOK`), `ContentInPlace` (`NoForeignContent`), `UnreadableIsZero`
(`NothingUnreadable`), `FileWellFormed` (`WellFormed`) and `StableMappingsKept`
(`StableMappingsDumped`). `DumpAssumption` asks for positive sizes and for layouts
whose mappings are not empty and do not overlap, as the kernel's do not.

`DumpInv` says that the target's mappings stay disjoint and versions bounded
(`TargetInv`), that the buffered lines are in order and below the address listed so
far (`LinesInv`), that the records are in order, before every line that is left,
and all but the last complete (`RecordsInv`), where in the last one the writer is
(`EntryInv`), what the part of the buffer to be written next holds (`BufferInv`),
and that each mapping nobody touched is still to be listed, in a buffered line, or
in a record with its content (`StableInv`). The order is what makes the last part
inductive: a mapping that changes in front of the listing cannot push an untouched
one out of it.

### The loader (`GdtProofs`, `LoaderProofs`)

`GdtProofs` proves, for all bit patterns, that the processor decodes from the
descriptors what the loader's macros were given: `TlsDescriptorSurvives` for every
`user_desc` and `FlatDescriptorFields` for all flags, bases and limits. Both first
say which bits of the word are set (`RealDescBits`), then compare field by field.

`LoaderProofs` is about writer and loader together, for every layout, file cut,
host mapping and set of threads: `LoaderInvariant` (`LoaderInv`),
`LoaderTypeCorrect` (`LoaderTypeOK`), `WholeMappingsOnly` (`NoPartialMapping`),
`ScaffoldingRemoved` (`NoScaffoldingLeft`), `RestoredEndToEnd` (`EndToEnd`),
`ProcessorRestored` (`CpuRestored`), `SegmentsKept` (`SegmentsRestored`), and the action
property `NothingOverwritten` (`PagesLeftAlone`).

`LoaderInv` contains `DumpInv`, and adds what is in the file (`FileInv`), in which
mode the loader can be where (`PhaseInv`), that its offset is a sum of lengths of
records (`OffsetInv`), that the records loaded so far are in the emulator's pages and
who owns every other page (`MemoryInv`), and what was written to the registers and
the table (`CpuInv`). Two results of the other modules carry the rest: the records
are disjoint (`DumpInv`), so that loading one does not disturb another; and the
theorems of `GdtProofs`, through `LoadedDescriptor`, turn the table into the hidden
parts of the segment registers. That a cut file is never taken for whole rests on
`PrefixSums` and `OffsetFacts`: offsets grow with the records.

`LoaderAssumption`: the loader's two pages are different (they are constants of
the code). `ThreadsAssumption` says which threads there are, from the
kernel's side: TLS descriptors are the three entries of a native or a 64-bit kernel,
they are data segments (so `cs` is none of them), no program has a null stack
segment, and in 32-bit mode the hidden base of `fs` and `gs` is the one of the
descriptor. The last is needed: nothing in an i386 snapshot but the descriptor
tells the base.

### The image base (`ImageBaseProofs`)

For every word and page size, every set of executables, load addresses and typed
numbers, and any number of replacements of the file: `ImageBaseInvariant`
(`ImageBaseInv`), `ImageBaseTypeCorrect` (`ImageBaseTypeOK`), `HookRight`
(`HookIsRight`) and `OtherFilesRefused` (`OtherFileRefused`). `ImageBaseAssumption`
asks that 2^64 is a multiple of the word (32 or 64 bits), that load addresses are
page aligned, and that what the kernel maps lies below the last address.

`ImageBaseInv` says what has not been read yet (`UnreadInv`), that the target
executes a file no newer than the one opened afterwards (`TargetInv`), what the name
of the open file implies (`OpenedInv`), that `min_vaddr` is the minimum of the
headers read so far (`HeadersInv`), that `min_maps_addr` is the lowest line of the
file or all of them are still to come (`FoundInv`), and which sums were computed
(`SumsInv`). `HookRight` then is arithmetic: a subtraction modulo 2^64 that is cut
to a word and added to modulo 2^w gives the address (`ModAdd`, `ModMod`).

### The log (`LogProofs`)

For every number of threads, calls and names: `LogInvariant` (`LogInv`),
`LogTypeCorrect` (`LogTypeOK`), `LevelSettled` (`LevelSettles`), `UnknownIsReported`
(`UnknownReported`) and `FatalHeard` (`FatalIsHeard`). `LogInv` separates the time
before the first `log_set_level`, when all stores are of initialisations and agree
(`EnvInv`), from the time after, when an initialisation that is past its test counts
as a race until the level is set anew (`SetInv`); `ReportInv` and `HeardInv` follow
a thread through what it prints, and `ReporterInv` says that the thread which owes the
report of an unknown name has made it or is still on its way.

### Induction, and what is only model-checked

Where a recursive function over sequences or numbers had to be reasoned about (the
length of a list of records, the offsets in the file), the induction is by a least
counterexample: `NatSetInduction` states induction for a *set* of numbers, which
the provers can instantiate, and is itself proved from `WFMin`.

Only model-checked: `EventuallyEnds` and `DumpEnds`, since liveness is outside this
prover's reach, and the five statements the code does not keep (section 5).

## 5. What the checks found

* A signal that stops the target on its way is taken for the breakpoint: a
  warning, and then a snapshot one byte before wherever it was
  (`signal_as_breakpoint`). `ResumesAtHook` is the part that does hold.
* With the breakpoint where execve stops, the step "past it" executes the armed
  int3, and the target goes on in the middle of the instruction
  (`step_onto_int3`).
* A signal before execve makes `fork_child` return a child that is not yet the
  target (`stop_before_execve`).
* A failed load ends the interpreter; the error return the binding tests for is
  not reached (`loader_failure`). The loader's tests expect the exit
  (`loader/tests/test_dump_snapshot.c:224` and after), so it is the binding that
  promises too much.
* The lowest mapping starts at a page, the lowest `p_vaddr` need not: for such a
  file the virtual address in the image, which the README asks for, is not where
  the breakpoint ends up (`image_base_layout`). Linkers do not usually make one.

Limits the properties state openly: restoring `old_word` undoes what the target
wrote next to the hook; a killed (not failed) snapshotter leaves the int3 behind,
and no more (`DamageIsConfined`); a file cut between two records is accepted; a
target killed during the dump gives exit status 0 and a file in which what was not
listed is missing and what was not read is zeros (`StableMappingsDumped`).
`OtherFileRefused` is stated for PIE files that the path still named when they were
opened: the base of an `ET_EXEC` file is 0 whichever file it is, and two files that
were both deleted have names that compare equal. `LevelSettles` leaves out a
`log_set_level` that runs at the same time as an initialisation already past its
test, which overwrites the level. `UnknownReported` allows a report from each of two
threads that initialise at the same time, and none after a `log_set_level`. An offset
that does not fit a word is cut without a message; `HookIsRight` takes it modulo the
word.

## 6. Not modelled

The text and layout of log messages, and how lines of two threads mix; the syntax
of `argv` and of a maps line; the compile-time assertions of `arch.h`; a snapshot
loaded in the mode of the other architecture (nothing in the file tells, and what
follows is garbage read at a wrong offset); the engine `pb_create_from_snapshot`
leaks; the x87, SSE and AVX state, which the snapshot does not have (`CpuRestored` is
about the general and segment registers); a loader that reads a file while it is being written; other systems, which
the code does not support; tests and examples.

## 7. Plan

1. Done: `Tracer` with its abstract specification, `ImageBase`, `MappingDump`, `Gdt`,
   `CpuState`, `Loader`, `Log`, and proofs of every safety property that a passing run
   checks.
2. An abstract specification for writer and loader together (what a snapshot promises:
   an emulator with the mappings and the thread, or none), and the proof that `Loader`
   implements it.
3. An action property of the writer: what is in the file is not changed again.
