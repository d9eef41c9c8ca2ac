----------------------------- MODULE ImageBase ------------------------------
(***************************************************************************)
(* How the snapshotter turns the offset the user typed into the address of *)
(* the breakpoint (snapshotter/src/main.c, linux/process_info.c): it opens *)
(* the executable once more, reads its program headers, and looks for its  *)
(* mappings in the target, by name.                                        *)
(*                                                                         *)
(* Between the execve of the target and each of these steps somebody may   *)
(* rename another file over the executable (a rebuild, an upgrade), and    *)
(* the target may be killed.  Files are numbered in the order in which the *)
(* path named them; the kernel shows the name of one that the path no      *)
(* longer names with " (deleted)" after it.                                *)
(***************************************************************************)
EXTENDS Integers, Sequences

CONSTANTS
  WordMod,    \* 2^w: values of uintptr_t and size_t are 0..WordMod-1
  Mod64,      \* 2^64: values of uint64_t are 0..Mod64-1
  PageSize,
  Requests,   \* numbers the user may type as breakpoint_offset_hex
  Images,     \* contents a file at the path may have
  Biases,     \* load addresses the kernel may choose for an ET_DYN image
  OtherLines, \* where the target has mappings of other files
  MaxReplaced \* bound: how often the executable is replaced

SIZE_MAX == WordMod - 1

\* A file: nothing is there, no ELF file (a script, or cut short), or an ELF file
\* with its e_type and its program headers.  A segment with p_filesz = 0 is not
\* backed by the file.
Image == [kind : {"absent", "script", "elf"}, e_type : {"dyn", "exec", "other"},
          phdrs : Seq([load : BOOLEAN, p_vaddr : 0 .. (SIZE_MAX - 1), backed : BOOLEAN])]

Headers(c) == {c.phdrs[n] : n \in DOMAIN c.phdrs}
Loads(c) == {h \in Headers(c) : h.load}
PageStart(a) == a - (a % PageSize)

\* What the kernel executes; a script runs in its interpreter.
Executable(c) ==
  \/ c.kind = "script"
  \/ c.kind = "elf" /\ c.e_type # "other" /\ Loads(c) # {}

ASSUME ImageBaseAssumption ==
  /\ WordMod \in Nat \ {0} /\ Mod64 \in Nat \ {0} /\ Mod64 % WordMod = 0
  /\ PageSize \in Nat \ {0}
  /\ Requests \subseteq Int
  /\ Images \subseteq Image
  /\ Biases \subseteq 0 .. SIZE_MAX
  /\ \A b \in Biases, c \in Images : \A h \in Headers(c) :
       b % PageSize = 0 /\ b + h.p_vaddr < SIZE_MAX
  /\ OtherLines \subseteq 0 .. (SIZE_MAX - 1)
  /\ MaxReplaced \in Nat

VARIABLES
  pc,            \* where main() is
  request,       \* the number the user typed
  addr,          \* main's addr
  current,       \* the file that the path names
  content,       \* the contents of the files that the path has named
  target,        \* the target: its image, its load address, whether it is dead
  info,          \* elf_info_t: the open file, and its name when readlink was called
  i,             \* the next program header
  min_vaddr,
  at,            \* /proc/<pid>/maps was read up to this address
  min_maps_addr,
  image_base,
  hook           \* the address handed to create_breakpoint

userVars == <<request, addr>>
diskVars == <<current, content>>
elfVars  == <<info, i, min_vaddr>>
mapsVars == <<at, min_maps_addr>>
vars == <<pc, userVars, diskVars, target, elfVars, mapsVars, image_base, hook>>

NoFile == -1   \* the file of a target that has not called execve
Name(f) == IF f = current THEN "path" ELSE "deleted"
Opened == content[info.file]

Init ==
  /\ pc = "parse"
  /\ request \in Requests
  /\ addr = 0
  /\ current = 0
  /\ \E c \in Images : content = [f \in {0} |-> c]
  /\ target = [state |-> "none", file |-> NoFile, bias |-> 0]
  /\ info = [file |-> 0, path |-> "path"]
  /\ i = 1
  /\ min_vaddr = SIZE_MAX
  /\ at = 0
  /\ min_maps_addr = SIZE_MAX
  /\ image_base = 0
  /\ hook = 0

-----------------------------------------------------------------------------
(* main() and get_image_base()                                             *)

Goto(from, to) == pc = from /\ pc' = to

\* LOG_FATAL
Fatal ==
  /\ pc' = "exit1"
  /\ UNCHANGED <<userVars, diskVars, target, elfVars, mapsVars, image_base, hook>>

\* strtoull: a number that does not fit is refused, a negative one is negated in 64
\* bits.  The assignment to a uintptr_t keeps the lower bits.
ParseOffset ==
  /\ Goto("parse", "fork")
  /\ (-Mod64) < request /\ request < Mod64
  /\ addr' = (request % Mod64) % WordMod
  /\ UNCHANGED <<request, diskVars, target, elfVars, mapsVars, image_base, hook>>

\* Out of range, or not a hex number at all.
ParseFails == pc = "parse" /\ Fatal

\* fork_child: the target stops at execve, or before it because of a signal.
ForkChild ==
  /\ Goto("fork", "open")
  /\ \/ target' = [target EXCEPT !.state = "before_exec"]
     \/ /\ Executable(content[current])
        /\ \E b \in IF content[current].e_type = "dyn" THEN Biases ELSE {0} :
             target' = [state |-> "exec", file |-> current, bias |-> b]
  /\ UNCHANGED <<userVars, diskVars, elfVars, mapsVars, image_base, hook>>

\* open_elf up to the header: the file that the path names now.
OpenElf ==
  /\ Goto("open", "readlink")
  /\ content[current].kind = "elf"
  /\ info' = [info EXCEPT !.file = current]
  /\ UNCHANGED <<userVars, diskVars, target, i, min_vaddr, mapsVars, image_base, hook>>

\* readlink("/proc/self/fd/N"): the name the open file has now.
ReadLink ==
  /\ Goto("readlink", "type")
  /\ info' = [info EXCEPT !.path = Name(info.file)]
  /\ UNCHANGED <<userVars, diskVars, target, i, min_vaddr, mapsVars, image_base, hook>>

\* is_pie: the image base of an ET_EXEC file is 0.
IsPie ==
  /\ pc = "type"
  /\ Opened.e_type \in {"dyn", "exec"}
  /\ pc' = IF Opened.e_type = "dyn" THEN "headers" ELSE "close"
  /\ UNCHANGED <<userVars, diskVars, target, elfVars, mapsVars, image_base, hook>>

\* Mutant: the headers that are not loaded count too.
ReadAnyHeader ==
  /\ pc = "headers"
  /\ i <= Len(Opened.phdrs)
  /\ min_vaddr' = IF Opened.phdrs[i].p_vaddr < min_vaddr
                  THEN Opened.phdrs[i].p_vaddr ELSE min_vaddr
  /\ i' = i + 1
  /\ UNCHANGED <<pc, userVars, diskVars, target, info, mapsVars, image_base, hook>>

\* The loop of get_min_vaddr.
ReadHeader ==
  /\ pc = "headers"
  /\ i <= Len(Opened.phdrs)
  /\ min_vaddr' = IF Opened.phdrs[i].load /\ Opened.phdrs[i].p_vaddr < min_vaddr
                  THEN Opened.phdrs[i].p_vaddr ELSE min_vaddr
  /\ i' = i + 1
  /\ UNCHANGED <<pc, userVars, diskVars, target, info, mapsVars, image_base, hook>>

\* Its end: without a PT_LOAD segment there is only a warning.
OpenMaps ==
  /\ Goto("headers", "maps")
  /\ i > Len(Opened.phdrs)
  /\ UNCHANGED <<userVars, diskVars, target, elfVars, mapsVars, image_base, hook>>

\* The mappings of the executable in the target, and those of other files.
OwnLines ==
  IF target.state = "exec"
  THEN {target.bias + PageStart(h.p_vaddr) : h \in {g \in Loads(content[target.file]) : g.backed}}
  ELSE {}

Lines == IF target.state \in {"before_exec", "exec"}
         THEN OwnLines \cup OtherLines ELSE {}

\* Mutant: the name of the mapping is not compared.
ReadAnyLine ==
  /\ pc = "maps"
  /\ \E start \in Lines :
       /\ at <= start
       /\ \A s \in Lines : at <= s => start <= s
       /\ min_maps_addr' = IF min_maps_addr > start THEN start ELSE min_maps_addr
       /\ at' = start + 1
  /\ UNCHANGED <<pc, userVars, diskVars, target, elfVars, image_base, hook>>

\* The loop over /proc/<pid>/maps: strcmp of the two names.
ReadLine ==
  /\ pc = "maps"
  /\ \E start \in Lines :
       /\ at <= start
       /\ \A s \in Lines : at <= s => start <= s
       /\ min_maps_addr' =
            IF start \in OwnLines /\ Name(target.file) = info.path /\ min_maps_addr > start
            THEN start ELSE min_maps_addr
       /\ at' = start + 1
  /\ UNCHANGED <<pc, userVars, diskVars, target, elfVars, image_base, hook>>

EndOfMaps ==
  /\ Goto("maps", "close")
  /\ \A s \in Lines : s < at
  /\ min_maps_addr # SIZE_MAX
  /\ image_base' = (min_maps_addr - min_vaddr) % Mod64
  /\ UNCHANGED <<userVars, diskVars, target, elfVars, mapsVars, hook>>

\* A file or the maps cannot be opened or read, a file is no ELF file or of
\* another type, or no mapping of it was found.
GetImageBaseFails ==
  /\ pc \in {"fork", "open", "readlink", "type", "headers", "maps", "close"}
  /\ Fatal

\* Mutant: the sum is kept in 64 bits.
SetHookWide ==
  /\ Goto("close", "done")
  /\ hook' = image_base + addr
  /\ UNCHANGED <<userVars, diskVars, target, elfVars, mapsVars, image_base>>

\* fclose; main() adds the offset to the base, as a uintptr_t.
SetHook ==
  /\ Goto("close", "done")
  /\ hook' = ((image_base % WordMod) + addr) % WordMod
  /\ UNCHANGED <<userVars, diskVars, target, elfVars, mapsVars, image_base>>

Tracer ==
  \/ ParseOffset \/ ParseFails \/ ForkChild \/ OpenElf \/ ReadLink \/ IsPie
  \/ ReadHeader \/ OpenMaps \/ ReadLine \/ EndOfMaps \/ SetHook
  \/ GetImageBaseFails

-----------------------------------------------------------------------------
(* The environment                                                         *)

Ended == pc \in {"done", "exit1"}

\* rename(2) of another file over the executable, or unlink(2).
Replace ==
  /\ ~Ended
  /\ current < MaxReplaced
  /\ current' = current + 1
  /\ \E c \in Images : content' = [f \in 0 .. (current + 1) |->
                                     IF f = current + 1 THEN c ELSE content[f]]
  /\ UNCHANGED <<pc, userVars, target, elfVars, mapsVars, image_base, hook>>

TargetDies ==
  /\ ~Ended
  /\ target.state \in {"before_exec", "exec"}
  /\ target' = [target EXCEPT !.state = "dead"]
  /\ UNCHANGED <<pc, userVars, diskVars, elfVars, mapsVars, image_base, hook>>

Next == Tracer \/ Replace \/ TargetDies

Spec == Init /\ [][Next]_vars

-----------------------------------------------------------------------------
(* Properties                                                              *)

\* Every variable has its type.
ImageBaseTypeOK ==
  /\ pc \in {"parse", "fork", "open", "readlink", "type", "headers", "maps", "close",
             "done", "exit1"}
  /\ request \in Requests
  /\ addr \in 0 .. SIZE_MAX
  /\ current \in 0 .. MaxReplaced
  /\ content \in [0 .. current -> Images]
  /\ target \in [state : {"none", "before_exec", "exec", "dead"},
                 file : {NoFile} \cup 0 .. current,
                 bias : Biases \cup {0}]
  /\ info \in [file : 0 .. current, path : {"path", "deleted"}]
  /\ i \in 1 .. (Len(Opened.phdrs) + 1)
  /\ min_vaddr \in 0 .. SIZE_MAX
  /\ at \in 0 .. WordMod
  /\ min_maps_addr \in 0 .. SIZE_MAX
  /\ image_base \in 0 .. (Mod64 - 1)
  /\ hook \in 0 .. SIZE_MAX

\* The lowest segment is backed by the file and starts at a page boundary.
Conventional(c) ==
  \A h \in Loads(c) :
    (\A g \in Loads(c) : h.p_vaddr <= g.p_vaddr) => h.backed /\ h.p_vaddr % PageSize = 0

\* The breakpoint is where the kernel put the instruction the user chose: at the
\* load address plus the offset, in the target's word, if the file that was opened is
\* the one that was executed and is linked in the usual way; whenever the target dies
\* and the file is renamed or deleted meanwhile (process_info.c:155-182).
HookIsRight ==
  (pc = "done" /\ info.file = target.file /\ Conventional(Opened))
    => hook = (target.bias + request) % WordMod

\* A PIE file that was not executed is refused: another one that took its place
\* between execve and fopen, or one that the target has not executed yet.  The names
\* tell them apart, unless both were deleted by the time of readlink.
OtherFileRefused ==
  (pc = "done" /\ Opened.e_type = "dyn" /\ info.path = "path")
    => info.file = target.file

\* The virtual address of an instruction in the ELF image is all the user needs
\* (README.md:153: "For PIE executables, use the virtual address of the desired
\* instruction in the ELF image").
VirtualAddressIsEnough ==
  (pc = "done" /\ info.file = target.file) =>
    hook = (target.bias + request) % WordMod

=============================================================================
