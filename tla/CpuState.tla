------------------------------ MODULE CpuState ------------------------------
(***************************************************************************)
(* The processor state in a snapshot: how create_snapshot captures it      *)
(* (<arch>/snapshot.c) and how dump_cpu_state puts it into an emulator     *)
(* (loader/src/<arch>/cpu_state_dump.c, gdt_utils.h).                      *)
(*                                                                         *)
(* A selector is the index of a descriptor and the bit that selects the    *)
(* LDT.  A segment register has a hidden part (base, limit, attributes),   *)
(* which the processor takes from the descriptor at the time the selector  *)
(* is loaded.                                                              *)
(***************************************************************************)
EXTENDS Gdt, Sequences

CONSTANT Threads   \* threads of the target as they can be at the breakpoint

SegRegs == {"cs", "ss", "ds", "es", "fs", "gs"}

\* What the general registers, the stack pointer and so on hold is told apart
\* only by where it comes from.
Words == {"thread", "reset", "trampoline"}

GDT_ENTRY_TLS_ENTRIES == 3
GDT_ENTRY_TLS_MIN_TRUE_I386 == 6
GDT_ENTRY_TLS_MIN_COMP_MODE == 12

\* A thread: its registers, the hidden bases of fs and gs, and the TLS descriptors the
\* kernel keeps for it, by the number of their GDT entry.  A 32-bit kernel has them
\* elsewhere than a 64-bit one; both take data segments only, and the processor lets no
\* program have a null stack segment.  In 32-bit mode a hidden base is that of the
\* descriptor: of a TLS descriptor, or 0, as all others are that the kernel makes.
ASSUME ThreadsAssumption ==
  \A t \in Threads :
    /\ t.arch \in {"i386", "x86_64"}
    /\ t.sel \in [SegRegs -> [index : Nat, ldt : BOOLEAN]]
    /\ t.base \in [{"fs", "gs"} -> SUBSET (0 .. 63)]
    /\ \A e \in DOMAIN t.areas : t.areas[e] \in UserDesc
    /\ \E first \in {GDT_ENTRY_TLS_MIN_TRUE_I386, GDT_ENTRY_TLS_MIN_COMP_MODE} :
         LET entries == first .. (first + GDT_ENTRY_TLS_ENTRIES - 1)
         IN  IF t.arch = "i386" THEN DOMAIN t.areas = entries
             ELSE first = GDT_ENTRY_TLS_MIN_COMP_MODE /\ DOMAIN t.areas \subseteq entries
    /\ t.sel["cs"].index \notin DOMAIN t.areas
    /\ t.sel["ss"].index # 0
    /\ t.arch = "i386" => \A r \in {"fs", "gs"} :
         LET e == t.sel[r].index
         IN  ~t.sel[r].ldt =>
               t.base[r] = IF e \in DOMAIN t.areas THEN t.areas[e].base_addr ELSE {}

\* PTRACE_GET_THREAD_AREA tells a native i386 kernel from a 64-bit one by failing
\* for the first entry of the former.
CaptureTls(areas) ==
  LET first == IF GDT_ENTRY_TLS_MIN_TRUE_I386 \in DOMAIN areas
               THEN GDT_ENTRY_TLS_MIN_TRUE_I386
               ELSE GDT_ENTRY_TLS_MIN_COMP_MODE
  IN  [j \in 1 .. GDT_ENTRY_TLS_ENTRIES |->
         [entry_number |-> first + j - 1, desc |-> areas[first + j - 1]]]

\* process_state_t: PTRACE_GETREGS has the bases on x86_64; on i386 they are in
\* the TLS descriptors.
Capture(t) ==
  [arch |-> t.arch, sel |-> t.sel,
   base |-> IF t.arch = "x86_64" THEN t.base ELSE [r \in {"fs", "gs"} |-> {}],
   tls  |-> IF t.arch = "i386" THEN CaptureTls(t.areas) ELSE <<>>]

-----------------------------------------------------------------------------
(* The descriptor table that the loader builds                             *)

\* dump_gdt refuses selectors of the LDT,
NoLdt(s) == \A r \in SegRegs : ~s.sel[r].ldt

\* on i386 a code segment that is not a Linux kernel's, 64-bit or native,
Supported32(s) == NoLdt(s) /\ s.sel["cs"].index \in {4, 14}

\* and on x86_64 code and data segments other than the default ones.
Supported64(s) ==
  /\ NoLdt(s)
  /\ s.sel["cs"].index = 6
  /\ s.sel["ss"].index = 5
  /\ \A r \in {"ds", "es"} : s.sel[r].index \in {0, 5}

Supported(s) == IF s.arch = "i386" THEN Supported32(s) ELSE Supported64(s)

Limit4G == 0 .. 19   \* 0xfffff

CodeDesc(s) ==
  GDT_ENTRY_INIT((IF s.arch = "i386" THEN DESC_CODE32 ELSE DESC_CODE64) \cup DESC_USER,
                 {}, Limit4G)

\* On i386 it depends on the kernel, which the code segment tells.
DataDesc(s) ==
  GDT_ENTRY_INIT((IF s.sel["cs"].index = 14 THEN DESC_DATA32 ELSE DESC_DATA64) \cup DESC_USER,
                 {}, Limit4G)

\* The table: what is written last counts, and the other entries are zero.
Gdt(s) ==
  LET tls == {s.tls[j].entry_number : j \in DOMAIN s.tls}
      Desc(e) == s.tls[CHOOSE j \in DOMAIN s.tls : s.tls[j].entry_number = e].desc
  IN  [e \in {s.sel["cs"].index, s.sel["ss"].index} \cup tls |->
         IF e \in tls THEN USER_DESC_TO_REAL_DESC(Desc(e))
         ELSE IF e = s.sel["ss"].index THEN DataDesc(s) ELSE CodeDesc(s)]

Descriptor(gdt, sel) == IF sel.index \in DOMAIN gdt THEN gdt[sel.index] ELSE {}

\* A selector can be loaded when it is null or its descriptor is present.
Loadable(gdt, sel) ==
  sel.index = 0 \/ (Present(Descriptor(gdt, sel)) /\ Ring3(Descriptor(gdt, sel)))

\* The hidden part that it brings along.
Hidden(gdt, sel) == Segment(IF sel.index = 0 THEN {} ELSE Descriptor(gdt, sel))

=============================================================================
