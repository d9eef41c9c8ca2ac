------------------------------- MODULE Loader -------------------------------
(***************************************************************************)
(* The loader (loader/src/loader.c, dump.c, cpu_state_dump.c and the two   *)
(* <arch>/cpu_state_dump.c) and its Python callers, run on the file that   *)
(* the writer of MappingDump left: a complete one, or the beginning of one.*)
(*                                                                         *)
(* The emulator is Unicorn, as far as the loader uses it: pages that can   *)
(* be mapped once, registers, and segment registers whose hidden part      *)
(* comes from the descriptor table.  Any of its calls may fail.            *)
(***************************************************************************)
EXTENDS MappingDump, CpuState

CONSTANTS
  PB_GDT_PAGE,        \* the page at PB_GDT_ADDR
  PB_TRAMPOLINE_PAGE, \* the page at PB_TRAMPOLINE_ADDR
  HostPages           \* pages that the caller may have mapped in the emulator

EPage == Page \cup {PB_GDT_PAGE, PB_TRAMPOLINE_PAGE} \cup HostPages

ASSUME LoaderAssumption ==
  /\ PB_GDT_PAGE \in Nat /\ PB_TRAMPOLINE_PAGE \in Nat /\ HostPages \subseteq Nat
  /\ PB_GDT_PAGE # PB_TRAMPOLINE_PAGE

VARIABLES
  thread,  \* the thread that hit the breakpoint
  api,     \* the function the user called
  mode,    \* the uc_mode of the emulator
  lpc,     \* where the loader is
  result,  \* none yet, the entry point, -1, or the end of the host process
  off,     \* offset in the file
  loaded,  \* mappings_loaded
  emem,    \* the emulator's pages
  ereg,    \* its registers, by where their value comes from
  eseg,    \* its segment registers: selector and hidden part
  gdtr     \* the table GDTR points to

loaderVars == <<thread, api, mode, lpc, result, off, loaded, emem, ereg, eseg, gdtr>>
vars == <<dumpVars, loaderVars>>

Free == [owner |-> "free", prot |-> {}, data |-> Zero]
Mapped(o, t) == [owner |-> o, prot |-> t, data |-> Zero]   \* by uc_mem_map
Host == [owner |-> "host", prot |-> {"r", "w"}, data |-> Zero]

NullSeg == [index |-> 0, ldt |-> FALSE, hidden |-> Segment({})]

\* What create_snapshot put at the beginning of the file.
state == Capture(thread)

LoaderInit ==
  /\ thread \in Threads
  /\ api \in {"restore", "create", "qiling"}
  /\ mode \in {thread.arch, "arm"}
  /\ mode = "arm" => api # "qiling"
  /\ lpc = "start"
  /\ result = "none"
  /\ off = 0
  /\ loaded = 0
  /\ \E H \in SUBSET HostPages :
       /\ api = "create" => H = {}
       /\ emem = [p \in EPage |-> IF p \in H THEN Host ELSE Free]
  /\ ereg = [r \in {"gp", "sp", "ip", "flags"} |-> "reset"]
  /\ eseg = [r \in SegRegs |-> NullSeg]
  /\ gdtr = <<>>

Init == DumpInit /\ LoaderInit

-----------------------------------------------------------------------------
LGoto(from, to) == lpc = from /\ lpc' = to

Return(r) == lpc' = "returned" /\ result' = r

\* LOG_FATAL in the library: exit() ends the process that called it.
Die ==
  /\ lpc \notin {"start", "returned"}
  /\ Return("died")
  /\ UNCHANGED <<thread, api, mode, off, loaded, emem, ereg, eseg, gdtr>>

\* pb_create_from_snapshot: an unsupported mode is the one failure it reports.
CreateUnsupported ==
  /\ lpc = "start"
  /\ api = "create"
  /\ mode \notin {"i386", "x86_64"}
  /\ Return("fail")
  /\ UNCHANGED <<thread, api, mode, off, loaded, emem, ereg, eseg, gdtr>>

\* pb_create_from_snapshot opens an engine (and another one, which replaces it);
\* pb_restore_snapshot takes the caller's as it is.
StartRestore ==
  /\ LGoto("start", "open")
  /\ api = "restore" \/ (api = "create" /\ mode \in {"i386", "x86_64"})
  /\ UNCHANGED <<thread, api, mode, result, off, loaded, emem, ereg, eseg, gdtr>>

\* make_qiling_from_snapshot unmaps all that Qiling mapped.  Nobody else uses the emulator
\* yet, so the loop is one step; if an unmap raises, the loader is not called at all.
UnmapQiling ==
  /\ LGoto("start", "open")
  /\ api = "qiling"
  /\ emem' = [p \in EPage |-> Free]
  /\ UNCHANGED <<thread, api, mode, result, off, loaded, ereg, eseg, gdtr>>

-----------------------------------------------------------------------------
(* dump_snapshot: state, entries and content                               *)

\* The mode of the emulator says which state is read; in another mode only
\* LOG_FATAL is left.
ReadState ==
  /\ LGoto("open", "record")
  /\ mode \in {"i386", "x86_64"}
  /\ disk # 0
  /\ StateSize <= disk
  /\ off' = StateSize
  /\ UNCHANGED <<thread, api, mode, result, loaded, emem, ereg, eseg, gdtr>>

Rec == recs[loaded + 1]

\* Mutant: the content is not checked against what remains in the file.
ReadEntryUnchecked ==
  /\ LGoto("record", "map")
  /\ off < disk
  /\ EntrySize <= disk - off
  /\ off' = off + EntrySize
  /\ UNCHANGED <<thread, api, mode, result, loaded, emem, ereg, eseg, gdtr>>

\* The entry, and the test that its content is in the file too.
ReadEntry ==
  /\ LGoto("record", "map")
  /\ off < disk
  /\ EntrySize <= disk - off
  /\ Size(Rec.map) <= disk - (off + EntrySize)
  /\ off' = off + EntrySize
  /\ UNCHANGED <<thread, api, mode, result, loaded, emem, ereg, eseg, gdtr>>

\* Unicorn refuses to map a page twice.
MapMapping ==
  /\ LGoto("map", "content")
  /\ \A p \in Pages(Rec.map) : emem[p] = Free
  /\ emem' = [p \in EPage |-> IF p \in Pages(Rec.map)
                              THEN Mapped("snapshot", {"w"})
                              ELSE emem[p]]
  /\ UNCHANGED <<thread, api, mode, result, off, loaded, ereg, eseg, gdtr>>

WriteMapping ==
  /\ LGoto("content", "protect")
  /\ emem' = [p \in EPage |->
                IF p \in Pages(Rec.map) /\ p - Rec.map.start + 1 \in DOMAIN Rec.data
                THEN [emem[p] EXCEPT !.data = Rec.data[p - Rec.map.start + 1]]
                ELSE emem[p]]
  /\ UNCHANGED <<thread, api, mode, result, off, loaded, ereg, eseg, gdtr>>

\* Mutant: the pages stay write-only.
KeepWriteOnly ==
  /\ LGoto("protect", "record")
  /\ off' = off + Size(Rec.map)
  /\ loaded' = loaded + 1
  /\ UNCHANGED <<thread, api, mode, result, emem, ereg, eseg, gdtr>>

\* Mutant: the protection is set for one page more than the mapping has.
ProtectOneMore ==
  /\ LGoto("protect", "record")
  /\ emem' = [p \in EPage |-> IF p \in Rec.map.start .. Rec.map.end
                              THEN [emem[p] EXCEPT !.prot = Rec.map.prot]
                              ELSE emem[p]]
  /\ off' = off + Size(Rec.map)
  /\ loaded' = loaded + 1
  /\ UNCHANGED <<thread, api, mode, result, ereg, eseg, gdtr>>

ProtectMapping ==
  /\ LGoto("protect", "record")
  /\ emem' = [p \in EPage |-> IF p \in Pages(Rec.map)
                              THEN [emem[p] EXCEPT !.prot = Rec.map.prot]
                              ELSE emem[p]]
  /\ off' = off + Size(Rec.map)
  /\ loaded' = loaded + 1
  /\ UNCHANGED <<thread, api, mode, result, ereg, eseg, gdtr>>

-----------------------------------------------------------------------------
(* dump_cpu_state                                                          *)

\* The file is used up; dump_gdt maps the table first.
MapGdt ==
  /\ LGoto("record", "gdt")
  /\ ~(off < disk)
  /\ emem[PB_GDT_PAGE] = Free
  /\ emem' = [emem EXCEPT ![PB_GDT_PAGE] = Mapped("gdt", {"r", "w"})]
  /\ UNCHANGED <<thread, api, mode, result, off, loaded, ereg, eseg, gdtr>>

\* The table is built from a supported state, written, protected and put in use.
WriteGdt ==
  /\ LGoto("gdt", "general")
  /\ Supported(state)
  /\ gdtr' = Gdt(state)
  /\ emem' = [emem EXCEPT ![PB_GDT_PAGE].prot = {"r"}]
  /\ UNCHANGED <<thread, api, mode, result, off, loaded, ereg, eseg>>

\* i386: the general registers; the others are left to the trampoline.
WriteGeneral32 ==
  /\ LGoto("general", "trampoline")
  /\ mode = "i386"
  /\ ereg' = [ereg EXCEPT !["gp"] = "thread"]
  /\ UNCHANGED <<thread, api, mode, result, off, loaded, emem, eseg, gdtr>>

\* x86_64: all general registers, rip and eflags.
WriteGeneral64 ==
  /\ LGoto("general", "code")
  /\ mode = "x86_64"
  /\ ereg' = [r \in DOMAIN ereg |-> "thread"]
  /\ UNCHANGED <<thread, api, mode, result, off, loaded, emem, eseg, gdtr>>

\* enter_ring3 maps a page with an iret and its frame, on which it puts the stack.
MapTrampoline ==
  /\ LGoto("trampoline", "iret")
  /\ emem[PB_TRAMPOLINE_PAGE] = Free
  /\ emem' = [emem EXCEPT ![PB_TRAMPOLINE_PAGE] = Mapped("trampoline", {"r", "w", "x"})]
  /\ ereg' = [ereg EXCEPT !["sp"] = "trampoline"]
  /\ UNCHANGED <<thread, api, mode, result, off, loaded, eseg, gdtr>>

Seg(r) == [index |-> state.sel[r].index, ldt |-> state.sel[r].ldt,
           hidden |-> Hidden(gdtr, state.sel[r])]

CanLoad(rs) == \A r \in rs : Loadable(gdtr, state.sel[r])

LoadSegs(rs) == eseg' = [r \in SegRegs |-> IF r \in rs THEN Seg(r) ELSE eseg[r]]

\* One instruction: iret takes the rest from the frame.
Iret ==
  /\ LGoto("iret", "unmap")
  /\ CanLoad({"cs", "ss"})
  /\ LoadSegs({"cs", "ss"})
  /\ ereg' = [ereg EXCEPT !["ip"] = "thread", !["flags"] = "thread", !["sp"] = "thread"]
  /\ UNCHANGED <<thread, api, mode, result, off, loaded, emem, gdtr>>

\* Mutant: the trampoline stays mapped.
KeepTrampoline ==
  /\ LGoto("unmap", "data")
  /\ UNCHANGED <<thread, api, mode, result, off, loaded, emem, ereg, eseg, gdtr>>

UnmapTrampoline ==
  /\ LGoto("unmap", "data")
  /\ emem' = [emem EXCEPT ![PB_TRAMPOLINE_PAGE] = Free]
  /\ UNCHANGED <<thread, api, mode, result, off, loaded, ereg, eseg, gdtr>>

\* x86_64: cs and ss are written like the others.
WriteCodeStack ==
  /\ LGoto("code", "data")
  /\ CanLoad({"cs", "ss"})
  /\ LoadSegs({"cs", "ss"})
  /\ UNCHANGED <<thread, api, mode, result, off, loaded, emem, ereg, gdtr>>

DataSegs == {"ds", "es", "fs", "gs"}

WriteData32 ==
  /\ LGoto("data", "read_ip")
  /\ mode = "i386"
  /\ CanLoad(DataSegs)
  /\ LoadSegs(DataSegs)
  /\ UNCHANGED <<thread, api, mode, result, off, loaded, emem, ereg, gdtr>>

\* Mutant: the selectors are written after the bases, which they overwrite.
BasesFirst ==
  /\ LGoto("data", "read_ip")
  /\ mode = "x86_64"
  /\ CanLoad(DataSegs)
  /\ LoadSegs(DataSegs)
  /\ UNCHANGED <<thread, api, mode, result, off, loaded, emem, ereg, gdtr>>

WriteData64 ==
  /\ LGoto("data", "bases")
  /\ mode = "x86_64"
  /\ CanLoad(DataSegs)
  /\ LoadSegs(DataSegs)
  /\ UNCHANGED <<thread, api, mode, result, off, loaded, emem, ereg, gdtr>>

\* x86_64: the bases replace what loading the selectors put there.
WriteBases ==
  /\ LGoto("bases", "read_ip")
  /\ eseg' = [r \in SegRegs |-> IF r \in {"fs", "gs"}
                                THEN [eseg[r] EXCEPT !.hidden.base = state.base[r]]
                                ELSE eseg[r]]
  /\ UNCHANGED <<thread, api, mode, result, off, loaded, emem, ereg, gdtr>>

ReadEntryPoint ==
  /\ lpc = "read_ip"
  /\ Return("entry")
  /\ UNCHANGED <<thread, api, mode, off, loaded, emem, ereg, eseg, gdtr>>

LoaderStep ==
  \/ Die \/ CreateUnsupported \/ StartRestore \/ UnmapQiling
  \/ ReadState \/ ReadEntry \/ MapMapping \/ WriteMapping \/ ProtectMapping
  \/ MapGdt \/ WriteGdt \/ WriteGeneral32 \/ WriteGeneral64
  \/ MapTrampoline \/ Iret \/ UnmapTrampoline \/ WriteCodeStack
  \/ WriteData32 \/ WriteData64 \/ WriteBases \/ ReadEntryPoint

\* The loader is run on a file that is no longer being written.
Next ==
  \/ DumpNext /\ UNCHANGED loaderVars
  \/ ~Dumping /\ LoaderStep /\ UNCHANGED dumpVars

Spec == Init /\ [][Next]_vars

-----------------------------------------------------------------------------
(* Properties                                                              *)

\* Every variable has its type.
LoaderTypeOK ==
  /\ thread \in Threads
  /\ api \in {"restore", "create", "qiling"}
  /\ mode \in {"i386", "x86_64", "arm"}
  /\ result \in {"none", "entry", "fail", "died"}
  /\ result # "none" <=> lpc = "returned"
  /\ off \in 0 .. disk
  /\ loaded \in 0 .. Len(recs)
  /\ \A p \in EPage : /\ emem[p].owner \in {"free", "host", "snapshot", "gdt", "trampoline"}
                      /\ emem[p].prot \subseteq {"r", "w", "x"}
                      /\ emem[p].data \in Cell
  /\ ereg \in [{"gp", "sp", "ip", "flags"} -> Words]
  /\ DOMAIN eseg = SegRegs

\* The emulator gets what the target had: a page of a mapping that stayed as it
\* was during a dump that finished has its content and its permissions.
EndToEnd ==
  (result = "entry" /\ wpc = "done" /\ alive) =>
    \A v \in vmas :
      (v.kind = "plain" /\ CanRead(v) /\ Pages(v) \cap touched = {}) =>
        \A p \in Pages(v) :
          emem[p] = [owner |-> "snapshot", prot |-> v.prot, data |-> Content(p)]

\* The file has no length, count or trailer, so a file cut between two records is
\* accepted; but wherever it was cut, no mapping is ever restored in part, and no
\* content ends up in a page it does not belong to.
NoPartialMapping ==
  result = "entry" =>
    /\ disk = StateSize + RecordsLength(SubSeq(recs, 1, loaded))
    /\ \A i \in 1 .. loaded : Len(recs[i].data) = Size(recs[i].map)
    /\ \A p \in EPage : emem[p].owner = "snapshot" =>
         emem[p].data \in {Zero} \cup [page : {p}, ver : 0 .. MaxChanges]

\* Nothing of the loader's own scaffolding is left in the way: apart from the
\* snapshot and the descriptor table, which is read-only, the emulator has only
\* what its owner had mapped, and what Qiling had mapped is gone.
NoScaffoldingLeft ==
  result = "entry" =>
    \A p \in EPage :
      CASE p = PB_GDT_PAGE -> emem[p].owner = "gdt" /\ emem[p].prot = {"r"}
        [] p # PB_GDT_PAGE -> \/ emem[p].owner \in {"snapshot", "free"}
                              \/ emem[p].owner = "host" /\ api = "restore"

\* The loader changes no page that the owner of the emulator had mapped before it called
\* the loader, nor one of a mapping that is already restored, although mappings, table and
\* trampoline go to fixed addresses (dump.c, cpu_state_dump.c) and a failure can come
\* between any two of its calls.
NothingOverwritten ==
  [][\A p \in EPage :
       (/\ lpc # "start"
        /\ emem[p].owner = "host" \/ \E i \in 1 .. loaded : p \in Pages(recs[i].map))
         => emem'[p] = emem[p]]_vars

\* The general and segment registers are those of the thread that was captured, the
\* hidden bases of fs and gs included, which the program uses to find its thread-local
\* storage and which loading a selector overwrites.  (The snapshot has no x87, SSE or AVX
\* state: the emulator keeps its own.)
CpuRestored ==
  result = "entry" =>
    /\ \A r \in DOMAIN ereg : ereg[r] = "thread"
    /\ \A r \in SegRegs : eseg[r].index = thread.sel[r].index /\ ~eseg[r].ldt
    /\ \A r \in {"fs", "gs"} : eseg[r].hidden.base = thread.base[r]

\* It does so in the mode of the thread, and with its segments: 32-bit or 64-bit code,
\* a flat code and stack segment of 4 GiB, and for each selector of a TLS descriptor the
\* limit, size and permissions the kernel reported, although the descriptors were taken
\* apart by the kernel and put together again by gdt_utils.h.
SegmentsRestored ==
  result = "entry" =>
    /\ eseg["cs"].hidden.long <=> thread.arch = "x86_64"
    /\ eseg["cs"].hidden.big <=> thread.arch = "i386"
    /\ \A r \in {"cs", "ss"} : thread.sel[r].index \notin DOMAIN thread.areas =>
         /\ eseg[r].hidden.base = {}
         /\ eseg[r].hidden.limit = Limit4G /\ eseg[r].hidden.pages
    /\ \A r \in SegRegs : thread.sel[r].index \in DOMAIN thread.areas =>
         LET u == thread.areas[thread.sel[r].index]
             h == eseg[r].hidden
         IN  /\ h.limit = u.limit
             /\ h.big <=> u.seg_32bit = {0}
             /\ h.pages <=> u.limit_in_pages = {0}
             /\ 1 \in h.type <=> u.read_exec_only = {}

\* A failure is reported to the caller, which can handle it
\* (python/process_bridge/_native.py:21: "if entry == PB_FAIL: raise RuntimeError").
FailureIsReported == result # "died"

=============================================================================
