----------------------------- MODULE LoaderProofs ---------------------------
(***************************************************************************)
(* Proofs about Loader, for every target, thread and emulator, and for     *)
(* every place at which the file may be cut.                               *)
(***************************************************************************)
EXTENDS Loader, MappingDumpProofs, GdtProofs

\* Where the first n records end in the file.
Offset(n) == StateSize + RecordsLength(SubSeq(recs, 1, n))

\* The file: at most what was written, all of it when the dump finished.  No record has
\* more content than its mapping.
FileInv ==
  /\ ~Dumping => disk <= Offset(Len(recs))
  /\ wpc = "done" => disk = Offset(Len(recs))
  /\ \A i \in DOMAIN recs : Len(recs[i].data) <= Size(recs[i].map)

\* Where the loader is.  It has returned the entry point only in the mode of the thread.
MemPhase == lpc \in {"record", "map", "content", "protect"}
GdtPhase == lpc \in {"general", "trampoline", "iret", "unmap", "code", "data", "bases",
                     "read_ip"} \/ result = "entry"
CpuPhase == lpc = "gdt" \/ GdtPhase

Location == [owner : {"free", "host", "snapshot", "gdt", "trampoline"},
             prot : SUBSET {"r", "w", "x"}, data : Cell]

PhaseInv ==
  /\ lpc \in {"start", "open", "record", "map", "content", "protect", "gdt", "general",
              "trampoline", "iret", "unmap", "code", "data", "bases", "read_ip", "returned"}
  /\ emem \in [EPage -> Location]
  /\ mode \in {thread.arch, "arm"}
  /\ Dumping => lpc = "start"
  /\ lpc \in {"start", "open"} => off = 0 /\ loaded = 0
  /\ MemPhase \/ CpuPhase => mode = thread.arch
  /\ lpc \in {"trampoline", "iret", "unmap"} => mode = "i386"
  /\ lpc \in {"code", "bases"} => mode = "x86_64"

\* How far the file was read: up to a record, to the content of one that is whole, or to
\* its end.
OffsetInv ==
  /\ MemPhase \/ CpuPhase => \A i \in 1 .. loaded : Len(recs[i].data) = Size(recs[i].map)
  /\ lpc = "record" => off = Offset(loaded)
  /\ CpuPhase => disk = Offset(loaded)
  /\ lpc \in {"map", "content", "protect"} =>
       /\ loaded < Len(recs)
       /\ off = Offset(loaded) + EntrySize
       /\ Offset(loaded + 1) <= disk
       /\ Len(Rec.data) = Size(Rec.map)

\* The pages of record i, as they are when it was loaded.
Restored(i) ==
  \A p \in Pages(recs[i].map) :
    emem[p] = [owner |-> "snapshot", prot |-> recs[i].map.prot,
               data |-> recs[i].data[p - recs[i].map.start + 1]]

\* Who owns the pages: the records that were loaded, and the one being loaded, whose pages
\* are write-only for now; the owner of the emulator; and the loader's own two pages.
MemoryInv ==
  /\ MemPhase \/ CpuPhase => \A i \in 1 .. loaded : Restored(i)
  /\ lpc \in {"content", "protect"} =>
       \A p \in Pages(Rec.map) :
         emem[p] = [owner |-> "snapshot", prot |-> {"w"},
                    data |-> IF lpc = "content" THEN Zero
                             ELSE Rec.data[p - Rec.map.start + 1]]
  /\ MemPhase \/ CpuPhase => \A p \in EPage : emem[p].owner = "snapshot" =>
       \/ \E i \in 1 .. loaded : p \in Pages(recs[i].map)
       \/ lpc \in {"content", "protect"} /\ p \in Pages(Rec.map)
  /\ lpc \in {"start", "open"} => \A p \in EPage : emem[p].owner \in {"free", "host"}
  /\ \A p \in EPage : emem[p].owner = "host" => api = "restore" \/ (api = "qiling" /\ lpc = "start")
  /\ \A p \in EPage : emem[p].owner = "gdt" => p = PB_GDT_PAGE
  /\ \A p \in EPage : emem[p].owner = "trampoline" => p = PB_TRAMPOLINE_PAGE
  /\ CpuPhase => emem[PB_GDT_PAGE].owner = "gdt"
  /\ GdtPhase => emem[PB_GDT_PAGE].prot = {"r"}
  /\ lpc \in {"iret", "unmap"} => emem[PB_TRAMPOLINE_PAGE].owner = "trampoline"
  /\ MemPhase \/ CpuPhase =>
       (emem[PB_TRAMPOLINE_PAGE].owner = "trampoline" => lpc \in {"iret", "unmap"})

\* What the processor has: the table, the general registers, and the segments that were
\* loaded from the table.
CpuInv ==
  /\ GdtPhase => gdtr = Gdt(state) /\ Supported(state)
  /\ ereg \in [{"gp", "sp", "ip", "flags"} -> Words]
  /\ lpc \in {"trampoline", "iret"} => ereg["gp"] = "thread"
  /\ lpc \in {"unmap", "code", "data", "bases", "read_ip"} \/ result = "entry" =>
       \A r \in DOMAIN ereg : ereg[r] = "thread"
  /\ DOMAIN eseg = SegRegs
  /\ lpc \in {"unmap", "data", "bases", "read_ip"} \/ result = "entry" =>
       CanLoad({"cs", "ss"}) /\ \A r \in {"cs", "ss"} : eseg[r] = Seg(r)
  /\ lpc \in {"bases", "read_ip"} \/ result = "entry" =>
       CanLoad(DataSegs) /\ \A r \in {"ds", "es"} : eseg[r] = Seg(r)
  /\ lpc = "bases" => \A r \in {"fs", "gs"} : eseg[r] = Seg(r)
  /\ lpc = "read_ip" \/ result = "entry" =>
       \A r \in {"fs", "gs"} :
         eseg[r] = IF mode = "i386" THEN Seg(r)
                   ELSE [Seg(r) EXCEPT !.hidden.base = state.base[r]]

\* The inductive invariant of the loader, on top of the one of the dump: what it has read
\* of the file, mapped in the emulator and written to the processor at each of its steps
\* (loader/src/dump.c, cpu_state_dump.c).
LoaderInv ==
  /\ DumpInv
  /\ LoaderTypeOK
  /\ FileInv
  /\ PhaseInv
  /\ OffsetInv
  /\ MemoryInv
  /\ CpuInv

-----------------------------------------------------------------------------
(* The layout of the file                                                  *)

\* A record of the beginning of the file ends where it ends in the whole file.
LEMMA PrefixSums ==
  ASSUME DumpTypeOK
  PROVE  \E f \in [0 .. Len(recs) -> Nat] :
           /\ f[0] = 0
           /\ \A i \in 1 .. Len(recs) : f[i] = f[i - 1] + RecordLength(recs[i])
           /\ \A n \in 0 .. Len(recs) : RecordsLength(SubSeq(recs, 1, n)) = f[n]
           /\ RecordsLength(recs) = f[Len(recs)]
<1>1. Len(recs) \in Nat /\ \A i \in 1 .. Len(recs) : RecordLength(recs[i]) \in Nat
  BY RecordsFacts, DumpAssumption DEF RecordLength
<1>2. PICK f \in [0 .. Len(recs) -> Nat] :
        /\ f[0] = 0
        /\ \A i \in 1 .. Len(recs) : f[i] = f[i - 1] + RecordLength(recs[i])
        /\ RecordsLength(recs) = f[Len(recs)]
  BY <1>1, RecordsLengthSums
<1>3. ASSUME NEW n \in 0 .. Len(recs)
      PROVE  RecordsLength(SubSeq(recs, 1, n)) = f[n]
  <2> DEFINE rs == SubSeq(recs, 1, n)
  <2>1. Len(rs) = n /\ \A i \in 1 .. n : rs[i] = recs[i]
    <3>1. \A i \in 1 .. n : recs[i] \in [map : Mapping, data : Seq(Cell)]
      BY <1>1, RecordsFacts
    <3>2. /\ Len(rs) = IF 1 <= n THEN n - 1 + 1 ELSE 0
          /\ \A i \in 1 .. (n - 1 + 1) : rs[i] = recs[1 + i - 1]
      BY <1>1, <3>1, SubSeqProperties
    <3> QED
      BY <1>1, <3>2
  <2> HIDE DEF rs
  <2>2. PICK g \in [0 .. n -> Nat] :
          /\ g[0] = 0
          /\ \A i \in 1 .. n : g[i] = g[i - 1] + RecordLength(recs[i])
          /\ RecordsLength(rs) = g[n]
    <3>1. Len(rs) \in Nat /\ \A i \in 1 .. Len(rs) : RecordLength(rs[i]) \in Nat
      BY <1>1, <2>1
    <3>2. PICK g \in [0 .. Len(rs) -> Nat] :
            /\ g[0] = 0
            /\ \A i \in 1 .. Len(rs) : g[i] = g[i - 1] + RecordLength(rs[i])
            /\ RecordsLength(rs) = g[Len(rs)]
      BY <3>1, RecordsLengthSums
    <3> QED
      BY <2>1, <3>2
  <2> DEFINE S == {i \in Nat : i <= n => g[i] = f[i]}
  <2>3. 0 \in S
    BY <1>2, <2>2
  <2>4. ASSUME NEW i \in S PROVE i + 1 \in S
    <3>1. i \in Nat
      OBVIOUS
    <3>2. CASE i + 1 <= n
      <4>1. g[i] = f[i] /\ i + 1 \in 1 .. n /\ i + 1 \in 1 .. Len(recs) /\ (i + 1) - 1 = i
        BY <1>1, <3>1, <3>2
      <4>2. g[i + 1] = f[i + 1]
        BY <1>2, <2>2, <4>1
      <4> QED
        BY <3>1, <4>2
    <3> QED
      BY <3>1, <3>2
  <2>5. n \in S
    <3> HIDE DEF S
    <3>1. S \in SUBSET Nat
      BY DEF S
    <3>2. S = Nat
      BY <2>3, <2>4, <3>1, NatSetInduction
    <3> QED
      BY <1>1, <3>2
  <2>6. g[n] = f[n]
    BY <1>1, <2>5
  <2> QED
    BY <2>2, <2>6 DEF rs
<1> QED
  BY <1>2, <1>3

\* Where records begin and end: after the state, one after the other, each with its entry.
LEMMA OffsetFacts ==
  ASSUME DumpTypeOK
  PROVE  /\ Offset(0) = StateSize /\ Offset(Len(recs)) = StateSize + RecordsLength(recs)
         /\ \A n \in 0 .. Len(recs) : Offset(n) \in Nat
         /\ \A n \in 0 .. (Len(recs) - 1) :
              Offset(n + 1) = Offset(n) + EntrySize + Len(recs[n + 1].data)
         /\ \A n \in 0 .. (Len(recs) - 1) : Offset(n) < Offset(Len(recs))
<1>1. Len(recs) \in Nat /\ \A i \in 1 .. Len(recs) : Len(recs[i].data) \in Nat
  BY RecordsFacts
<1>2. PICK f \in [0 .. Len(recs) -> Nat] :
        /\ f[0] = 0
        /\ \A i \in 1 .. Len(recs) : f[i] = f[i - 1] + RecordLength(recs[i])
        /\ \A n \in 0 .. Len(recs) : RecordsLength(SubSeq(recs, 1, n)) = f[n]
        /\ RecordsLength(recs) = f[Len(recs)]
  BY PrefixSums
<1>3. \A n \in 0 .. Len(recs) : Offset(n) = StateSize + f[n]
  BY <1>2 DEF Offset
<1>4. /\ Offset(0) = StateSize /\ Offset(Len(recs)) = StateSize + RecordsLength(recs)
      /\ \A n \in 0 .. Len(recs) : Offset(n) \in Nat
  BY <1>1, <1>2, <1>3, DumpAssumption
<1>5. ASSUME NEW n \in 0 .. (Len(recs) - 1)
      PROVE  f[n + 1] = f[n] + EntrySize + Len(recs[n + 1].data)
  <2>1. n + 1 \in 1 .. Len(recs) /\ (n + 1) - 1 = n
    BY <1>1
  <2>2. f[n + 1] = f[n] + RecordLength(recs[n + 1])
    BY <1>2, <2>1
  <2>3. f[n] \in Nat /\ Len(recs[n + 1].data) \in Nat /\ EntrySize \in Nat
    BY <1>1, <2>1, DumpAssumption
  <2> QED
    BY <2>2, <2>3 DEF RecordLength
<1>6. ASSUME NEW n \in 0 .. (Len(recs) - 1)
      PROVE  Offset(n + 1) = Offset(n) + EntrySize + Len(recs[n + 1].data)
  <2>1. n + 1 \in 0 .. Len(recs) /\ n \in 0 .. Len(recs) /\ n + 1 \in 1 .. Len(recs)
    BY <1>1
  <2>2. Offset(n + 1) = StateSize + f[n + 1] /\ Offset(n) = StateSize + f[n]
    BY <1>3, <2>1
  <2>3. f[n + 1] = f[n] + EntrySize + Len(recs[n + 1].data)
    BY <1>5
  <2>4. /\ f[n] \in Nat /\ Len(recs[n + 1].data) \in Nat
        /\ EntrySize \in Nat /\ StateSize \in Nat
    BY <1>1, <1>2, <2>1, DumpAssumption
  <2> QED
    BY <2>2, <2>3, <2>4
<1>7. ASSUME NEW n \in 0 .. (Len(recs) - 1)
      PROVE  Offset(n) < Offset(Len(recs))
  <2> DEFINE S == {k \in Nat : n + 1 + k <= Len(recs) => Offset(n) < Offset(n + 1 + k)}
  <2>1. 0 \in S
    <3>1. Offset(n) < Offset(n + 1) /\ n + 1 + 0 = n + 1
      <4>1. n \in 0 .. Len(recs) /\ n + 1 \in 1 .. Len(recs)
        BY <1>1
      <4> QED
        BY <1>1, <1>4, <1>6, <4>1, DumpAssumption
    <3> QED
      BY <3>1
  <2>2. ASSUME NEW k \in S PROVE k + 1 \in S
    <3>1. k \in Nat /\ k + 1 \in Nat
      OBVIOUS
    <3>2. ASSUME n + 1 + (k + 1) <= Len(recs)
          PROVE  Offset(n) < Offset(n + 1 + (k + 1))
      <4>1. /\ n + 1 + k \in 0 .. (Len(recs) - 1) /\ n + 1 + (k + 1) = (n + 1 + k) + 1
            /\ n + 1 + k \in 0 .. Len(recs) /\ (n + 1 + k) + 1 \in 1 .. Len(recs)
            /\ (n + 1 + k) + 1 \in 0 .. Len(recs)
            /\ n \in 0 .. Len(recs)
        BY <1>1, <3>1, <3>2
      <4>2. Offset(n) < Offset(n + 1 + k)
        BY <4>1
      <4>3. Offset((n + 1 + k) + 1) = Offset(n + 1 + k) + EntrySize
                                        + Len(recs[(n + 1 + k) + 1].data)
        BY <1>6, <4>1
      <4> QED
        BY <1>1, <1>4, <4>1, <4>2, <4>3, DumpAssumption
    <3> QED
      BY <3>1, <3>2
  <2>3. S = Nat
    <3> HIDE DEF S
    <3>1. S \in SUBSET Nat
      BY DEF S
    <3> QED
      BY <2>1, <2>2, <3>1, NatSetInduction
  <2>4. Len(recs) - n - 1 \in S
    <3>1. Len(recs) - n - 1 \in Nat
      BY <1>1
    <3> HIDE DEF S
    <3> QED
      BY <2>3, <3>1
  <2>5. n + 1 + (Len(recs) - n - 1) = Len(recs)
    BY <1>1
  <2> QED
    BY <1>1, <2>4, <2>5
<1> QED
  BY <1>4, <1>6, <1>7

-----------------------------------------------------------------------------
(* Steps of the dump                                                       *)

\* A record has at most its size of content, and the file a length.
LEMMA RecordsBounded ==
  DumpInv =>
    /\ disk \in Nat /\ Len(recs) \in Nat
    /\ wpc # "aborted" => \A i \in DOMAIN recs : Len(recs[i].data) <= Size(recs[i].map)
    /\ Offset(Len(recs)) = StateSize + RecordsLength(recs)
    /\ Offset(Len(recs)) \in Nat
<1>1. ASSUME DumpInv
      PROVE  /\ Offset(Len(recs)) = StateSize + RecordsLength(recs)
             /\ Offset(Len(recs)) \in Nat
  <2>1. DumpTypeOK /\ Len(recs) \in Nat
    BY <1>1, RecordsFacts DEF DumpInv
  <2>2. Len(recs) \in 0 .. Len(recs)
    BY <2>1
  <2> QED
    BY <2>1, <2>2, OffsetFacts
<1>2. DumpInv /\ wpc # "aborted" => \A i \in DOMAIN recs : Len(recs[i].data) <= Size(recs[i].map)
  BY LengthsBounded DEF DumpInv
<1>3. DumpInv => disk \in Nat /\ Len(recs) \in Nat
  BY RecordsFacts DEF DumpInv, DumpTypeOK
<1> QED
  BY <1>1, <1>2, <1>3

\* The dump is over when the loader starts: a step of the dump sees the loader's
\* variables as they were at first, and leaves a file with whole records but for the end.
LEMMA FileNext ==
  ASSUME DumpInv, DumpInv', FileInv, DumpNext
  PROVE  Dumping /\ FileInv'
<1> DEFINE Bounded == /\ wpc # "aborted" =>
                           \A i \in DOMAIN recs : Len(recs[i].data) <= Size(recs[i].map)
                      /\ Offset(Len(recs)) = StateSize + RecordsLength(recs)
                      /\ Offset(Len(recs)) \in Nat
<1>1. Bounded
  BY RecordsBounded
<1>2. Bounded'
  BY RecordsBounded, PTL
<1>3. CASE OtherThreads
  <2>1. Dumping /\ wpc' = wpc
    BY <1>3 DEF OtherThreads, StorePage, Munmap, Mmap, Grow, Mprotect, TargetDies, Change
  <2> QED
    BY <1>2, <2>1 DEF FileInv, Dumping
<1>4. CASE WriteHeader \/ FetchLines \/ SkipMapping \/ StartMapping \/ ReadChunk \/ WriteChunk
  <2>1. Dumping /\ wpc' \in {"next", "read", "write"}
    BY <1>4 DEF WriteHeader, FetchLines, SkipMapping, StartMapping, ReadChunk, WriteChunk, Dumping
  <2> QED
    BY <1>2, <2>1 DEF FileInv, Dumping
<1>5. CASE FinishDump
  <2>1. Dumping /\ wpc' = "done" /\ recs' = recs /\ disk' = StateSize + RecordsLength(recs)
    BY <1>5 DEF FinishDump, Written, Dumping
  <2> QED
    BY <1>2, <2>1 DEF FileInv, Dumping
<1>6. CASE AbortDump
  <2>1. /\ Dumping /\ wpc # "aborted" /\ wpc' = "aborted" /\ recs' = recs
        /\ disk' \in 0 .. Written
    BY <1>6 DEF AbortDump, Dumping
  <2>2. Written = 0 \/ Written = StateSize + RecordsLength(recs)
    BY DEF Written
  <2>3. disk' <= Offset(Len(recs))
    BY <1>1, <2>1, <2>2
  <2>4. Offset(Len(recs))' = Offset(Len(recs))
    BY <2>1 DEF Offset
  <2> QED
    BY <1>1, <2>1, <2>3, <2>4 DEF FileInv, Dumping
<1> QED
  BY <1>3, <1>4, <1>5, <1>6 DEF DumpNext, Writer, WriterStep

\* Before the loader has started nothing is claimed of what it did.
LEMMA DumpStepKeeps ==
  ASSUME LoaderInv, DumpNext, UNCHANGED loaderVars
  PROVE  LoaderInv'
<1>1. DumpInv /\ DumpInv'
  BY DumpInvNext DEF LoaderInv
<1>2. Dumping /\ FileInv'
  BY <1>1, FileNext DEF LoaderInv
<1>3. lpc = "start" /\ lpc' = "start" /\ result = "none" /\ result' = "none"
  BY <1>2 DEF LoaderInv, PhaseInv, LoaderTypeOK, loaderVars
<1>4. off' = 0 /\ loaded' = 0 /\ disk' \in Nat /\ Len(recs') \in Nat
  <2>1. (disk \in Nat /\ Len(recs) \in Nat)'
    BY <1>1, RecordsBounded, PTL
  <2> QED
    BY <1>3, <2>1 DEF LoaderInv, PhaseInv, loaderVars
<1>5. LoaderTypeOK'
  BY <1>4 DEF LoaderInv, LoaderTypeOK, loaderVars
<1>6. PhaseInv'
  BY <1>3 DEF LoaderInv, PhaseInv, loaderVars, MemPhase, CpuPhase, GdtPhase
<1>7. OffsetInv' /\ MemoryInv'
  BY <1>3 DEF LoaderInv, OffsetInv, MemoryInv, loaderVars, MemPhase, CpuPhase, GdtPhase
<1>8. CpuInv'
  BY <1>3 DEF LoaderInv, CpuInv, loaderVars, GdtPhase
<1> QED
  BY <1>1, <1>2, <1>5, <1>6, <1>7, <1>8 DEF LoaderInv

-----------------------------------------------------------------------------
(* Steps of the loader                                                     *)

\* The invariant holds before anything is dumped or loaded.
LEMMA LoaderInvInit == Init => LoaderInv
<1> SUFFICES ASSUME Init PROVE LoaderInv
  OBVIOUS
<1>1. DumpInv
  BY DumpInvInit DEF Init
<1>2. wpc = "header" /\ Len(recs) = 0 /\ DOMAIN recs = {} /\ disk = 0
  BY EmptySeq, LenProperties DEF Init, DumpInit
<1>3. FileInv
  BY <1>2 DEF FileInv, Dumping
<1>4. emem \in [EPage -> Location]
  <2>1. Zero \in Cell
    BY DEF Cell
  <2> QED
    BY <2>1 DEF Init, LoaderInit, Location, Free, Host
<1>5. \A p \in EPage : emem[p].owner \in {"free", "host"}
  BY DEF Init, LoaderInit, Free, Host
<1>6. lpc = "start" /\ result = "none" /\ off = 0 /\ loaded = 0 /\ thread \in Threads
  BY DEF Init, LoaderInit
<1>7. thread.arch \in {"i386", "x86_64"}
  BY <1>6, ThreadsAssumption
<1>8. LoaderTypeOK
  <2>1. \A p \in EPage : /\ emem[p].owner \in {"free", "host", "snapshot", "gdt", "trampoline"}
                         /\ emem[p].prot \subseteq {"r", "w", "x"}
                         /\ emem[p].data \in Cell
    BY <1>4 DEF Location
  <2> QED
    BY <1>2, <1>6, <1>7, <2>1 DEF Init, LoaderInit, LoaderTypeOK, Words
<1>9. PhaseInv /\ OffsetInv
  BY <1>4, <1>6, <1>7 DEF Init, LoaderInit, PhaseInv, OffsetInv, MemPhase, CpuPhase, GdtPhase
<1>10. MemoryInv
  BY <1>5, <1>6 DEF Init, LoaderInit, MemoryInv, MemPhase, CpuPhase, GdtPhase, Free, Host
<1>11. CpuInv
  BY <1>6 DEF Init, LoaderInit, CpuInv, GdtPhase, Words
<1> QED
  BY <1>1, <1>3, <1>8, <1>9, <1>10, <1>11 DEF LoaderInv

\* The record that is being loaded: it is in the file, whole, and apart from the ones
\* before it.
LEMMA RecFacts ==
  ASSUME LoaderInv, lpc \in {"map", "content", "protect"}
  PROVE  /\ loaded \in Nat /\ loaded + 1 \in DOMAIN recs /\ Rec.map \in Mapping
         /\ Pages(Rec.map) \subseteq EPage /\ Pages(Rec.map) \subseteq Int
         /\ \A p \in Pages(Rec.map) : /\ p - Rec.map.start + 1 \in DOMAIN Rec.data
                                      /\ Rec.data[p - Rec.map.start + 1] \in Cell
         /\ \A i \in 1 .. loaded : Pages(recs[i].map) \cap Pages(Rec.map) = {}
<1>1. DumpTypeOK /\ Len(recs) \in Nat /\ loaded \in Nat /\ loaded < Len(recs)
  BY RecordsFacts DEF LoaderInv, DumpInv, LoaderTypeOK, OffsetInv
<1>2. loaded + 1 \in DOMAIN recs /\ DOMAIN recs = 1 .. Len(recs)
  BY <1>1, RecordsFacts
<1>3. /\ Rec.map \in Mapping /\ Rec.data \in Seq(Cell)
      /\ DOMAIN Rec.data = 1 .. Len(Rec.data) /\ Len(Rec.data) = Size(Rec.map)
  BY <1>1, <1>2, RecordsFacts DEF LoaderInv, OffsetInv, Rec
<1>4. Pages(Rec.map) \subseteq Page /\ Pages(Rec.map) \subseteq Int
  BY <1>3, MappingFields, DumpAssumption DEF Page
<1>5. ASSUME NEW p \in Pages(Rec.map)
      PROVE  p - Rec.map.start + 1 \in 1 .. Len(Rec.data)
  BY <1>3, <1>4, MappingFields DEF Size, Pages
<1>6. ASSUME NEW i \in 1 .. loaded
      PROVE  Pages(recs[i].map) \cap Pages(Rec.map) = {}
  <2>1. i \in DOMAIN recs /\ i < loaded + 1
    BY <1>1, <1>2
  <2>2. recs[i].map \in Mapping /\ recs[i].map.end <= Rec.map.start
    BY <1>1, <1>2, <2>1, RecordsFacts DEF LoaderInv, DumpInv, RecordsInv, Rec
  <2> QED
    BY <1>3, <2>2, MappingFields DEF Pages
<1> QED
  BY <1>1, <1>2, <1>3, <1>4, <1>5, <1>6, ElementOfSeq DEF EPage

\* The dump stays as it is while the loader runs.
LEMMA DumpFrame ==
  ASSUME LoaderInv, UNCHANGED dumpVars
  PROVE  DumpInv' /\ FileInv'
<1>1. DumpInv'
  BY DumpInvNext DEF LoaderInv
<1>2. FileInv'
  BY DEF LoaderInv, FileInv, dumpVars, Dumping, Offset
<1> QED
  BY <1>1, <1>2

\* The loader goes through its phases in order, in the mode of the thread.
LEMMA PhaseNext ==
  ASSUME LoaderInv, ~Dumping, LoaderStep, UNCHANGED dumpVars
  PROVE  PhaseInv'
<1> USE DEF LGoto, Return
<1>t. PhaseInv /\ LoaderTypeOK /\ emem \in [EPage -> Location] /\ UNCHANGED wpc
  BY DEF LoaderInv, PhaseInv, dumpVars
<1>z. Zero \in Cell
  BY DEF Cell
<1>a. thread.arch \in {"i386", "x86_64"}
  BY <1>t, ThreadsAssumption DEF LoaderTypeOK
<1> USE DEF PhaseInv, MemPhase, CpuPhase, GdtPhase, Dumping, LoaderTypeOK
<1>1. CASE Die \/ CreateUnsupported \/ StartRestore
  BY <1>1, <1>t, <1>a DEF Die, CreateUnsupported, StartRestore
<1>2. CASE UnmapQiling
  BY <1>2, <1>t, <1>a, <1>z DEF UnmapQiling, Free, Location
<1>3. CASE ReadState \/ ReadEntry
  BY <1>3, <1>t, <1>a DEF ReadState, ReadEntry
<1>4. CASE MapMapping
  BY <1>4, <1>t, <1>z DEF MapMapping, Location, Mapped
<1>5. CASE WriteMapping
  <2>1. \A p \in Pages(Rec.map) : Rec.data[p - Rec.map.start + 1] \in Cell
    BY <1>5, RecFacts DEF WriteMapping
  <2>2. emem' \in [EPage -> Location]
    BY <1>5, <1>t, <2>1 DEF WriteMapping, Location
  <2> QED
    BY <1>5, <1>t, <2>2 DEF WriteMapping
<1>6. CASE ProtectMapping
  <2>1. Rec.map.prot \subseteq {"r", "w", "x"}
    BY <1>6, RecFacts, MappingFields DEF ProtectMapping
  <2>2. emem' \in [EPage -> Location]
    BY <1>6, <1>t, <2>1 DEF ProtectMapping, Location
  <2> QED
    BY <1>6, <1>t, <2>2 DEF ProtectMapping
<1>7. CASE MapGdt
  BY <1>7, <1>t, <1>z DEF MapGdt, Location, Mapped, EPage
<1>8. CASE WriteGdt
  BY <1>8, <1>t DEF WriteGdt, Location, EPage
<1>9. CASE WriteGeneral32 \/ WriteGeneral64
  BY <1>9, <1>t DEF WriteGeneral32, WriteGeneral64
<1>10. CASE MapTrampoline
  BY <1>10, <1>t, <1>z DEF MapTrampoline, Location, Mapped, EPage
<1>11. CASE Iret \/ WriteCodeStack \/ WriteData32 \/ WriteData64 \/ WriteBases \/
        ReadEntryPoint
  BY <1>11, <1>t DEF Iret, WriteCodeStack, WriteData32, WriteData64, WriteBases,
       ReadEntryPoint
<1>12. CASE UnmapTrampoline
  BY <1>12, <1>t, <1>z DEF UnmapTrampoline, Free, Location, EPage
<1> QED
  BY <1>1, <1>2, <1>3, <1>4, <1>5, <1>6, <1>7, <1>8, <1>9, <1>10, <1>11, <1>12 DEF
       LoaderStep

\* Every variable keeps its type, and the offset stays within the file.
LEMMA TypeNext ==
  ASSUME LoaderInv, ~Dumping, LoaderStep, UNCHANGED dumpVars
  PROVE  LoaderTypeOK'
<1> USE DEF LGoto, Return
<1>t. LoaderTypeOK /\ PhaseInv /\ PhaseInv' /\ UNCHANGED <<disk, recs>>
  BY PhaseNext DEF LoaderInv, dumpVars
<1>e. \A p \in EPage : /\ emem'[p].owner \in {"free", "host", "snapshot", "gdt", "trampoline"}
                       /\ emem'[p].prot \subseteq {"r", "w", "x"}
                       /\ emem'[p].data \in Cell
  BY <1>t DEF PhaseInv, Location
<1>n. disk \in Nat /\ StateSize \in Nat /\ EntrySize \in Nat /\ Len(recs) \in Nat
  BY DumpAssumption, RecordsFacts DEF LoaderInv, DumpInv, DumpTypeOK
<1> USE DEF LoaderTypeOK
<1>1. CASE Die \/ CreateUnsupported \/ StartRestore \/ UnmapQiling
  BY <1>1, <1>t, <1>e DEF Die, CreateUnsupported, StartRestore, UnmapQiling
<1>2. CASE ReadState \/ ReadEntry
  BY <1>2, <1>t, <1>e, <1>n DEF ReadState, ReadEntry
<1>3. CASE MapMapping \/ WriteMapping \/ MapGdt \/ WriteGdt \/ UnmapTrampoline
  BY <1>3, <1>t, <1>e DEF MapMapping, WriteMapping, MapGdt, WriteGdt, UnmapTrampoline
<1>4. CASE ProtectMapping
  <2>1. /\ loaded \in Nat /\ loaded < Len(recs) /\ off = Offset(loaded) + EntrySize
        /\ Offset(loaded + 1) <= disk /\ Len(Rec.data) = Size(Rec.map)
    BY <1>4, RecFacts DEF LoaderInv, OffsetInv, ProtectMapping
  <2>2. DumpTypeOK /\ loaded \in 0 .. (Len(recs) - 1) /\ loaded + 1 \in 0 .. Len(recs)
    BY <1>n, <2>1 DEF LoaderInv, DumpInv
  <2>3. /\ Offset(loaded + 1) = Offset(loaded) + EntrySize + Size(Rec.map)
        /\ Offset(loaded) \in Nat /\ Offset(loaded + 1) \in Nat
    BY <1>n, <2>1, <2>2, OffsetFacts DEF Rec
  <2>4. off' = Offset(loaded + 1)
    BY <1>4, <2>1, <2>3 DEF ProtectMapping
  <2>5. off' \in 0 .. disk' /\ loaded' \in 0 .. Len(recs')
    BY <1>4, <1>n, <1>t, <2>1, <2>2, <2>3, <2>4 DEF ProtectMapping
  <2> QED
    BY <1>4, <1>t, <1>e, <2>5 DEF ProtectMapping
<1>5. CASE WriteGeneral32 \/ WriteGeneral64 \/ MapTrampoline
  BY <1>5, <1>t, <1>e DEF WriteGeneral32, WriteGeneral64, MapTrampoline, Words
<1>6. CASE Iret
  BY <1>6, <1>t, <1>e DEF Iret, Words, LoadSegs
<1>7. CASE WriteCodeStack \/ WriteData32 \/ WriteData64
  BY <1>7, <1>t, <1>e DEF WriteCodeStack, WriteData32, WriteData64, LoadSegs
<1>8. CASE WriteBases \/ ReadEntryPoint
  BY <1>8, <1>t, <1>e DEF WriteBases, ReadEntryPoint
<1> QED
  BY <1>1, <1>2, <1>3, <1>4, <1>5, <1>6, <1>7, <1>8 DEF LoaderStep

\* Records are read one after the other, and only whole ones, wherever the file was cut.
LEMMA OffsetNext ==
  ASSUME LoaderInv, ~Dumping, LoaderStep, UNCHANGED dumpVars
  PROVE  OffsetInv'
<1> USE DEF LGoto, Return
<1>t. /\ DumpTypeOK /\ RecordsInv /\ FileInv /\ LoaderTypeOK /\ PhaseInv /\ OffsetInv
      /\ UNCHANGED <<disk, recs>>
  BY DEF LoaderInv, DumpInv, dumpVars
<1>n. /\ disk \in Nat /\ StateSize \in Nat /\ EntrySize \in Nat /\ Len(recs) \in Nat
      /\ DOMAIN recs = 1 .. Len(recs) /\ loaded \in 0 .. Len(recs) /\ off \in 0 .. disk
  BY <1>t, DumpAssumption, RecordsFacts DEF DumpTypeOK, LoaderTypeOK
<1>e. result = "entry" => lpc = "returned"
  BY <1>t DEF LoaderTypeOK
<1> USE DEF OffsetInv, MemPhase, CpuPhase, GdtPhase
<1>1. CASE Die \/ CreateUnsupported \/ StartRestore \/ UnmapQiling
  BY <1>1, <1>t, <1>e DEF Die, CreateUnsupported, StartRestore, UnmapQiling
<1>2. CASE ReadState
  <2>1. loaded' = 0 /\ off' = StateSize /\ lpc' = "record" /\ result' # "entry"
    BY <1>2, <1>t, <1>e DEF ReadState, PhaseInv
  <2>2. Offset(loaded)' = StateSize
    BY <1>t, <2>1, OffsetFacts DEF Offset
  <2> QED
    BY <2>1, <2>2
<1>3. CASE ReadEntry
  <2>1. /\ off = Offset(loaded) /\ off < disk /\ lpc' = "map" /\ result' # "entry"
        /\ off' = off + EntrySize /\ loaded' = loaded
        /\ Size(Rec.map) <= disk - (off + EntrySize)
    BY <1>3, <1>t, <1>e DEF ReadEntry
  <2>2. disk <= Offset(Len(recs))
    BY <1>t DEF FileInv
  <2>3. loaded \in 0 .. (Len(recs) - 1) /\ loaded + 1 \in 1 .. Len(recs)
    BY <1>n, <2>1, <2>2, <1>t, OffsetFacts
  <2>4. /\ Offset(loaded + 1) = off + EntrySize + Len(Rec.data)
        /\ Len(Rec.data) \in Nat /\ Rec.map \in Mapping
    BY <1>n, <1>t, <2>1, <2>3, OffsetFacts, RecordsFacts DEF Rec
  <2>5. Size(Rec.map) \in Int /\ Len(Rec.data) <= Size(Rec.map)
    BY <1>n, <1>t, <2>3, <2>4, MappingFields DEF FileInv, Rec
  <2>6. Len(Rec.data) = Size(Rec.map)
    <3>1. CASE loaded + 1 < Len(recs)
      BY <1>n, <1>t, <2>3, <3>1 DEF RecordsInv, Rec
    <3>2. CASE loaded + 1 = Len(recs)
      BY <1>n, <2>1, <2>2, <2>4, <2>5, <3>2
    <3>3. loaded \in Nat /\ loaded + 1 <= Len(recs) /\ Len(recs) \in Nat
      BY <1>n, <2>3
    <3> QED
      BY <3>1, <3>2, <3>3
  <2>7. Offset(loaded + 1) <= disk
    BY <1>n, <2>1, <2>4, <2>5
  <2>8. /\ Offset(loaded)' = Offset(loaded) /\ Offset(loaded + 1)' = Offset(loaded + 1)
        /\ Rec' = Rec
    BY <1>t, <2>1 DEF Offset, Rec
  <2>9. \A i \in 1 .. loaded' : Len(recs'[i].data) = Size(recs'[i].map)
    BY <1>3, <1>t, <2>1 DEF ReadEntry
  <2> QED
    BY <1>n, <1>t, <2>1, <2>3, <2>6, <2>7, <2>8, <2>9
<1>4. CASE MapMapping \/ WriteMapping
  BY <1>4, <1>t, <1>e DEF MapMapping, WriteMapping, Offset, Rec
<1>5. CASE ProtectMapping
  <2>1. /\ loaded \in 0 .. (Len(recs) - 1) /\ off = Offset(loaded) + EntrySize
        /\ Len(Rec.data) = Size(Rec.map) /\ lpc' = "record" /\ result' # "entry"
        /\ off' = off + Size(Rec.map) /\ loaded' = loaded + 1
    BY <1>5, <1>n, <1>t, <1>e DEF ProtectMapping
  <2>2. loaded + 1 \in 1 .. Len(recs) /\ Len(Rec.data) \in Nat /\ Offset(loaded) \in Nat
    BY <1>n, <1>t, <2>1, OffsetFacts, RecordsFacts DEF Rec
  <2>3. Offset(loaded + 1) = Offset(loaded) + EntrySize + Len(Rec.data)
    BY <1>t, <2>1, OffsetFacts DEF Rec
  <2>4. Offset(loaded)' = off'
    BY <1>n, <1>t, <2>1, <2>2, <2>3 DEF Offset
  <2>5. \A i \in 1 .. loaded : Len(recs[i].data) = Size(recs[i].map)
    BY <1>5, <1>t DEF ProtectMapping
  <2>6. \A i \in 1 .. loaded' : Len(recs'[i].data) = Size(recs'[i].map)
    BY <1>n, <1>t, <2>1, <2>5 DEF Rec
  <2> QED
    BY <2>1, <2>4, <2>6
<1>6. CASE MapGdt
  BY <1>6, <1>t, <1>n, <1>e DEF MapGdt, Offset
<1>7. CASE WriteGdt \/ WriteGeneral32 \/ WriteGeneral64 \/ MapTrampoline \/ Iret \/
        UnmapTrampoline
  BY <1>7, <1>t, <1>e DEF WriteGdt, WriteGeneral32, WriteGeneral64, MapTrampoline, Iret,
       UnmapTrampoline, Offset
<1>8. CASE WriteCodeStack \/ WriteData32 \/ WriteData64 \/ WriteBases \/ ReadEntryPoint
  BY <1>8, <1>t, <1>e DEF WriteCodeStack, WriteData32, WriteData64, WriteBases,
       ReadEntryPoint, Offset
<1> QED
  BY <1>1, <1>2, <1>3, <1>4, <1>5, <1>6, <1>7, <1>8 DEF LoaderStep

\* Registers and segments are written in an order in which none undoes another.
LEMMA CpuNext ==
  ASSUME LoaderInv, ~Dumping, LoaderStep, UNCHANGED dumpVars
  PROVE  CpuInv'
<1> USE DEF LGoto, Return
<1>t. /\ CpuInv /\ LoaderTypeOK /\ PhaseInv /\ UNCHANGED <<thread, mode>>
  BY DEF LoaderInv, LoaderStep, Die, CreateUnsupported, StartRestore, UnmapQiling, ReadState,
         ReadEntry, MapMapping, WriteMapping, ProtectMapping, MapGdt, WriteGdt, WriteGeneral32,
         WriteGeneral64, MapTrampoline, Iret, UnmapTrampoline, WriteCodeStack, WriteData32,
         WriteData64, WriteBases, ReadEntryPoint
<1>e. (result = "entry" => lpc = "returned") /\ state' = state
  BY <1>t DEF LoaderTypeOK, state
<1>g. gdtr' = gdtr => /\ \A r \in SegRegs : Seg(r)' = Seg(r)
                      /\ CanLoad({"cs", "ss"})' = CanLoad({"cs", "ss"})
                      /\ CanLoad(DataSegs)' = CanLoad(DataSegs)
  BY <1>e DEF Seg, CanLoad
<1>r. /\ {"cs", "ss"} \subseteq SegRegs /\ DataSegs \subseteq SegRegs
      /\ DataSegs = {"ds", "es", "fs", "gs"}
  BY DEF SegRegs, DataSegs
<1> USE DEF CpuInv, GdtPhase
<1>1. CASE Die \/ CreateUnsupported \/ StartRestore \/ UnmapQiling \/ ReadState \/ ReadEntry
  BY <1>1, <1>t, <1>e DEF Die, CreateUnsupported, StartRestore, UnmapQiling, ReadState,
       ReadEntry
<1>2. CASE MapMapping \/ WriteMapping \/ ProtectMapping \/ MapGdt
  BY <1>2, <1>t, <1>e DEF MapMapping, WriteMapping, ProtectMapping, MapGdt
<1>3. CASE WriteGdt
  BY <1>3, <1>t, <1>e DEF WriteGdt
<1>4. CASE WriteGeneral32
  BY <1>4, <1>t, <1>e DEF WriteGeneral32, Words
<1>5. CASE WriteGeneral64
  BY <1>5, <1>t, <1>e DEF WriteGeneral64, Words
<1>6. CASE MapTrampoline
  BY <1>6, <1>t, <1>e DEF MapTrampoline, Words
<1>7. CASE Iret
  BY <1>7, <1>t, <1>e, <1>g, <1>r DEF Iret, LoadSegs, Words
<1>8. CASE UnmapTrampoline
  BY <1>8, <1>t, <1>e, <1>g, <1>r DEF UnmapTrampoline
<1>9. CASE WriteCodeStack
  BY <1>9, <1>t, <1>e, <1>g, <1>r DEF WriteCodeStack, LoadSegs
<1>10. CASE WriteData32
  BY <1>10, <1>t, <1>e, <1>g, <1>r DEF WriteData32, LoadSegs
<1>11. CASE WriteData64
  BY <1>11, <1>t, <1>e, <1>g, <1>r DEF WriteData64, LoadSegs
<1>12. CASE WriteBases
  BY <1>12, <1>t, <1>e, <1>g, <1>r DEF WriteBases, PhaseInv, CpuPhase
<1>13. CASE ReadEntryPoint
  BY <1>13, <1>t, <1>e, <1>g, <1>r DEF ReadEntryPoint
<1> QED
  BY <1>1, <1>2, <1>3, <1>4, <1>5, <1>6, <1>7, <1>8, <1>9, <1>10, <1>11, <1>12, <1>13 DEF
       LoaderStep

\* The pages of loaded records are pages of the emulator.
LEMMA LoadedPages ==
  ASSUME LoaderInv, NEW i \in 1 .. loaded
  PROVE  i \in DOMAIN recs /\ recs[i].map \in Mapping /\ Pages(recs[i].map) \subseteq EPage
<1>1. DumpTypeOK /\ Len(recs) \in Nat /\ loaded \in 0 .. Len(recs)
  BY RecordsFacts DEF LoaderInv, DumpInv, LoaderTypeOK
<1>2. i \in DOMAIN recs /\ recs[i].map \in Mapping
  BY <1>1, RecordsFacts
<1> QED
  BY <1>2, MappingFields DEF EPage

\* A page of the snapshot, while it is loaded.
Loaded(t, d) == [owner |-> "snapshot", prot |-> t, data |-> d]

\* Writing and protecting a page changes what it says.
LEMMA LoadedFields ==
  ASSUME NEW t, NEW d
  PROVE  /\ Loaded(t, d).owner = "snapshot" /\ Loaded(t, d).prot = t /\ Loaded(t, d).data = d
         /\ \A c : [Loaded(t, d) EXCEPT !.data = c] = Loaded(t, c)
         /\ \A q : [Loaded(t, d) EXCEPT !.prot = q] = Loaded(q, d)
  BY DEF Loaded

\* A page of the loader's own is not one of the snapshot: what was restored stays.
LEMMA OtherPagesStay ==
  ASSUME LoaderInv, MemPhase \/ CpuPhase, NEW q \in EPage, emem[q].owner # "snapshot",
         \A p \in EPage : p # q => emem'[p] = emem[p], UNCHANGED <<recs, loaded>>
  PROVE  \A i \in 1 .. loaded' : Restored(i)'
<1>1. ASSUME NEW i \in 1 .. loaded, NEW p \in Pages(recs[i].map)
      PROVE  emem'[p] = emem[p]
  <2>1. Restored(i)
    BY DEF LoaderInv, MemoryInv
  <2>2. p \in EPage /\ \E t, d : emem[p] = Loaded(t, d)
    BY <2>1, LoadedPages DEF Restored, Loaded
  <2>3. emem[p].owner = "snapshot"
    BY <2>2, LoadedFields
  <2> QED
    BY <2>2, <2>3
<1> QED
  BY <1>1 DEF LoaderInv, MemoryInv, Restored

\* Pages are mapped once, and what was restored of the snapshot stays as it is.
LEMMA MemoryNext ==
  ASSUME LoaderInv, ~Dumping, LoaderStep, UNCHANGED dumpVars
  PROVE  MemoryInv'
<1> USE DEF LGoto, Return
<1>t. /\ MemoryInv /\ LoaderTypeOK /\ PhaseInv /\ UNCHANGED recs /\ emem \in [EPage -> Location]
  BY DEF LoaderInv, PhaseInv, dumpVars
<1>e. result = "entry" => lpc = "returned"
  BY <1>t DEF LoaderTypeOK
<1>p. PB_GDT_PAGE \in EPage /\ PB_TRAMPOLINE_PAGE \in EPage /\ PB_GDT_PAGE # PB_TRAMPOLINE_PAGE
  BY LoaderAssumption DEF EPage
<1>l. loaded \in Nat
  BY RecordsFacts DEF LoaderInv, DumpInv, LoaderTypeOK
<1> USE DEF MemoryInv, MemPhase, CpuPhase, GdtPhase
<1>1. CASE Die \/ CreateUnsupported \/ StartRestore
  BY <1>1, <1>t, <1>e DEF Die, CreateUnsupported, StartRestore
<1>2. CASE UnmapQiling
  BY <1>2, <1>t, <1>e DEF UnmapQiling, Free
<1>3. CASE ReadState
  BY <1>3, <1>t, <1>e, <1>p DEF ReadState, PhaseInv, Restored
<1>4. CASE ReadEntry
  BY <1>4, <1>t, <1>e DEF ReadEntry, Restored
<1>5. CASE MapMapping
  <2>1. /\ lpc = "map" /\ lpc' = "content" /\ result' # "entry" /\ UNCHANGED <<loaded, api>>
        /\ Rec' = Rec
    BY <1>5, <1>t, <1>e DEF MapMapping, Rec
  <2>2. \A p \in EPage : emem'[p] = IF p \in Pages(Rec.map) THEN Mapped("snapshot", {"w"})
                                      ELSE emem[p]
    BY <1>5 DEF MapMapping
  <2>3. \A p \in Pages(Rec.map) : emem[p] = Free
    BY <1>5 DEF MapMapping
  <2>4. \A i \in 1 .. loaded : Restored(i)'
    <3>1. ASSUME NEW i \in 1 .. loaded, NEW p \in Pages(recs[i].map)
          PROVE  emem'[p] = emem[p]
      BY <2>1, <2>2, LoadedPages, RecFacts
    <3> QED
      BY <1>t, <2>1, <3>1 DEF Restored
  <2>5. Pages(Rec.map) \subseteq EPage
    BY <2>1, RecFacts
  <2>6. PB_GDT_PAGE \in EPage => emem'[PB_TRAMPOLINE_PAGE].owner # "trampoline"
    BY <1>t, <1>p, <2>1, <2>2 DEF Mapped
  <2>7. \A p \in EPage : \/ p \in Pages(Rec.map) /\ emem'[p].owner = "snapshot"
                         \/ p \notin Pages(Rec.map) /\ emem'[p].owner = emem[p].owner
    BY <2>2 DEF Mapped
  <2>8. \A p \in Pages(Rec.map) : emem'[p] = [owner |-> "snapshot", prot |-> {"w"}, data |-> Zero]
    BY <2>2, <2>5 DEF Mapped
  <2> QED
    BY <1>t, <1>p, <2>1, <2>4, <2>6, <2>7, <2>8
<1>6. CASE WriteMapping
  <2>1. /\ lpc = "content" /\ lpc' = "protect" /\ result' # "entry" /\ UNCHANGED <<loaded, api>>
        /\ Rec' = Rec
    BY <1>6, <1>t, <1>e DEF WriteMapping, Rec
  <2>2. \A p \in Pages(Rec.map) : p \in EPage /\ p - Rec.map.start + 1 \in DOMAIN Rec.data
    BY <2>1, RecFacts
  <2>3. /\ \A p \in EPage : p \notin Pages(Rec.map) => emem'[p] = emem[p]
        /\ \A p \in Pages(Rec.map) :
             emem'[p] = [emem[p] EXCEPT !.data = Rec.data[p - Rec.map.start + 1]]
    BY <1>6, <2>2 DEF WriteMapping
  <2>4. \A p \in Pages(Rec.map) :
          /\ emem[p] = Loaded({"w"}, Zero)
          /\ emem'[p] = Loaded({"w"}, Rec.data[p - Rec.map.start + 1])
    <3>1. \A p \in Pages(Rec.map) : emem[p] = Loaded({"w"}, Zero)
      BY <1>t, <2>1 DEF Loaded
    <3> QED
      BY <2>3, <3>1, LoadedFields
  <2>5. \A i \in 1 .. loaded : Restored(i)'
    <3>1. ASSUME NEW i \in 1 .. loaded, NEW p \in Pages(recs[i].map)
          PROVE  emem'[p] = emem[p]
      BY <2>1, <2>3, LoadedPages, RecFacts
    <3> QED
      BY <1>t, <2>1, <3>1 DEF Restored
  <2>6. \A p \in EPage : emem'[p].owner = emem[p].owner
    <3>1. \A p \in Pages(Rec.map) : emem[p].owner = "snapshot" /\ emem'[p].owner = "snapshot"
      BY <2>4, LoadedFields
    <3> QED
      BY <2>3, <3>1
  <2> QED
    BY <1>t, <1>p, <2>1, <2>2, <2>4, <2>5, <2>6 DEF Loaded
<1>7. CASE ProtectMapping
  <2>1. /\ lpc = "protect" /\ lpc' = "record" /\ result' # "entry" /\ UNCHANGED api
        /\ loaded' = loaded + 1 /\ recs[loaded + 1] = Rec
    BY <1>7, <1>t, <1>e DEF ProtectMapping, Rec
  <2>2. \A p \in Pages(Rec.map) : p \in EPage
    BY <2>1, RecFacts
  <2>3. /\ \A p \in EPage : p \notin Pages(Rec.map) => emem'[p] = emem[p]
        /\ \A p \in Pages(Rec.map) : emem'[p] = [emem[p] EXCEPT !.prot = Rec.map.prot]
    BY <1>7, <2>2 DEF ProtectMapping
  <2>4. \A p \in Pages(Rec.map) :
          /\ emem[p] = Loaded({"w"}, Rec.data[p - Rec.map.start + 1])
          /\ emem'[p] = Loaded(Rec.map.prot, Rec.data[p - Rec.map.start + 1])
    <3>1. \A p \in Pages(Rec.map) : emem[p] = Loaded({"w"}, Rec.data[p - Rec.map.start + 1])
      BY <1>t, <2>1 DEF Loaded
    <3>2. ASSUME NEW p \in Pages(Rec.map)
          PROVE  emem'[p] = Loaded(Rec.map.prot, Rec.data[p - Rec.map.start + 1])
      <4> DEFINE d == Rec.data[p - Rec.map.start + 1]
                 t == Rec.map.prot
      <4>1. emem[p] = Loaded({"w"}, d) /\ emem'[p] = [emem[p] EXCEPT !.prot = t]
        BY <2>3, <3>1
      <4> HIDE DEF d, t
      <4>2. emem'[p] = Loaded(t, d)
        BY <4>1, LoadedFields
      <4> QED
        BY <4>2 DEF d, t
    <3> QED
      BY <3>1, <3>2
  <2>5. ASSUME NEW i \in 1 .. (loaded + 1)
        PROVE  Restored(i)'
    <3>1. CASE i = loaded + 1
      BY <1>t, <2>1, <2>4, <3>1 DEF Restored, Loaded
    <3>2. CASE i \in 1 .. loaded
      <4>1. ASSUME NEW p \in Pages(recs[i].map)
            PROVE  emem'[p] = emem[p]
        BY <2>1, <2>3, <3>2, LoadedPages, RecFacts
      <4> QED
        BY <1>t, <2>1, <3>2, <4>1 DEF Restored
    <3> QED
      BY <1>l, <3>1, <3>2
  <2>6. \A p \in EPage : emem'[p].owner = emem[p].owner
    <3>1. \A p \in Pages(Rec.map) : emem[p].owner = "snapshot" /\ emem'[p].owner = "snapshot"
      BY <2>4, LoadedFields
    <3> QED
      BY <2>3, <3>1
  <2>7. ASSUME NEW p \in EPage, emem[p].owner = "snapshot"
        PROVE  \E i \in 1 .. (loaded + 1) : p \in Pages(recs[i].map)
    <3>1. loaded + 1 \in 1 .. (loaded + 1) /\ 1 .. loaded \subseteq 1 .. (loaded + 1)
      BY <1>l
    <3> QED
      BY <1>t, <2>1, <2>7, <3>1
  <2> QED
    BY <1>t, <1>p, <2>1, <2>5, <2>6, <2>7
<1>8. CASE MapGdt
  <2>1. /\ \A p \in EPage : p # PB_GDT_PAGE => emem'[p] = emem[p]
        /\ emem'[PB_GDT_PAGE] = Mapped("gdt", {"r", "w"}) /\ emem[PB_GDT_PAGE].owner # "snapshot"
    BY <1>8, <1>t, <1>p DEF MapGdt, Free
  <2>2. \A i \in 1 .. loaded' : Restored(i)'
    BY <1>8, <1>t, <1>p, <2>1, OtherPagesStay DEF MapGdt
  <2> QED
    BY <1>8, <1>t, <1>e, <1>p, <2>1, <2>2 DEF MapGdt, Mapped
<1>9. CASE WriteGdt
  <2>1. /\ \A p \in EPage : p # PB_GDT_PAGE => emem'[p] = emem[p]
        /\ emem'[PB_GDT_PAGE].owner = "gdt" /\ emem'[PB_GDT_PAGE].prot = {"r"}
        /\ emem[PB_GDT_PAGE].owner = "gdt"
    BY <1>9, <1>t, <1>p DEF WriteGdt, Location
  <2>2. \A i \in 1 .. loaded' : Restored(i)'
    BY <1>9, <1>t, <1>p, <2>1, OtherPagesStay DEF WriteGdt
  <2> QED
    BY <1>9, <1>t, <1>e, <1>p, <2>1, <2>2 DEF WriteGdt
<1>10. CASE WriteGeneral32 \/ WriteGeneral64 \/ Iret \/ WriteCodeStack \/ WriteData32 \/
        WriteData64
  BY <1>10, <1>t, <1>e DEF WriteGeneral32, WriteGeneral64, Iret, WriteCodeStack,
       WriteData32, WriteData64, Restored, PhaseInv
<1>11. CASE WriteBases \/ ReadEntryPoint
  BY <1>11, <1>t, <1>e DEF WriteBases, ReadEntryPoint, Restored
<1>12. CASE MapTrampoline
  <2>1. /\ \A p \in EPage : p # PB_TRAMPOLINE_PAGE => emem'[p] = emem[p]
        /\ emem'[PB_TRAMPOLINE_PAGE].owner = "trampoline"
        /\ emem[PB_TRAMPOLINE_PAGE].owner # "snapshot"
    BY <1>12, <1>t, <1>p DEF MapTrampoline, Free, Mapped
  <2>2. \A i \in 1 .. loaded' : Restored(i)'
    BY <1>12, <1>t, <1>p, <2>1, OtherPagesStay DEF MapTrampoline
  <2> QED
    BY <1>12, <1>t, <1>e, <1>p, <2>1, <2>2 DEF MapTrampoline
<1>13. CASE UnmapTrampoline
  <2>1. /\ \A p \in EPage : p # PB_TRAMPOLINE_PAGE => emem'[p] = emem[p]
        /\ emem'[PB_TRAMPOLINE_PAGE].owner = "free"
        /\ emem[PB_TRAMPOLINE_PAGE].owner # "snapshot"
    BY <1>13, <1>t, <1>p DEF UnmapTrampoline, Free
  <2>2. \A i \in 1 .. loaded' : Restored(i)'
    BY <1>13, <1>t, <1>p, <2>1, OtherPagesStay DEF UnmapTrampoline
  <2> QED
    BY <1>13, <1>t, <1>e, <1>p, <2>1, <2>2 DEF UnmapTrampoline
<1> QED
  BY <1>1, <1>2, <1>3, <1>4, <1>5, <1>6, <1>7, <1>8, <1>9, <1>10, <1>11, <1>12, <1>13 DEF
       LoaderStep

\* The inductive invariant of the dump and the loader together.
THEOREM LoaderInvariant == Spec => []LoaderInv
<1>1. Init => LoaderInv
  BY LoaderInvInit
<1>2. LoaderInv /\ [Next]_vars => LoaderInv'
  <2> SUFFICES ASSUME LoaderInv, [Next]_vars PROVE LoaderInv'
    OBVIOUS
  <2>1. CASE DumpNext /\ UNCHANGED loaderVars
    BY <2>1, DumpStepKeeps
  <2>2. CASE ~Dumping /\ LoaderStep /\ UNCHANGED dumpVars
    BY <2>2, DumpFrame, TypeNext, PhaseNext, OffsetNext, MemoryNext, CpuNext DEF LoaderInv
  <2>3. CASE UNCHANGED vars
    <3>1. DumpInv' /\ FileInv'
      BY <2>3, DumpFrame DEF vars
    <3>2. UNCHANGED <<recs, disk, wpc>> /\ UNCHANGED loaderVars
      BY <2>3 DEF vars, dumpVars
    <3>3. LoaderTypeOK' /\ PhaseInv' /\ OffsetInv'
      BY <3>2 DEF LoaderInv, LoaderTypeOK, PhaseInv, OffsetInv, loaderVars, MemPhase, CpuPhase,
                  GdtPhase, Dumping, Offset, Rec
    <3>4. MemoryInv'
      BY <3>2 DEF LoaderInv, MemoryInv, loaderVars, MemPhase, CpuPhase, GdtPhase, Rec, Restored
    <3>5. CpuInv'
      BY <3>2 DEF LoaderInv, CpuInv, loaderVars, GdtPhase, state, Seg, CanLoad
    <3> QED
      BY <3>1, <3>3, <3>4, <3>5 DEF LoaderInv
  <2> QED
    BY <2>1, <2>2, <2>3 DEF Next
<1> QED
  BY <1>1, <1>2, PTL DEF Spec

-----------------------------------------------------------------------------
(* What follows                                                            *)

\* Every variable of the loader keeps its type; it never reads beyond the end of the file.
THEOREM LoaderTypeCorrect == Spec => []LoaderTypeOK
<1>1. LoaderInv => LoaderTypeOK
  BY DEF LoaderInv
<1> QED
  BY <1>1, LoaderInvariant, PTL

\* Wherever the file was cut, no mapping is restored in part, and no content ends up in a
\* page it does not belong to (NoPartialMapping).
THEOREM WholeMappingsOnly == Spec => []NoPartialMapping
<1>1. ASSUME LoaderInv, result = "entry"
      PROVE  /\ disk = Offset(loaded)
             /\ \A i \in 1 .. loaded : Len(recs[i].data) = Size(recs[i].map)
  BY <1>1 DEF LoaderInv, OffsetInv, CpuPhase, GdtPhase
<1>2. ASSUME LoaderInv, result = "entry", NEW p \in EPage, emem[p].owner = "snapshot"
      PROVE  emem[p].data \in {Zero} \cup [page : {p}, ver : 0 .. MaxChanges]
  <2>1. lpc = "returned"
    BY <1>2 DEF LoaderInv, LoaderTypeOK
  <2>2. PICK i \in 1 .. loaded : p \in Pages(recs[i].map)
    BY <1>2, <2>1 DEF LoaderInv, MemoryInv, CpuPhase, GdtPhase
  <2>3. DumpTypeOK /\ NoForeignContent /\ i \in DOMAIN recs
    BY <1>2, LoadedPages DEF LoaderInv, DumpInv
  <2> DEFINE j == p - recs[i].map.start + 1
  <2>4. recs[i].map \in Mapping /\ p \in Int
    BY <1>2, <2>2, <2>3, RecordsFacts, LoadedPages, MappingFields, DumpAssumption DEF Page
  <2>5. DOMAIN recs[i].data = 1 .. Size(recs[i].map)
    BY <1>1, <1>2, <2>2, <2>3, RecordsFacts
  <2>6. j \in DOMAIN recs[i].data /\ recs[i].map.start + j - 1 = p
    BY <2>2, <2>4, <2>5, MappingFields DEF Size, Pages
  <2>7. emem[p].data = recs[i].data[j]
    <3>1. Restored(i)
      BY <1>2, <2>2 DEF LoaderInv, MemoryInv, CpuPhase, GdtPhase
    <3>2. emem[p] = Loaded(recs[i].map.prot, recs[i].data[j])
      BY <2>2, <3>1 DEF Restored, Loaded
    <3> QED
      BY <3>2, LoadedFields
  <2>8. recs[i].data[j] \in Cell
    <3>1. recs[i].data \in Seq(Cell)
      BY <2>3, RecordsFacts
    <3> QED
      BY <2>3, <2>6, <3>1, RecordsFacts, ElementOfSeq
  <2>9. recs[i].data[j] = Zero \/ recs[i].data[j].page = p
    BY <2>3, <2>6 DEF NoForeignContent
  <2>10. p >= 0
    BY <2>2, <2>4, MappingFields
  <2> HIDE DEF j
  <2> QED
    BY <2>4, <2>7, <2>8, <2>9, <2>10 DEF Cell, Garbage
<1>3. LoaderInv => NoPartialMapping
  BY <1>1, <1>2 DEF NoPartialMapping, Offset
<1> QED
  BY <1>3, LoaderInvariant, PTL

\* Apart from the snapshot and the read-only table, the emulator has what its owner had
\* mapped, unless it was Qiling (NoScaffoldingLeft).
THEOREM ScaffoldingRemoved == Spec => []NoScaffoldingLeft
<1>1. ASSUME LoaderInv, result = "entry", NEW p \in EPage
      PROVE  /\ p = PB_GDT_PAGE => emem[p].owner = "gdt" /\ emem[p].prot = {"r"}
             /\ p # PB_GDT_PAGE => \/ emem[p].owner \in {"snapshot", "free"}
                                   \/ emem[p].owner = "host" /\ api = "restore"
  <2>1. lpc = "returned" /\ GdtPhase /\ CpuPhase
    BY <1>1 DEF LoaderInv, LoaderTypeOK, CpuPhase, GdtPhase
  <2>2. emem[p].owner \in {"free", "host", "snapshot", "gdt", "trampoline"}
    BY <1>1 DEF LoaderInv, LoaderTypeOK
  <2> QED
    BY <1>1, <2>1, <2>2 DEF LoaderInv, MemoryInv
<1>2. LoaderInv => NoScaffoldingLeft
  BY <1>1 DEF NoScaffoldingLeft
<1> QED
  BY <1>2, LoaderInvariant, PTL

\* The emulator has every mapping of the target that stayed as it was during the dump,
\* with its content and its permissions (EndToEnd).
THEOREM RestoredEndToEnd == Spec => []EndToEnd
<1>1. ASSUME LoaderInv, result = "entry", wpc = "done", alive, NEW v \in vmas,
             v.kind = "plain", CanRead(v), Pages(v) \cap touched = {}, NEW p \in Pages(v)
      PROVE  emem[p] = [owner |-> "snapshot", prot |-> v.prot, data |-> Content(p)]
  <2>1. DumpInv /\ DumpTypeOK /\ Len(recs) \in Nat /\ DOMAIN recs = 1 .. Len(recs)
    BY <1>1, RecordsFacts DEF LoaderInv, DumpInv
  <2>2. PICK i \in DOMAIN recs :
          recs[i].map = v /\ \A j \in 1 .. Size(v) : recs[i].data[j] = Content(v.start + j - 1)
    BY <1>1, <2>1, StableInFile DEF StableMappingsDumped
  <2>3. loaded = Len(recs)
    <3>1. disk = Offset(Len(recs)) /\ disk = Offset(loaded) /\ loaded \in 0 .. Len(recs)
      BY <1>1 DEF LoaderInv, FileInv, OffsetInv, CpuPhase, GdtPhase, LoaderTypeOK
    <3>2. loaded \in Nat /\ loaded <= Len(recs)
      BY <2>1, <3>1
    <3>3. ASSUME loaded < Len(recs) PROVE FALSE
      <4>1. loaded \in 0 .. (Len(recs) - 1)
        BY <2>1, <3>2, <3>3
      <4>2. Offset(loaded) < Offset(Len(recs)) /\ Offset(loaded) \in Nat
        BY <2>1, <3>1, <4>1, OffsetFacts
      <4> QED
        BY <3>1, <4>2
    <3>4. Len(recs) \in Nat /\ ~(loaded < Len(recs))
      BY <2>1, <3>3
    <3> QED
      BY <3>2, <3>4
  <2>4. Restored(i)
    BY <1>1, <2>1, <2>2, <2>3 DEF LoaderInv, MemoryInv, CpuPhase, GdtPhase
  <2> DEFINE j == p - v.start + 1
  <2>5. v \in Mapping /\ p \in Int
    BY <1>1, <2>1, MappingFields, DumpAssumption DEF DumpTypeOK, Page
  <2>6. j \in 1 .. Size(v) /\ v.start + j - 1 = p
    BY <1>1, <2>5, MappingFields DEF Size, Pages
  <2>7. recs[i].data[j] = Content(p)
    BY <2>2, <2>6
  <2> QED
    BY <1>1, <2>2, <2>4, <2>7 DEF Restored
<1>2. LoaderInv => EndToEnd
  BY <1>1 DEF EndToEnd
<1> QED
  BY <1>2, LoaderInvariant, PTL

-----------------------------------------------------------------------------
(* The descriptor table                                                    *)

\* The TLS descriptors are captured as the kernel keeps them.
LEMMA CapturedTls ==
  ASSUME NEW t \in Threads, t.arch = "i386"
  PROVE  LET tls == CaptureTls(t.areas)
         IN  /\ DOMAIN tls = 1 .. GDT_ENTRY_TLS_ENTRIES
             /\ {tls[j].entry_number : j \in DOMAIN tls} = DOMAIN t.areas
             /\ \A e \in DOMAIN t.areas :
                  tls[CHOOSE j \in DOMAIN tls : tls[j].entry_number = e].desc = t.areas[e]
<1> DEFINE tls == CaptureTls(t.areas)
<1>1. PICK first \in {6, 12} : DOMAIN t.areas = first .. (first + 2)
  BY ThreadsAssumption DEF GDT_ENTRY_TLS_MIN_TRUE_I386, GDT_ENTRY_TLS_MIN_COMP_MODE,
                           GDT_ENTRY_TLS_ENTRIES
<1>2. tls = [j \in 1 .. 3 |-> [entry_number |-> first + j - 1, desc |-> t.areas[first + j - 1]]]
  BY <1>1 DEF CaptureTls, GDT_ENTRY_TLS_MIN_TRUE_I386, GDT_ENTRY_TLS_MIN_COMP_MODE,
              GDT_ENTRY_TLS_ENTRIES
<1> HIDE DEF tls
<1>3. DOMAIN tls = 1 .. 3 /\ \A j \in 1 .. 3 : /\ tls[j].entry_number = first + j - 1
                                             /\ tls[j].desc = t.areas[first + j - 1]
  BY <1>2
<1>4. {tls[j].entry_number : j \in DOMAIN tls} = DOMAIN t.areas
  <2>1. \A e \in DOMAIN t.areas : e - first + 1 \in 1 .. 3 /\ first + (e - first + 1) - 1 = e
    BY <1>1
  <2>2. \A j \in 1 .. 3 : first + j - 1 \in DOMAIN t.areas
    BY <1>1
  <2> QED
    BY <1>3, <2>1, <2>2
<1>5. ASSUME NEW e \in DOMAIN t.areas
      PROVE  tls[CHOOSE j \in DOMAIN tls : tls[j].entry_number = e].desc = t.areas[e]
  <2> DEFINE k == CHOOSE j \in DOMAIN tls : tls[j].entry_number = e
  <2>1. e - first + 1 \in 1 .. 3 /\ first + (e - first + 1) - 1 = e
    BY <1>1
  <2>2. k \in DOMAIN tls /\ tls[k].entry_number = e
    BY <1>3, <2>1
  <2> HIDE DEF k
  <2>3. tls[k].desc = t.areas[e]
    BY <1>3, <2>2
  <2> QED
    BY <2>3 DEF k
<1> QED
  BY <1>3, <1>4, <1>5 DEF tls, GDT_ENTRY_TLS_ENTRIES

\* The table has the code and the stack segment, and on i386 the TLS descriptors.
LEMMA TableEntries ==
  ASSUME NEW t \in Threads
  PROVE  LET s     == Capture(t)
             areas == IF t.arch = "i386" THEN DOMAIN t.areas ELSE {}
         IN  /\ DOMAIN Gdt(s) = {t.sel["cs"].index, t.sel["ss"].index} \cup areas
             /\ \A e \in areas : Gdt(s)[e] = USER_DESC_TO_REAL_DESC(t.areas[e])
             /\ \A e \in DOMAIN Gdt(s) \ areas :
                  Gdt(s)[e] = IF e = t.sel["ss"].index THEN DataDesc(s) ELSE CodeDesc(s)
<1> DEFINE s == Capture(t)
           tls == {s.tls[j].entry_number : j \in DOMAIN s.tls}
           areas == IF t.arch = "i386" THEN DOMAIN t.areas ELSE {}
<1>1. s.sel = t.sel /\ s.tls = IF t.arch = "i386" THEN CaptureTls(t.areas) ELSE <<>>
  BY DEF Capture
<1>2. tls = areas
  <2>1. CASE t.arch = "i386"
    BY <1>1, <2>1, CapturedTls
  <2>2. CASE t.arch # "i386"
    BY <1>1, <2>2, EmptySeq, LenProperties
  <2> QED
    BY <2>1, <2>2
<1>3. ASSUME NEW e \in areas
      PROVE  s.tls[CHOOSE j \in DOMAIN s.tls : s.tls[j].entry_number = e].desc = t.areas[e]
  <2>1. t.arch = "i386" /\ e \in DOMAIN t.areas /\ s.tls = CaptureTls(t.areas)
    BY <1>1
  <2> HIDE DEF s
  <2>2. LET z == CaptureTls(t.areas)
        IN  z[CHOOSE j \in DOMAIN z : z[j].entry_number = e].desc = t.areas[e]
    BY <2>1, CapturedTls
  <2> QED
    BY <2>1, <2>2
<1> HIDE DEF s
<1>4. Gdt(s) = [e \in {t.sel["cs"].index, t.sel["ss"].index} \cup tls |->
                  IF e \in tls
                  THEN USER_DESC_TO_REAL_DESC(
                         s.tls[CHOOSE j \in DOMAIN s.tls : s.tls[j].entry_number = e].desc)
                  ELSE IF e = t.sel["ss"].index THEN DataDesc(s) ELSE CodeDesc(s)]
  BY <1>1 DEF Gdt
<1> HIDE DEF tls, areas
<1>5. /\ DOMAIN Gdt(s) = {t.sel["cs"].index, t.sel["ss"].index} \cup areas
      /\ \A e \in areas : Gdt(s)[e] = USER_DESC_TO_REAL_DESC(t.areas[e])
      /\ \A e \in DOMAIN Gdt(s) \ areas :
           Gdt(s)[e] = IF e = t.sel["ss"].index THEN DataDesc(s) ELSE CodeDesc(s)
  BY <1>2, <1>3, <1>4
<1> QED
  BY <1>5 DEF s, areas

\* The flat segments: from 0, 4 GiB in pages; the code segment of 32 or of 64 bits.
LEMMA FlatSegments ==
  ASSUME NEW s, s.arch \in {"i386", "x86_64"}
  PROVE  /\ \A d \in {CodeDesc(s), DataDesc(s)} :
              BaseField(d) = {} /\ LimitField(d) = Limit4G /\ 55 \in d
         /\ 54 \in DataDesc(s) /\ 53 \notin DataDesc(s)
         /\ 53 \in CodeDesc(s) <=> s.arch = "x86_64"
         /\ 54 \in CodeDesc(s) <=> s.arch = "i386"
<1> DEFINE cf == (IF s.arch = "i386" THEN DESC_CODE32 ELSE DESC_CODE64) \cup DESC_USER
           df == (IF s.sel["cs"].index = 14 THEN DESC_DATA32 ELSE DESC_DATA64) \cup DESC_USER
<1> USE DEF DESC_CODE32, DESC_CODE64, DESC_DATA32, DESC_DATA64, DESC_USER, _DESC_CODE, _DESC_DATA,
            _DESC_S, _DESC_PRESENT, _DESC_ACCESSED, _DESC_CODE_READABLE, _DESC_CODE_EXECUTABLE,
            _DESC_DATA_WRITABLE, _DESC_GRANULARITY_4K, _DESC_DB, _DESC_LONG_CODE
<1>1. /\ cf \in SUBSET (0 .. 15) /\ df \in SUBSET (0 .. 15)
      /\ {} \in SUBSET (0 .. 31) /\ Limit4G \in SUBSET (0 .. 19)
  BY DEF Limit4G
<1>2. 15 \in cf /\ 15 \in df /\ 14 \in df /\ 13 \notin df
  OBVIOUS
<1>3. (13 \in cf <=> s.arch = "x86_64") /\ (14 \in cf <=> s.arch = "i386")
  OBVIOUS
<1>4. CodeDesc(s) = GDT_ENTRY_INIT(cf, {}, Limit4G) /\ DataDesc(s) = GDT_ENTRY_INIT(df, {}, Limit4G)
  BY DEF CodeDesc, DataDesc
<1> HIDE DEF cf, df
<1>5. ASSUME NEW f \in SUBSET (0 .. 15), NEW d, d = GDT_ENTRY_INIT(f, {}, Limit4G)
      PROVE  /\ BaseField(d) = {} /\ LimitField(d) = Limit4G
             /\ 53 \in d <=> 13 \in f
             /\ 54 \in d <=> 14 \in f
             /\ 55 \in d <=> 15 \in f
  BY <1>1, <1>5, FlatDescriptorFields
<1>6. /\ BaseField(CodeDesc(s)) = {} /\ LimitField(CodeDesc(s)) = Limit4G
      /\ 53 \in CodeDesc(s) <=> 13 \in cf
      /\ 54 \in CodeDesc(s) <=> 14 \in cf
      /\ 55 \in CodeDesc(s) <=> 15 \in cf
  BY <1>1, <1>4, <1>5
<1>7. /\ BaseField(DataDesc(s)) = {} /\ LimitField(DataDesc(s)) = Limit4G
      /\ 53 \in DataDesc(s) <=> 13 \in df
      /\ 54 \in DataDesc(s) <=> 14 \in df
      /\ 55 \in DataDesc(s) <=> 15 \in df
  BY <1>1, <1>4, <1>5
<1> QED
  BY <1>2, <1>3, <1>6, <1>7

\* A selector that can be loaded is null, or has its descriptor in the table: a TLS
\* descriptor, on i386 only, or a flat one.
LEMMA LoadedDescriptor ==
  ASSUME NEW t \in Threads, Supported(Capture(t)), NEW r \in SegRegs,
         Loadable(Gdt(Capture(t)), t.sel[r]), NEW e, e = t.sel[r].index,
         NEW d, d = Descriptor(Gdt(Capture(t)), t.sel[r])
  PROVE  /\ e \in DOMAIN t.areas => /\ t.arch = "i386" /\ e # 0
                                    /\ d = USER_DESC_TO_REAL_DESC(t.areas[e])
         /\ e \notin DOMAIN t.areas /\ e # 0 =>
              d = IF e = t.sel["ss"].index THEN DataDesc(Capture(t)) ELSE CodeDesc(Capture(t))
         /\ t.arch = "i386" => 0 \notin DOMAIN t.areas
<1> DEFINE s == Capture(t)
           areas == IF t.arch = "i386" THEN DOMAIN t.areas ELSE {}
<1>1. /\ DOMAIN Gdt(s) = {t.sel["cs"].index, t.sel["ss"].index} \cup areas
      /\ \A x \in areas : Gdt(s)[x] = USER_DESC_TO_REAL_DESC(t.areas[x])
      /\ \A x \in DOMAIN Gdt(s) \ areas :
           Gdt(s)[x] = IF x = t.sel["ss"].index THEN DataDesc(s) ELSE CodeDesc(s)
  BY TableEntries
<1>2. e # 0 => e \in DOMAIN Gdt(s) /\ d = Gdt(s)[e]
  BY DEF Loadable, Descriptor, Present
<1>3. t.arch = "i386" => DOMAIN t.areas = 6 .. 8 \/ DOMAIN t.areas = 12 .. 14
  BY ThreadsAssumption DEF GDT_ENTRY_TLS_MIN_TRUE_I386, GDT_ENTRY_TLS_MIN_COMP_MODE,
                           GDT_ENTRY_TLS_ENTRIES
<1>4. ASSUME t.arch # "i386"
      PROVE  /\ DOMAIN t.areas \subseteq 12 .. 14
             /\ t.sel["cs"].index = 6 /\ t.sel["ss"].index = 5
  <2>1. t.arch = "x86_64"
    BY <1>4, ThreadsAssumption
  <2>2. DOMAIN t.areas \subseteq 12 .. 14
    BY <1>4, ThreadsAssumption DEF GDT_ENTRY_TLS_MIN_TRUE_I386, GDT_ENTRY_TLS_MIN_COMP_MODE,
                                   GDT_ENTRY_TLS_ENTRIES
  <2>3. s.arch = t.arch /\ s.sel = t.sel
    BY DEF Capture
  <2>4. t.sel["cs"].index = 6 /\ t.sel["ss"].index = 5
    BY <2>1, <2>3 DEF Supported, Supported64
  <2> QED
    BY <2>2, <2>4
<1> HIDE DEF s
<1>5. CASE t.arch = "i386"
  <2>1. 0 \notin DOMAIN t.areas /\ areas = DOMAIN t.areas
    BY <1>3, <1>5
  <2> QED
    BY <1>1, <1>2, <1>5, <2>1 DEF s
<1>6. CASE t.arch # "i386"
  <2>1. areas = {} /\ e \notin DOMAIN t.areas
    BY <1>1, <1>2, <1>4, <1>6
  <2> QED
    BY <1>1, <1>2, <1>6, <2>1 DEF s
<1> QED
  BY <1>5, <1>6

\* What the processor has when the loader returns the entry point.
LEMMA AtEntry ==
  ASSUME LoaderInv, result = "entry"
  PROVE  /\ thread \in Threads /\ thread.arch \in {"i386", "x86_64"} /\ mode = thread.arch
         /\ gdtr = Gdt(Capture(thread)) /\ Supported(Capture(thread))
         /\ \A r \in DOMAIN ereg : ereg[r] = "thread"
         /\ \A r \in SegRegs : /\ Loadable(gdtr, thread.sel[r]) /\ ~thread.sel[r].ldt
                               /\ eseg[r].index = thread.sel[r].index /\ ~eseg[r].ldt
                               /\ \/ eseg[r].hidden = Hidden(gdtr, thread.sel[r])
                                  \/ /\ mode = "x86_64" /\ r \in {"fs", "gs"}
                                     /\ eseg[r].hidden = [Hidden(gdtr, thread.sel[r])
                                                            EXCEPT !.base = thread.base[r]]
         /\ \A r \in {"fs", "gs"} : mode = "x86_64" => eseg[r].hidden.base = thread.base[r]
<1>1. /\ thread \in Threads /\ thread.arch \in {"i386", "x86_64"} /\ mode = thread.arch
  BY ThreadsAssumption DEF LoaderInv, LoaderTypeOK, PhaseInv, CpuPhase, GdtPhase
<1>2. /\ gdtr = Gdt(state) /\ Supported(state) /\ \A r \in DOMAIN ereg : ereg[r] = "thread"
      /\ CanLoad({"cs", "ss"}) /\ CanLoad(DataSegs)
      /\ \A r \in {"cs", "ss", "ds", "es"} : eseg[r] = Seg(r)
      /\ \A r \in {"fs", "gs"} : eseg[r] = IF mode = "i386" THEN Seg(r)
                                           ELSE [Seg(r) EXCEPT !.hidden.base = state.base[r]]
  BY DEF LoaderInv, CpuInv, GdtPhase
<1>3. /\ state.sel = thread.sel /\ state.arch = thread.arch
      /\ mode = "x86_64" => state.base = thread.base
  BY <1>1 DEF state, Capture
<1>4. \A r \in SegRegs : Loadable(gdtr, thread.sel[r]) /\ ~thread.sel[r].ldt
  <2>1. NoLdt(state)
    BY <1>2 DEF Supported, Supported32, Supported64
  <2> QED
    BY <1>2, <1>3, <2>1 DEF CanLoad, DataSegs, SegRegs, NoLdt
<1>5. ASSUME NEW r \in SegRegs
      PROVE  /\ Seg(r).index = thread.sel[r].index /\ ~Seg(r).ldt
             /\ Seg(r).hidden = Hidden(gdtr, thread.sel[r])
  BY <1>3, <1>4 DEF Seg
<1>6. ASSUME NEW r \in SegRegs, eseg[r] = Seg(r)
      PROVE  /\ eseg[r].index = thread.sel[r].index /\ ~eseg[r].ldt
             /\ eseg[r].hidden = Hidden(gdtr, thread.sel[r])
  BY <1>5, <1>6
<1>7. ASSUME NEW r \in {"fs", "gs"}, mode = "x86_64"
      PROVE  /\ eseg[r].index = thread.sel[r].index /\ ~eseg[r].ldt
             /\ eseg[r].hidden = [Hidden(gdtr, thread.sel[r]) EXCEPT !.base = thread.base[r]]
             /\ eseg[r].hidden.base = thread.base[r]
  <2>1. eseg[r] = [Seg(r) EXCEPT !.hidden.base = thread.base[r]]
    BY <1>2, <1>3, <1>7
  <2>2. Seg(r) = [index |-> thread.sel[r].index, ldt |-> thread.sel[r].ldt,
                  hidden |-> Hidden(gdtr, thread.sel[r])] /\ r \in SegRegs
    BY <1>3 DEF Seg, SegRegs
  <2> DEFINE h == Hidden(gdtr, thread.sel[r])
  <2>3. eseg[r] = [index |-> thread.sel[r].index, ldt |-> thread.sel[r].ldt,
                   hidden |-> [h EXCEPT !.base = thread.base[r]]]
    BY <2>1, <2>2
  <2>4. [h EXCEPT !.base = thread.base[r]].base = thread.base[r]
    BY DEF Hidden, Segment
  <2> HIDE DEF h
  <2>5. eseg[r].hidden = [h EXCEPT !.base = thread.base[r]]
    BY <2>3
  <2>6. eseg[r].index = thread.sel[r].index /\ eseg[r].ldt = thread.sel[r].ldt
    BY <2>3
  <2>7. ~eseg[r].ldt
    BY <1>4, <2>2, <2>6, Zenon
  <2>8. eseg[r].hidden.base = thread.base[r]
    BY <2>4, <2>5, Zenon
  <2> QED
    BY <2>5, <2>6, <2>7, <2>8, Zenon DEF h
<1>8. \A r \in SegRegs : r \in {"cs", "ss", "ds", "es"} \/ r \in {"fs", "gs"}
  BY DEF SegRegs
<1>9. ASSUME NEW r \in SegRegs
      PROVE  /\ eseg[r].index = thread.sel[r].index /\ ~eseg[r].ldt
             /\ \/ eseg[r].hidden = Hidden(gdtr, thread.sel[r])
                \/ /\ mode = "x86_64" /\ r \in {"fs", "gs"}
                   /\ eseg[r].hidden = [Hidden(gdtr, thread.sel[r]) EXCEPT !.base = thread.base[r]]
  <2>1. CASE eseg[r] = Seg(r)
    BY <1>6, <2>1
  <2>2. CASE r \in {"fs", "gs"} /\ mode = "x86_64"
    BY <1>7, <2>2
  <2> QED
    BY <1>1, <1>2, <1>8, <2>1, <2>2
<1> QED
  BY <1>1, <1>2, <1>4, <1>7, <1>9 DEF state

\* The emulated processor continues as the captured thread, its thread-local storage
\* included (CpuRestored).
THEOREM ProcessorRestored == Spec => []CpuRestored
<1>1. ASSUME LoaderInv, result = "entry", NEW r \in {"fs", "gs"}
      PROVE  eseg[r].hidden.base = thread.base[r]
  <2> DEFINE t == thread
             e == t.sel[r].index
             d == Descriptor(gdtr, t.sel[r])
  <2>1. CASE mode = "x86_64"
    BY <1>1, <2>1, AtEntry
  <2>2. CASE mode = "i386"
    <3>1. /\ t \in Threads /\ t.arch = "i386" /\ r \in SegRegs /\ ~t.sel[r].ldt
          /\ gdtr = Gdt(Capture(t)) /\ Supported(Capture(t)) /\ Loadable(gdtr, t.sel[r])
          /\ eseg[r].hidden = Hidden(gdtr, t.sel[r])
      <4>1. r \in SegRegs
        BY DEF SegRegs
      <4> QED
        BY <1>1, <2>2, <4>1, AtEntry
    <3>2. t.base[r] = IF e \in DOMAIN t.areas THEN t.areas[e].base_addr ELSE {}
      BY <3>1, ThreadsAssumption
    <3>3. eseg[r].hidden.base = BaseField(IF e = 0 THEN {} ELSE d)
      BY <3>1 DEF Hidden, Segment
    <3>4. CASE e \in DOMAIN t.areas
      <4>1. e # 0 /\ d = USER_DESC_TO_REAL_DESC(t.areas[e]) /\ t.areas[e] \in UserDesc
        BY <3>1, <3>4, LoadedDescriptor, ThreadsAssumption
      <4>2. BaseField(d) = t.areas[e].base_addr
        BY <4>1, TlsDescriptorSurvives
      <4> QED
        BY <3>2, <3>3, <3>4, <4>1, <4>2
    <3>5. CASE e \notin DOMAIN t.areas /\ e # 0
      <4>1. d \in {CodeDesc(Capture(t)), DataDesc(Capture(t))}
        BY <3>1, <3>5, LoadedDescriptor
      <4>2. Capture(t).arch \in {"i386", "x86_64"}
        BY <3>1 DEF Capture
      <4>3. BaseField(d) = {}
        BY <4>1, <4>2, FlatSegments
      <4> QED
        BY <3>2, <3>3, <3>5, <4>3
    <3>6. CASE e \notin DOMAIN t.areas /\ e = 0
      <4>1. BaseField({}) = {}
        BY DEF BaseField, Field
      <4> QED
        BY <3>2, <3>3, <3>6, <4>1
    <3> QED
      BY <3>4, <3>5, <3>6
  <2> QED
    BY <1>1, <2>1, <2>2, AtEntry
<1>2. LoaderInv => CpuRestored
  BY <1>1, AtEntry DEF CpuRestored
<1> QED
  BY <1>2, LoaderInvariant, PTL

\* It runs in the mode and with the segments of the captured thread (SegmentsRestored).
THEOREM SegmentsKept == Spec => []SegmentsRestored
<1>1. ASSUME LoaderInv, result = "entry", NEW r \in SegRegs, NEW e, e = thread.sel[r].index,
             NEW d, d = Descriptor(gdtr, thread.sel[r])
      PROVE  /\ e # 0 => LET h == eseg[r].hidden
                         IN  /\ h.limit = LimitField(d) /\ h.type = TypeField(d)
                             /\ h.long <=> 53 \in d
                             /\ h.big <=> 54 \in d
                             /\ h.pages <=> 55 \in d
             /\ e # 0 /\ r \notin {"fs", "gs"} => eseg[r].hidden.base = BaseField(d)
  <2> SUFFICES ASSUME e # 0
               PROVE  /\ LET h == eseg[r].hidden
                         IN  /\ h.limit = LimitField(d) /\ h.type = TypeField(d)
                             /\ h.long <=> 53 \in d
                             /\ h.big <=> 54 \in d
                             /\ h.pages <=> 55 \in d
                      /\ r \notin {"fs", "gs"} => eseg[r].hidden.base = BaseField(d)
    OBVIOUS
  <2>1. Hidden(gdtr, thread.sel[r]) = Segment(d)
    BY <1>1 DEF Hidden
  <2>2. \/ eseg[r].hidden = Segment(d)
        \/ r \in {"fs", "gs"} /\ eseg[r].hidden = [Segment(d) EXCEPT !.base = thread.base[r]]
    BY <1>1, <2>1, AtEntry
  <2> DEFINE S == Segment(d)
  <2>3. /\ S.base = BaseField(d) /\ S.limit = LimitField(d) /\ S.type = TypeField(d)
        /\ S.long = (53 \in d) /\ S.big = (54 \in d) /\ S.pages = (55 \in d)
    BY DEF Segment
  <2>4. ASSUME NEW x
        PROVE  /\ [S EXCEPT !.base = x].limit = S.limit /\ [S EXCEPT !.base = x].type = S.type
               /\ [S EXCEPT !.base = x].long = S.long /\ [S EXCEPT !.base = x].big = S.big
               /\ [S EXCEPT !.base = x].pages = S.pages
    BY DEF Segment
  <2> HIDE DEF S
  <2>5. CASE eseg[r].hidden = Segment(d)
    BY <2>3, <2>5, Zenon DEF S
  <2>6. CASE r \in {"fs", "gs"} /\ eseg[r].hidden = [Segment(d) EXCEPT !.base = thread.base[r]]
    BY <2>3, <2>4, <2>6, Zenon DEF S
  <2> QED
    BY <2>2, <2>5, <2>6
<1>2. ASSUME LoaderInv, result = "entry"
      PROVE  /\ eseg["cs"].hidden.long <=> thread.arch = "x86_64"
             /\ eseg["cs"].hidden.big <=> thread.arch = "i386"
             /\ \A r \in {"cs", "ss"} : thread.sel[r].index \notin DOMAIN thread.areas =>
                  /\ eseg[r].hidden.base = {}
                  /\ eseg[r].hidden.limit = Limit4G /\ eseg[r].hidden.pages
  <2> DEFINE t == thread
             s == Capture(t)
             D(r) == Descriptor(gdtr, t.sel[r])
  <2>1. /\ t \in Threads /\ t.arch \in {"i386", "x86_64"}
        /\ gdtr = Gdt(s) /\ Supported(s) /\ \A r \in SegRegs : Loadable(gdtr, t.sel[r])
    BY <1>2, AtEntry
  <2>2. s.arch = t.arch /\ s.sel = t.sel
    BY DEF Capture
  <2>3. /\ t.sel["cs"].index \notin DOMAIN t.areas /\ t.sel["cs"].index # 0
        /\ t.sel["ss"].index # 0
        /\ t.arch = "x86_64" => t.sel["cs"].index # t.sel["ss"].index
    BY <2>1, <2>2, ThreadsAssumption DEF Supported, Supported32, Supported64
  <2>4. {"cs", "ss"} \subseteq SegRegs /\ \A r \in {"cs", "ss"} : r \notin {"fs", "gs"}
    BY DEF SegRegs
  <2>5. ASSUME NEW r \in {"cs", "ss"}, t.sel[r].index \notin DOMAIN t.areas
        PROVE  D(r) = IF t.sel[r].index = t.sel["ss"].index THEN DataDesc(s) ELSE CodeDesc(s)
    BY <2>1, <2>3, <2>4, <2>5, LoadedDescriptor
  <2>6. /\ \A d \in {CodeDesc(s), DataDesc(s)} :
             BaseField(d) = {} /\ LimitField(d) = Limit4G /\ 55 \in d
        /\ 54 \in DataDesc(s) /\ 53 \notin DataDesc(s)
        /\ 53 \in CodeDesc(s) <=> t.arch = "x86_64"
        /\ 54 \in CodeDesc(s) <=> t.arch = "i386"
    BY <2>1, <2>2, FlatSegments
  <2> HIDE DEF s, D
  <2>7. ASSUME NEW r \in {"cs", "ss"}
        PROVE  /\ eseg[r].hidden.base = BaseField(D(r))
               /\ eseg[r].hidden.limit = LimitField(D(r))
               /\ eseg[r].hidden.long <=> 53 \in D(r)
               /\ eseg[r].hidden.big <=> 54 \in D(r)
               /\ eseg[r].hidden.pages <=> 55 \in D(r)
    BY <1>1, <1>2, <2>3, <2>4 DEF D
  <2>8. ASSUME NEW r \in {"cs", "ss"}, t.sel[r].index \notin DOMAIN t.areas
        PROVE  /\ eseg[r].hidden.base = {}
               /\ eseg[r].hidden.limit = Limit4G /\ eseg[r].hidden.pages
    BY <2>5, <2>6, <2>7, <2>8
  <2>9. /\ 53 \in D("cs") <=> t.arch = "x86_64"
        /\ 54 \in D("cs") <=> t.arch = "i386"
    BY <2>1, <2>3, <2>5, <2>6
  <2> QED
    BY <2>7, <2>8, <2>9
<1>3. ASSUME LoaderInv, result = "entry", NEW r \in SegRegs, NEW e, e = thread.sel[r].index,
             e \in DOMAIN thread.areas, NEW u, u = thread.areas[e], NEW h, h = eseg[r].hidden
      PROVE  /\ h.limit = u.limit
             /\ h.big <=> u.seg_32bit = {0}
             /\ h.pages <=> u.limit_in_pages = {0}
             /\ 1 \in h.type <=> u.read_exec_only = {}
  <2> DEFINE t == thread
             d == Descriptor(gdtr, t.sel[r])
  <2>1. /\ t \in Threads /\ gdtr = Gdt(Capture(t)) /\ Supported(Capture(t))
        /\ Loadable(gdtr, t.sel[r])
    BY <1>3, AtEntry
  <2>2. e # 0 /\ d = USER_DESC_TO_REAL_DESC(u) /\ u \in UserDesc
    BY <1>3, <2>1, LoadedDescriptor, ThreadsAssumption
  <2>3. /\ LimitField(d) = u.limit
        /\ TypeField(d) = {0} \cup Field(Flip(u.read_exec_only), 0, 0, 1)
                            \cup Field(u.contents, 0, 1, 2)
        /\ 54 \in d <=> u.seg_32bit = {0}
        /\ 55 \in d <=> u.limit_in_pages = {0}
    BY <2>2, TlsDescriptorSurvives
  <2> HIDE DEF d
  <2>4. 1 \in TypeField(d) <=> u.read_exec_only = {}
    <3>1. u.read_exec_only \in SUBSET {0}
      BY <2>2 DEF UserDesc
    <3> QED
      BY <2>3, <3>1 DEF Field, Flip
  <2>5. /\ h.limit = LimitField(d) /\ h.type = TypeField(d)
        /\ h.big <=> 54 \in d
        /\ h.pages <=> 55 \in d
    BY <1>1, <1>3, <2>2 DEF d
  <2> QED
    BY <2>3, <2>4, <2>5
<1>4. LoaderInv => SegmentsRestored
  <2> SUFFICES ASSUME LoaderInv, result = "entry"
               PROVE  SegmentsRestored
    BY DEF SegmentsRestored
  <2>1. ASSUME NEW r \in SegRegs, thread.sel[r].index \in DOMAIN thread.areas
        PROVE  LET u == thread.areas[thread.sel[r].index]
                   h == eseg[r].hidden
               IN  /\ h.limit = u.limit
                   /\ h.big <=> u.seg_32bit = {0}
                   /\ h.pages <=> u.limit_in_pages = {0}
                   /\ 1 \in h.type <=> u.read_exec_only = {}
    BY <1>3, <2>1, Zenon
  <2> QED
    BY <1>2, <2>1, Zenon DEF SegmentsRestored
<1> QED
  BY <1>4, LoaderInvariant, PTL

-----------------------------------------------------------------------------
(* What the loader leaves alone                                            *)

\* From the first page it maps to its last call, pb_restore_snapshot changes only pages
\* that were free and pages of its own (NothingOverwritten).
THEOREM PagesLeftAlone == Spec => NothingOverwritten
<1> DEFINE Kept(p) == /\ lpc # "start"
                      /\ \/ emem[p].owner = "host"
                         \/ \E i \in 1 .. loaded : p \in Pages(recs[i].map)
<1>1. ASSUME LoaderInv, Next, NEW p \in EPage, Kept(p) PROVE emem'[p] = emem[p]
  <2> USE <1>1
  <2>1. ASSUME MemPhase \/ CpuPhase
        PROVE  emem[p].owner \in {"host", "snapshot"}
    <3>1. CASE emem[p].owner = "host"
      BY <3>1
    <3>2. ASSUME NEW i \in 1 .. loaded, p \in Pages(recs[i].map)
          PROVE  emem[p].owner = "snapshot"
      <4>1. Restored(i)
        BY <2>1, <3>2 DEF LoaderInv, MemoryInv
      <4>2. \E t, d : emem[p] = Loaded(t, d)
        BY <3>2, <4>1 DEF Restored, Loaded
      <4> QED
        BY <4>2, LoadedFields
    <3> QED
      BY <3>1, <3>2
  <2>2. ASSUME lpc \in {"content", "protect"} PROVE p \notin Pages(Rec.map)
    <3>1. \A i \in 1 .. loaded : Pages(recs[i].map) \cap Pages(Rec.map) = {}
      BY <2>2, RecFacts
    <3>2. p \in Pages(Rec.map) => emem[p].owner = "snapshot"
      <4>1. p \in Pages(Rec.map) => \E t, d : emem[p] = Loaded(t, d)
        BY <2>2 DEF LoaderInv, MemoryInv, Loaded
      <4> QED
        BY <4>1, LoadedFields
    <3> QED
      BY <3>1, <3>2
  <2>3. emem \in [EPage -> Location]
    BY DEF LoaderInv, PhaseInv
  <2>4. CASE DumpNext /\ UNCHANGED loaderVars
    BY <2>4 DEF loaderVars
  <2>5. CASE \/ Die \/ CreateUnsupported \/ StartRestore \/ ReadState \/ ReadEntry
             \/ WriteGeneral32 \/ WriteGeneral64 \/ Iret \/ WriteCodeStack
             \/ WriteData32 \/ WriteData64 \/ WriteBases \/ ReadEntryPoint
    BY <2>5 DEF Die, CreateUnsupported, StartRestore, ReadState, ReadEntry, WriteGeneral32,
                WriteGeneral64, Iret, WriteCodeStack, WriteData32, WriteData64, WriteBases,
                ReadEntryPoint
  <2>6. CASE UnmapQiling
    BY <2>6 DEF UnmapQiling, LGoto
  <2>7. CASE MapMapping \/ MapGdt \/ MapTrampoline
    <3>1. emem[p] # Free
      BY <2>1, <2>7 DEF MapMapping, MapGdt, MapTrampoline, LGoto, MemPhase, CpuPhase, GdtPhase,
                        Free
    <3> QED
      BY <2>3, <2>7, <3>1 DEF MapMapping, MapGdt, MapTrampoline
  <2>8. CASE WriteMapping \/ ProtectMapping
    BY <2>2, <2>8 DEF WriteMapping, ProtectMapping, LGoto
  <2>9. CASE WriteGdt
    <3>1. emem[PB_GDT_PAGE].owner = "gdt" /\ (MemPhase \/ CpuPhase)
      BY <2>9 DEF WriteGdt, LGoto, LoaderInv, MemoryInv, CpuPhase
    <3> QED
      BY <2>1, <2>3, <2>9, <3>1 DEF WriteGdt
  <2>10. CASE UnmapTrampoline
    <3>1. emem[PB_TRAMPOLINE_PAGE].owner = "trampoline" /\ (MemPhase \/ CpuPhase)
      BY <2>10 DEF UnmapTrampoline, LGoto, LoaderInv, MemoryInv, CpuPhase, GdtPhase
    <3> QED
      BY <2>1, <2>3, <2>10, <3>1 DEF UnmapTrampoline
  <2> QED
    BY <2>4, <2>5, <2>6, <2>7, <2>8, <2>9, <2>10 DEF Next, LoaderStep
<1>2. LoaderInv /\ [Next]_vars
        => [\A p \in EPage :
              (/\ lpc # "start"
               /\ emem[p].owner = "host" \/ \E i \in 1 .. loaded : p \in Pages(recs[i].map))
                => emem'[p] = emem[p]]_vars
  BY <1>1
<1> QED
  BY <1>2, LoaderInvariant, PTL DEF Spec, NothingOverwritten

=============================================================================
