---------------------------- MODULE MappingDump -----------------------------
(***************************************************************************)
(* The writer of a snapshot: dump_snapshot (linux/snapshot_dump.c),        *)
(* dump_mappings_content (linux/mappings_reader.c) and the iterator over   *)
(* /proc/<pid>/maps (linux/maps_parser.c).                                 *)
(*                                                                         *)
(* Only the thread that hit the breakpoint is stopped: the other threads   *)
(* of the target keep storing, mapping, unmapping and changing protections *)
(* while their memory is read, and the whole target may be killed.         *)
(*                                                                         *)
(* Addresses and sizes are in pages.  The content of a page is its address *)
(* with a version, so that a page can be told from every other page and    *)
(* from its own past; Zero is a page of zeros.                             *)
(***************************************************************************)
EXTENDS Integers, Sequences

CONSTANTS
  LastPage,    \* pages are 0..LastPage
  BUFFER_SIZE, \* pages that local_buffer holds
  BatchSize,   \* bound: lines of /proc/<pid>/maps that one read() returns
  Layouts,     \* sets of mappings the target may have at the breakpoint
  StateSize,   \* sizeof(process_state_t), in units of the file
  EntrySize,   \* sizeof(maps_entry_t), in units of the file
  MaxChanges   \* bound: changes that other threads make during the dump

Page == 0 .. LastPage

\* A line of /proc/<pid>/maps.  "special" stands for the three path names that
\* are skipped, "device" for a readable mapping that process_vm_readv refuses.
Mapping == [start : Page, end : 1 .. (LastPage + 1), prot : SUBSET {"r", "w", "x"},
            kind : {"plain", "special", "device"}]

Disjoint(v, w) == v.end <= w.start \/ w.end <= v.start

ASSUME DumpAssumption ==
  /\ LastPage \in Nat /\ BUFFER_SIZE \in Nat \ {0} /\ BatchSize \in Nat \ {0}
  /\ StateSize \in Nat \ {0} /\ EntrySize \in Nat \ {0} /\ MaxChanges \in Nat
  /\ Layouts \subseteq SUBSET Mapping
  /\ \A L \in Layouts : \A v, w \in L :
       v.start < v.end /\ (v # w => Disjoint(v, w))

VARIABLES
  wpc,      \* where dump_snapshot is
  vmas,     \* the target's mappings
  version,  \* version[p]: how often page p was written
  alive,    \* the target has not been killed
  lines,    \* lines of the maps file that stdio has buffered
  listed,   \* the maps file was read up to this address
  entry,    \* maps_iter_t.entry: the mapping being dumped
  address,  \* the page of it that is dumped next
  buffer,   \* local_buffer
  recs,     \* what was written after the state: a record per mapping
  disk,     \* units of it that are in the file
  touched,  \* history: pages that were written, mapped or unmapped meanwhile
  nchg      \* changes so far

targetVars == <<vmas, version, alive, touched, nchg>>
dumpVars == <<wpc, vmas, version, alive, lines, listed, entry, address, buffer,
              recs, disk, touched, nchg>>

Zero == [page |-> -1, ver |-> 0]
Garbage == [page |-> -2, ver |-> 0]   \* what malloc returns
Content(p) == [page |-> p, ver |-> version[p]]

Size(m) == m.end - m.start
Pages(m) == m.start .. (m.end - 1)
CanRead(m) == "r" \in m.prot

NoEntry == [start |-> 0, end |-> 1, prot |-> {}, kind |-> "plain"]

DumpInit ==
  /\ wpc = "header"
  /\ vmas \in Layouts
  /\ version = [p \in Page |-> 0]
  /\ alive = TRUE
  /\ lines = <<>>
  /\ listed = 0
  /\ entry = NoEntry
  /\ address = 0
  /\ buffer = [i \in 0 .. (BUFFER_SIZE - 1) |-> Garbage]
  /\ recs = <<>>
  /\ disk = 0
  /\ touched = {}
  /\ nchg = 0

-----------------------------------------------------------------------------
(* The file                                                                *)

\* Units a record takes when its content is written as far as it is.
RecordLength(r) == EntrySize + Len(r.data)

RecordsLength(rs) ==
  LET total[i \in 0 .. Len(rs)] ==
        IF i = 0 THEN 0 ELSE total[i - 1] + RecordLength(rs[i])
  IN  total[Len(rs)]

Written == IF wpc = "header" THEN 0 ELSE StateSize + RecordsLength(recs)

\* fopen truncated the file; fwrite passes the state to stdio.
WriteHeader ==
  /\ wpc = "header"
  /\ wpc' = "next"
  /\ UNCHANGED <<targetVars, lines, listed, entry, address, buffer, recs, disk>>

-----------------------------------------------------------------------------
(* next(): the maps iterator                                               *)

\* The mappings that the kernel has yet to list, by address.  It never goes
\* back (its documentation of the file promises that mapped addresses do not): of a
\* mapping that has grown below what it already listed, only the rest is shown.  A dead
\* process has none.
Unlisted ==
  {[v EXCEPT !.start = IF @ < listed THEN listed ELSE @] :
     v \in {w \in vmas : alive /\ w.end > listed}}

\* The first n of a set of disjoint mappings, by address: one sequence, or none when
\* there are fewer.
FirstLines(S, n) ==
  {s \in [1 .. n -> S] :
    /\ \A i, j \in 1 .. n : i < j => s[i].end <= s[j].start
    /\ \A v \in S \ {s[i] : i \in 1 .. n} : s[n].end <= v.start}

\* getline has no buffered line: read() takes some more lines at once.
FetchLines ==
  /\ wpc = "next"
  /\ lines = <<>>
  /\ \E n \in 1 .. BatchSize :
       /\ lines' \in FirstLines(Unlisted, n)
       /\ listed' = lines'[n].end
  /\ UNCHANGED <<targetVars, wpc, entry, address, buffer, recs, disk>>

\* Mutant: the loop ends at a mapping that is to be skipped.
BreakAtSpecial ==
  /\ wpc = "next"
  /\ lines # <<>>
  /\ Head(lines).kind = "special"
  /\ wpc' = "done"
  /\ disk' = Written
  /\ UNCHANGED <<targetVars, lines, listed, entry, address, buffer, recs>>

\* Mutant: the name is looked at again and again.
SkipNothing ==
  /\ wpc = "next"
  /\ lines # <<>>
  /\ Head(lines).kind = "special"
  /\ entry' = Head(lines)
  /\ UNCHANGED <<targetVars, wpc, lines, listed, address, buffer, recs, disk>>

\* The name is one of [vvar], [vsyscall] and [vvar_vclock]: continue.
SkipMapping ==
  /\ wpc = "next"
  /\ lines # <<>>
  /\ Head(lines).kind = "special"
  /\ entry' = Head(lines)
  /\ lines' = Tail(lines)
  /\ UNCHANGED <<targetVars, wpc, listed, address, buffer, recs, disk>>

-----------------------------------------------------------------------------
(* dump_mappings_content                                                   *)

Least(a, b) == IF a < b THEN a ELSE b

Cleared(n) ==
  [i \in 0 .. (BUFFER_SIZE - 1) |-> IF i < n THEN Zero ELSE buffer[i]]

\* Mutant: the buffer is not cleared for a mapping that may not be read.
StartMappingDirty ==
  /\ wpc = "next"
  /\ lines # <<>>
  /\ Head(lines).kind # "special"
  /\ entry' = Head(lines)
  /\ lines' = Tail(lines)
  /\ address' = entry'.start
  /\ recs' = Append(recs, [map |-> entry', data |-> <<>>])
  /\ wpc' = IF CanRead(entry') THEN "read" ELSE "write"
  /\ UNCHANGED <<targetVars, listed, buffer, disk>>

\* The entry is written; a mapping that may not be read is written as zeros.
StartMapping ==
  /\ wpc = "next"
  /\ lines # <<>>
  /\ Head(lines).kind # "special"
  /\ entry' = Head(lines)
  /\ lines' = Tail(lines)
  /\ address' = entry'.start
  /\ recs' = Append(recs, [map |-> entry', data |-> <<>>])
  /\ buffer' = IF CanRead(entry') THEN buffer ELSE Cleared(Least(BUFFER_SIZE, Size(entry')))
  /\ wpc' = IF CanRead(entry') THEN "read" ELSE "write"
  /\ UNCHANGED <<targetVars, listed, disk>>

\* Mutant: every chunk is as large as the buffer.
FullChunk == BUFFER_SIZE

Chunk == Least(entry.end - address, BUFFER_SIZE)

Readable(p) == \E v \in vmas : p \in Pages(v) /\ CanRead(v) /\ v.kind # "device"

\* Mutant: a page that can no longer be read ends the read without the memset.
ReadChunkStale ==
  /\ wpc = "read"
  /\ wpc' = "write"
  /\ buffer' = [i \in DOMAIN buffer |->
                  IF i < Chunk /\ alive /\ Readable(address + i)
                  THEN Content(address + i) ELSE buffer[i]]
  /\ UNCHANGED <<targetVars, lines, listed, entry, address, recs, disk>>

\* Mutant: a chunk that cannot be read is left out of the file.
OmitChunk ==
  /\ wpc = "read"
  /\ IF alive /\ \A i \in 0 .. (Chunk - 1) : Readable(address + i)
     THEN /\ wpc' = "write"
          /\ buffer' = [i \in DOMAIN buffer |->
                          IF i < Chunk THEN Content(address + i) ELSE buffer[i]]
          /\ UNCHANGED address
     ELSE /\ address' = address + Chunk
          /\ wpc' = IF address' = entry.end THEN "next" ELSE "read"
          /\ UNCHANGED buffer
  /\ UNCHANGED <<targetVars, lines, listed, entry, recs, disk>>

\* process_vm_readv: a chunk of which a page is missing, or of a target that is
\* dead, is replaced by zeros as a whole.
ReadChunk ==
  /\ wpc = "read"
  /\ wpc' = "write"
  /\ buffer' = IF alive /\ \A i \in 0 .. (Chunk - 1) : Readable(address + i)
               THEN [i \in DOMAIN buffer |->
                       IF i < Chunk THEN Content(address + i) ELSE buffer[i]]
               ELSE Cleared(Chunk)
  /\ UNCHANGED <<targetVars, lines, listed, entry, address, recs, disk>>

WriteChunk ==
  /\ wpc = "write"
  /\ recs' = [recs EXCEPT ![Len(recs)].data = @ \o [i \in 1 .. Chunk |-> buffer[i - 1]]]
  /\ address' = address + Chunk
  /\ wpc' = IF address' = entry.end THEN "next"
            ELSE IF CanRead(entry) THEN "read" ELSE "write"
  /\ UNCHANGED <<targetVars, lines, listed, entry, buffer, disk>>

\* next() returns NULL; fflush and fclose put everything into the file.
FinishDump ==
  /\ wpc = "next"
  /\ lines = <<>>
  /\ Unlisted = {}
  /\ wpc' = "done"
  /\ disk' = Written
  /\ UNCHANGED <<targetVars, lines, listed, entry, address, buffer, recs>>

\* An fwrite, fflush or fclose fails, the maps file cannot be read, or the
\* snapshotter is killed: some of what was written so far is in the file, which fopen has
\* emptied before.  (That fopen fails, and leaves an older file alone, is in Tracer.)
AbortDump ==
  /\ wpc # "done" /\ wpc # "aborted"
  /\ wpc' = "aborted"
  /\ disk' \in 0 .. Written
  /\ UNCHANGED <<targetVars, lines, listed, entry, address, buffer, recs>>

WriterStep ==
  \/ WriteHeader \/ FetchLines \/ SkipMapping \/ StartMapping
  \/ ReadChunk \/ WriteChunk \/ FinishDump

Writer == WriterStep \/ AbortDump

-----------------------------------------------------------------------------
(* The target's other threads                                              *)

Dumping == wpc # "done" /\ wpc # "aborted"

Change(ps) ==
  /\ Dumping
  /\ alive
  /\ nchg < MaxChanges
  /\ nchg' = nchg + 1
  /\ touched' = touched \cup ps
  /\ UNCHANGED <<wpc, lines, listed, entry, address, buffer, recs, disk>>

StorePage ==
  \E v \in vmas : \E p \in Pages(v) :
    /\ Change({p})
    /\ version' = [version EXCEPT ![p] = @ + 1]
    /\ UNCHANGED <<vmas, alive>>

Munmap ==
  \E v \in vmas :
    /\ Change(Pages(v))
    /\ vmas' = vmas \ {v}
    /\ UNCHANGED <<version, alive>>

\* A fresh page is mapped where nothing was.
Mmap ==
  \E p \in Page :
    /\ \A v \in vmas : p \notin Pages(v)
    /\ Change({p})
    /\ vmas' = vmas \cup {[start |-> p, end |-> p + 1, prot |-> {"r", "w"}, kind |-> "plain"]}
    /\ version' = [version EXCEPT ![p] = @ + 1]
    /\ UNCHANGED alive

\* A mapping becomes longer by a page, at either end: a stack or heap grows, or the kernel
\* merges a fresh mapping with the one next to it.
Grow ==
  \E v \in vmas, p \in Page :
    /\ v.kind = "plain"
    /\ \A w \in vmas : p \notin Pages(w)
    /\ Change({p})
    /\ \/ p = v.end /\ vmas' = (vmas \ {v}) \cup {[v EXCEPT !.end = p + 1]}
       \/ p + 1 = v.start /\ vmas' = (vmas \ {v}) \cup {[v EXCEPT !.start = p]}
    /\ version' = [version EXCEPT ![p] = @ + 1]
    /\ UNCHANGED alive

Mprotect ==
  \E v \in vmas :
    /\ Change(Pages(v))
    /\ vmas' = (vmas \ {v}) \cup {[v EXCEPT !.prot = IF "r" \in @ THEN @ \ {"r"} ELSE @ \cup {"r"}]}
    /\ UNCHANGED <<version, alive>>

\* vmas and version keep what it had.
TargetDies ==
  /\ Change({})
  /\ alive' = FALSE
  /\ UNCHANGED <<vmas, version>>

OtherThreads == StorePage \/ Munmap \/ Mmap \/ Grow \/ Mprotect \/ TargetDies

DumpNext == Writer \/ OtherThreads

DumpSpec == DumpInit /\ [][DumpNext]_dumpVars

\* The writer is a sequential program that waits for nobody: it always goes on.
FairDumpSpec == DumpSpec /\ WF_dumpVars(WriterStep)

-----------------------------------------------------------------------------
(* Properties                                                              *)

Cell == {Zero, Garbage} \cup [page : Page, ver : 0 .. MaxChanges]

\* Every variable has its type.
DumpTypeOK ==
  /\ wpc \in {"header", "next", "read", "write", "done", "aborted"}
  /\ vmas \subseteq Mapping
  /\ version \in [Page -> 0 .. MaxChanges]
  /\ alive \in BOOLEAN
  /\ lines \in Seq(Mapping)
  /\ listed \in 0 .. (LastPage + 1)
  /\ entry \in Mapping
  /\ address \in 0 .. (LastPage + 1)
  /\ buffer \in [0 .. (BUFFER_SIZE - 1) -> Cell]
  /\ recs \in Seq([map : Mapping, data : Seq(Cell)])
  /\ disk \in Nat
  /\ touched \subseteq Page
  /\ nchg \in 0 .. MaxChanges

\* The one buffer that all mappings share never carries content from one place
\* to another, nor what malloc left in it: what the file has for a page is a
\* content of that very page, or zeros (mappings_reader.c: memset of local_buffer
\* wherever it was not filled).
NoForeignContent ==
  \A i \in DOMAIN recs : \A j \in DOMAIN recs[i].data :
    recs[i].data[j] = Zero \/ recs[i].data[j].page = recs[i].map.start + j - 1

\* No page of a mapping without read permission gets into the file.
NothingUnreadable ==
  \A i \in DOMAIN recs :
    ~CanRead(recs[i].map) => \A j \in DOMAIN recs[i].data : recs[i].data[j] = Zero

\* A finished file is what the loader takes it for: each entry is followed by
\* exactly end - start of content, and entries are in order and do not overlap,
\* whatever the other threads did while the mappings were listed.
WellFormed ==
  wpc = "done" =>
    /\ \A i \in DOMAIN recs : Len(recs[i].data) = Size(recs[i].map)
    /\ \A i, j \in DOMAIN recs : i < j => recs[i].map.end <= recs[j].map.start

\* A mapping that nothing touched during the dump is in a finished file, once,
\* with the content it has, whatever happened to the mappings around it.  When the
\* target was killed meanwhile, which dump_mappings_content does not notice, this
\* holds of what had been listed by then, with zeros for what had not been read.
StableMappingsDumped ==
  wpc = "done" =>
    \A v \in vmas :
      (/\ v.kind = "plain" /\ CanRead(v) /\ Pages(v) \cap touched = {}
       /\ alive \/ v.end <= listed) =>
        \E i \in DOMAIN recs :
          /\ recs[i].map = v
          /\ Len(recs[i].data) = Size(v)
          /\ \A j \in 1 .. Size(v) :
               \/ recs[i].data[j] = Content(v.start + j - 1)
               \/ ~alive /\ recs[i].data[j] = Zero

\* A dump ends, although the mappings it lists come and go, and threads may map
\* more while it goes through them: every mapping is consumed, every chunk makes
\* progress, and the listing never returns to an address it has passed.
DumpEnds == <>(wpc \in {"done", "aborted"})

=============================================================================
