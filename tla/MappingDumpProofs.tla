-------------------------- MODULE MappingDumpProofs -------------------------
(***************************************************************************)
(* Proofs about MappingDump, for every memory layout, buffer size and      *)
(* number of changes by other threads.                                     *)
(***************************************************************************)
EXTENDS MappingDump, SequenceTheorems, WellFoundedInduction, TLAPS

\* The target's mappings: not empty, and disjoint.  A page's version is at most the
\* number of changes so far.
TargetInv ==
  /\ \A v \in vmas : v.start < v.end
  /\ \A v, w \in vmas : v # w => Disjoint(v, w)
  /\ \A p \in Page : version[p] <= nchg

\* Lines that stdio has buffered: mappings in order, of what was listed.
LinesInv ==
  /\ \A i \in DOMAIN lines : lines[i].start < lines[i].end /\ lines[i].end <= listed
  /\ \A i, j \in DOMAIN lines : i < j => lines[i].end <= lines[j].start

\* Records: in order, before every line that is left, complete but for the last.
RecordsInv ==
  /\ \A i \in DOMAIN recs : recs[i].map.end <= listed
  /\ \A i \in DOMAIN recs, j \in DOMAIN lines : recs[i].map.end <= lines[j].start
  /\ \A i, j \in DOMAIN recs : i < j => recs[i].map.end <= recs[j].map.start
  /\ \A i \in DOMAIN recs :
       i < Len(recs) \/ wpc \in {"header", "next", "done"} =>
         Len(recs[i].data) = Size(recs[i].map)

\* Where the writer is within a mapping, and what it has in the buffer.
Within == wpc \in {"read", "write"}

EntryInv ==
  Within =>
    /\ Len(recs) > 0 /\ recs[Len(recs)].map = entry
    /\ entry.start <= address /\ address < entry.end
    /\ Len(recs[Len(recs)].data) = address - entry.start
    /\ wpc = "read" => CanRead(entry)

BufferInv ==
  wpc = "write" =>
    IF CanRead(entry)
    THEN \A i \in 0 .. (Chunk - 1) : buffer[i] = Zero \/ buffer[i].page = address + i
    ELSE \A i \in 0 .. (Least(BUFFER_SIZE, Size(entry)) - 1) : buffer[i] = Zero

\* A mapping that nobody touched, whose content the file must have.
Stable(v) == v \in vmas /\ Pages(v) \cap touched = {} /\ v.kind = "plain" /\ CanRead(v)

\* What the file may have for page p of a stable mapping.
Fresh(c, p) == c = Content(p) \/ (~alive /\ c = Zero)

StableInv ==
  /\ \A v \in vmas : Pages(v) \cap touched = {} => listed <= v.start \/ v.end <= listed
  /\ \A v \in vmas :
       Stable(v) /\ v.end <= listed => \/ \E i \in DOMAIN lines : lines[i] = v
                                       \/ \E i \in DOMAIN recs : recs[i].map = v
  /\ \A i \in DOMAIN recs :
       Stable(recs[i].map) =>
         \A j \in DOMAIN recs[i].data : Fresh(recs[i].data[j], recs[i].map.start + j - 1)
  /\ wpc = "write" /\ Stable(entry) =>
       \A i \in 0 .. (Chunk - 1) : Fresh(buffer[i], address + i)
  /\ wpc = "done" => lines = <<>> /\ (alive => \A v \in vmas : v.end <= listed)

\* The inductive invariant of the writer (mappings_reader.c, maps_parser.c): lines and
\* records are in order of address while the mappings change under them, the buffer holds
\* what belongs at the address it is written for, and no untouched mapping is lost.
DumpInv ==
  /\ DumpTypeOK /\ TargetInv /\ LinesInv /\ RecordsInv /\ EntryInv /\ BufferInv
  /\ NoForeignContent /\ NothingUnreadable /\ StableInv

-----------------------------------------------------------------------------
(* Induction, and what the operators return                                *)

\* Induction over the natural numbers, for a set instead of a predicate.
LEMMA NatSetInduction ==
  ASSUME NEW S \in SUBSET Nat, 0 \in S, \A n \in S : n + 1 \in S
  PROVE  S = Nat
  <1> SUFFICES ASSUME NEW x \in Nat \ S PROVE FALSE
    OBVIOUS
  <1> DEFINE R == OpToRel(<, Nat)
  <1>1. IsWellFoundedOn(R, Nat)
    BY NatLessThanWellFounded
  <1>2. \A i, j \in Nat : i < j => <<i, j>> \in R
    BY DEF OpToRel
  <1> HIDE DEF R
  <1>3. \E m \in Nat \ S : \A k \in Nat \ S : ~ (<<k, m>> \in R)
    BY <1>1, WFMin
  <1>4. PICK m \in Nat \ S : \A k \in Nat \ S : ~ (<<k, m>> \in R)
    BY <1>3
  <1>5. \A k \in Nat \ S : ~ (k < m)
    BY <1>2, <1>4, Zenon
  <1>6. m - 1 \in S
    BY <1>5
  <1> QED
    BY <1>6

\* The sum that RecordsLength forms is defined, and has the partial sums one expects.
LEMMA RecordsLengthSums ==
  ASSUME NEW rs, Len(rs) \in Nat, \A i \in 1 .. Len(rs) : RecordLength(rs[i]) \in Nat
  PROVE  \E f \in [0 .. Len(rs) -> Nat] :
           /\ f[0] = 0
           /\ \A i \in 1 .. Len(rs) : f[i] = f[i - 1] + RecordLength(rs[i])
           /\ RecordsLength(rs) = f[Len(rs)]
  <1> DEFINE Is(f, n) == f = [i \in 0 .. n |-> IF i = 0 THEN 0
                                              ELSE f[i - 1] + RecordLength(rs[i])]
             S == {n \in Nat : n <= Len(rs) => \E f \in [0 .. n -> Nat] : Is(f, n)}
  <1>1. 0 \in S
    <2>1. Is([i \in 0 .. 0 |-> 0], 0)
      OBVIOUS
    <2> QED
      BY <2>1
  <1>2. ASSUME NEW n \in S
        PROVE  n + 1 \in S
    <2> n \in Nat
      OBVIOUS
    <2> SUFFICES ASSUME n + 1 <= Len(rs)
                 PROVE  \E f \in [0 .. (n + 1) -> Nat] : Is(f, n + 1)
      <3>1. n + 1 \in Nat
        OBVIOUS
      <3> HIDE DEF Is
      <3> QED
        BY <3>1
    <2>1. PICK f \in [0 .. n -> Nat] : Is(f, n)
      OBVIOUS
    <2> DEFINE g == [i \in 0 .. (n + 1) |-> IF i <= n THEN f[i]
                                           ELSE f[n] + RecordLength(rs[n + 1])]
    <2>2. g \in [0 .. (n + 1) -> Nat]
      OBVIOUS
    <2>3. ASSUME NEW i \in 0 .. (n + 1)
          PROVE  g[i] = IF i = 0 THEN 0 ELSE g[i - 1] + RecordLength(rs[i])
      <3>1. CASE i = n + 1
        <4>1. i # 0 /\ i - 1 = n /\ i - 1 \in 0 .. (n + 1)
          BY <3>1
        <4> QED
          BY <3>1, <4>1
      <3>2. CASE i = 0
        BY <2>1, <3>2
      <3>3. CASE i \in 1 .. n
        <4>1. f[i] = f[i - 1] + RecordLength(rs[i])
          BY <2>1, <3>3
        <4> QED
          BY <3>3, <4>1
      <3> QED
        BY <3>1, <3>2, <3>3
    <2>4. Is(g, n + 1)
      <3> HIDE DEF g
      <3> QED
        BY <2>2, <2>3
    <2> QED
      BY <2>2, <2>4
  <1>3. S = Nat
    <2> HIDE DEF S
    <2>1. S \in SUBSET Nat
      BY DEF S
    <2> QED
      BY <1>1, <1>2, <2>1, NatSetInduction
  <1>4. PICK f \in [0 .. Len(rs) -> Nat] : Is(f, Len(rs))
    BY <1>3
  <1> DEFINE total == CHOOSE t : Is(t, Len(rs))
  <1>5. Is(total, Len(rs))
    BY <1>4
  <1> HIDE DEF total
  <1>6. RecordsLength(rs) = total[Len(rs)]
    BY DEF RecordsLength, total
  <1>7. total \in [0 .. Len(rs) -> Nat]
    <2> DEFINE T == {n \in Nat : n <= Len(rs) => total[n] \in Nat}
    <2>1. 0 \in T
      BY <1>5
    <2>2. ASSUME NEW n \in T
          PROVE  n + 1 \in T
      <3>1. n + 1 <= Len(rs) => total[n + 1] = total[n] + RecordLength(rs[n + 1])
        BY <1>5
      <3> QED
        BY <3>1
    <2>3. T = Nat
      <3> HIDE DEF T
      <3>1. T \in SUBSET Nat
        BY DEF T
      <3> QED
        BY <2>1, <2>2, <3>1, NatSetInduction
    <2>4. \A n \in 0 .. Len(rs) : total[n] \in Nat
      BY <2>3
    <2> QED
      BY <1>5, <2>4
  <1>8. total[0] = 0 /\ \A i \in 1 .. Len(rs) : total[i] = total[i - 1] + RecordLength(rs[i])
    BY <1>5
  <1> QED
    BY <1>6, <1>7, <1>8

\* The records take a number of units.
LEMMA RecordsLengthType ==
  ASSUME NEW rs, Len(rs) \in Nat, \A i \in 1 .. Len(rs) : RecordLength(rs[i]) \in Nat
  PROVE  RecordsLength(rs) \in Nat
  BY RecordsLengthSums

\* What the types say of the fields of a mapping.
LEMMA MappingFields ==
  ASSUME NEW v \in Mapping
  PROVE  /\ v.start \in Page /\ v.end \in 1 .. (LastPage + 1)
         /\ v.start \in Int /\ v.end \in Int /\ v.prot \subseteq {"r", "w", "x"}
         /\ v.start >= 0 /\ v.end <= LastPage + 1
         /\ v.kind \in {"plain", "special", "device"}
         /\ Size(v) \in Int /\ Pages(v) \subseteq Page
         /\ \A p \in Int : p \in Pages(v) <=> v.start <= p /\ p < v.end
  BY DumpAssumption DEF Mapping, Page, Size, Pages

\* What the types say of the sequences.
LEMMA LinesFacts ==
  ASSUME DumpTypeOK
  PROVE  /\ Len(lines) \in Nat /\ DOMAIN lines = 1 .. Len(lines)
         /\ \A i \in DOMAIN lines : lines[i] \in Mapping
  BY LenProperties, ElementOfSeq DEF DumpTypeOK

\* What the types say of the records.
LEMMA RecordsFacts ==
  ASSUME DumpTypeOK
  PROVE  /\ Len(recs) \in Nat /\ DOMAIN recs = 1 .. Len(recs)
         /\ \A i \in DOMAIN recs :
              /\ recs[i] \in [map : Mapping, data : Seq(Cell)]
              /\ recs[i].map \in Mapping /\ recs[i].data \in Seq(Cell)
              /\ Len(recs[i].data) \in Nat
              /\ DOMAIN recs[i].data = 1 .. Len(recs[i].data)
  <1>1. /\ Len(recs) \in Nat /\ DOMAIN recs = 1 .. Len(recs)
        /\ \A i \in DOMAIN recs : recs[i] \in [map : Mapping, data : Seq(Cell)]
    <2>1. recs \in Seq([map : Mapping, data : Seq(Cell)])
      BY DEF DumpTypeOK
    <2> QED
      BY <2>1, LenProperties, ElementOfSeq
  <1>2. \A i \in DOMAIN recs : recs[i].map \in Mapping /\ recs[i].data \in Seq(Cell)
    BY <1>1
  <1>3. \A i \in DOMAIN recs : /\ Len(recs[i].data) \in Nat
                               /\ DOMAIN recs[i].data = 1 .. Len(recs[i].data)
    BY <1>2, LenProperties
  <1> QED
    BY <1>1, <1>2, <1>3

\* What was written has a length.
LEMMA WrittenType ==
  ASSUME DumpTypeOK
  PROVE  Written \in Nat
  <1>1. Len(recs) \in Nat /\ \A i \in 1 .. Len(recs) : RecordLength(recs[i]) \in Nat
    BY RecordsFacts, DumpAssumption DEF RecordLength
  <1>2. RecordsLength(recs) \in Nat
    BY <1>1, RecordsLengthType
  <1> QED
    BY <1>2, DumpAssumption DEF Written

\* The content of a page, and zeros, fit in the buffer and in the file.
LEMMA CellFacts ==
  ASSUME DumpTypeOK
  PROVE  /\ Zero \in Cell /\ Garbage \in Cell
         /\ \A p \in Page : Content(p) \in Cell /\ Content(p).page = p
  BY DEF DumpTypeOK, Cell, Content

\* A chunk is within the buffer, the mapping and the address space.
LEMMA ChunkFacts ==
  ASSUME DumpTypeOK, EntryInv, Within
  PROVE  /\ Chunk \in Nat /\ 1 <= Chunk /\ Chunk <= BUFFER_SIZE
         /\ address + Chunk <= entry.end
         /\ Chunk < BUFFER_SIZE => address + Chunk = entry.end
         /\ Chunk <= Least(BUFFER_SIZE, Size(entry))
         /\ \A i \in 0 .. (Chunk - 1) : address + i \in Page /\ address + i \in Pages(entry)
  <1>1. /\ entry \in Mapping /\ address \in Int
        /\ entry.start <= address /\ address < entry.end
    BY DEF DumpTypeOK, EntryInv
  <1> QED
    BY <1>1, MappingFields, DumpAssumption DEF Chunk, Least, Size, Page

\* What is left of the lines when the first one is taken.
LEMMA TailFacts ==
  ASSUME DumpTypeOK, lines # <<>>, lines' = Tail(lines)
  PROVE  /\ lines' \in Seq(Mapping) /\ Len(lines) > 0
         /\ Head(lines) \in Mapping /\ Head(lines) = lines[1]
         /\ DOMAIN lines' = 1 .. (Len(lines) - 1)
         /\ \A i \in DOMAIN lines' : lines'[i] = lines[i + 1] /\ i + 1 \in DOMAIN lines
  <1>1. lines \in Seq(Mapping)
    BY DEF DumpTypeOK
  <1>2. /\ Head(lines) = lines[1] /\ Head(lines) \in Mapping
        /\ Tail(lines) \in Seq(Mapping) /\ Len(Tail(lines)) = Len(lines) - 1
        /\ \A i \in 1 .. Len(Tail(lines)) : Tail(lines)[i] = lines[i + 1]
    BY <1>1, HeadTailProperties
  <1>3. /\ DOMAIN Tail(lines) = 1 .. Len(Tail(lines))
        /\ Len(Tail(lines)) \in Nat /\ Len(lines) \in Nat /\ DOMAIN lines = 1 .. Len(lines)
    BY <1>1, <1>2, LenProperties
  <1> QED
    BY <1>2, <1>3

\* The kernel lists mappings that are not empty, above what it has listed.
LEMMA UnlistedFacts ==
  ASSUME DumpTypeOK, TargetInv
  PROVE  /\ Unlisted \subseteq Mapping
         /\ \A u \in Unlisted : listed <= u.start /\ u.start < u.end /\ alive
         /\ \A v \in vmas : alive /\ listed <= v.start => v \in Unlisted
  <1>1. ASSUME NEW u \in Unlisted
        PROVE  u \in Mapping /\ listed <= u.start /\ u.start < u.end /\ alive
    <2>1. PICK v \in vmas : /\ alive /\ v.end > listed
                            /\ u = [v EXCEPT !.start = IF @ < listed THEN listed ELSE @]
      BY DEF Unlisted
    <2>2. v \in Mapping /\ v.start < v.end /\ listed \in Int /\ listed >= 0
      BY DEF TargetInv, DumpTypeOK
    <2>3. u = [v EXCEPT !.start = IF v.start < listed THEN listed ELSE v.start]
      BY <2>1
    <2>4. (IF v.start < listed THEN listed ELSE v.start) \in Page
      BY <2>1, <2>2, MappingFields DEF Page
    <2>5. /\ u \in Mapping /\ u.end = v.end
          /\ u.start = IF v.start < listed THEN listed ELSE v.start
      BY <2>2, <2>3, <2>4 DEF Mapping
    <2> QED
      BY <2>1, <2>2, <2>5, MappingFields
  <1>2. ASSUME NEW v \in vmas, alive, listed <= v.start
        PROVE  v \in Unlisted
    <2>1. v \in Mapping /\ v.start < v.end /\ listed \in Int
      BY DEF TargetInv, DumpTypeOK
    <2>2. ~(v.start < listed) /\ v.end > listed
      BY <1>2, <2>1, MappingFields
    <2>3. [v EXCEPT !.start = IF @ < listed THEN listed ELSE @] = v
      BY <2>1, <2>2 DEF Mapping
    <2> QED
      BY <1>2, <2>2, <2>3 DEF Unlisted
  <1> QED
    BY <1>1, <1>2

-----------------------------------------------------------------------------
(* Types                                                                   *)

\* The next lines of the maps file: the first mappings that were not listed.
LEMMA FetchEffect ==
  ASSUME DumpTypeOK, TargetInv, FetchLines
  PROVE  \E n \in 1 .. BatchSize :
           /\ lines' \in Seq(Mapping) /\ lines' \in [1 .. n -> Unlisted] /\ Len(lines') = n
           /\ DOMAIN lines' = 1 .. n
           /\ \A i, j \in 1 .. n : i < j => lines'[i].end <= lines'[j].start
           /\ \A v \in Unlisted : \/ \E i \in 1 .. n : lines'[i] = v
                                  \/ lines'[n].end <= v.start
           /\ listed' = lines'[n].end
  <1>1. PICK n \in 1 .. BatchSize : lines' \in FirstLines(Unlisted, n) /\ listed' = lines'[n].end
    BY DEF FetchLines
  <1>2. /\ lines' \in [1 .. n -> Unlisted]
        /\ \A i, j \in 1 .. n : i < j => lines'[i].end <= lines'[j].start
        /\ \A v \in Unlisted : \/ \E i \in 1 .. n : lines'[i] = v
                               \/ lines'[n].end <= v.start
    BY <1>1 DEF FirstLines
  <1>3. n \in Nat /\ lines' \in [1 .. n -> Mapping]
    BY <1>2, UnlistedFacts, DumpAssumption
  <1>4. lines' \in Seq(Mapping) /\ Len(lines') = n
    BY <1>3
  <1> QED
    BY <1>1, <1>2, <1>4

\* A record gets another chunk: the records before it are the same.
LEMMA WriteEffect ==
  ASSUME DumpTypeOK, EntryInv, WriteChunk
  PROVE  LET n == Len(recs)
             k == Len(recs[n].data)
         IN  /\ n \in DOMAIN recs /\ recs' \in Seq([map : Mapping, data : Seq(Cell)])
             /\ Len(recs') = n /\ DOMAIN recs' = DOMAIN recs
             /\ \A i \in DOMAIN recs : i # n => recs'[i] = recs[i]
             /\ recs'[n].map = recs[n].map
             /\ Len(recs'[n].data) = k + Chunk
             /\ DOMAIN recs'[n].data = 1 .. (k + Chunk)
             /\ \A j \in 1 .. k : recs'[n].data[j] = recs[n].data[j]
             /\ \A j \in (k + 1) .. (k + Chunk) : recs'[n].data[j] = buffer[j - k - 1]
  <1> DEFINE n == Len(recs)
             k == Len(recs[n].data)
             d == [i \in 1 .. Chunk |-> buffer[i - 1]]
             r == [recs[n] EXCEPT !.data = @ \o d]
  <1>1. /\ n \in DOMAIN recs /\ recs[n] \in [map : Mapping, data : Seq(Cell)] /\ k \in Nat
        /\ recs[n].data \in Seq(Cell) /\ DOMAIN recs[n].data = 1 .. k
    BY RecordsFacts DEF EntryInv, WriteChunk, Within
  <1>2. /\ Chunk \in Nat /\ Chunk <= BUFFER_SIZE
    BY ChunkFacts DEF WriteChunk, Within
  <1>3. d \in Seq(Cell) /\ Len(d) = Chunk /\ \A i \in 1 .. Chunk : d[i] = buffer[i - 1]
    <2>1. \A i \in 1 .. Chunk : buffer[i - 1] \in Cell
      BY <1>2, DumpAssumption DEF DumpTypeOK
    <2>2. d \in [1 .. Chunk -> Cell]
      BY <2>1
    <2> QED
      BY <1>2, <2>2
  <1> HIDE DEF d
  <1>4. /\ recs[n].data \o d \in Seq(Cell) /\ Len(recs[n].data \o d) = k + Chunk
        /\ DOMAIN (recs[n].data \o d) = 1 .. (k + Chunk)
        /\ \A j \in 1 .. k : (recs[n].data \o d)[j] = recs[n].data[j]
        /\ \A j \in (k + 1) .. (k + Chunk) : (recs[n].data \o d)[j] = d[j - k]
    <2>1. /\ recs[n].data \o d \in Seq(Cell)
          /\ Len(recs[n].data \o d) = Len(recs[n].data) + Len(d)
          /\ \A i \in 1 .. Len(recs[n].data) + Len(d) : (recs[n].data \o d)[i] =
               IF i <= Len(recs[n].data) THEN recs[n].data[i] ELSE d[i - Len(recs[n].data)]
      BY <1>1, <1>3, ConcatProperties
    <2>2. DOMAIN (recs[n].data \o d) = 1 .. Len(recs[n].data \o d)
      BY <2>1, LenProperties
    <2> QED
      BY <1>1, <1>2, <1>3, <2>1, <2>2
  <1>5. /\ r \in [map : Mapping, data : Seq(Cell)] /\ r.map = recs[n].map
        /\ r.data = recs[n].data \o d
    BY <1>1, <1>4
  <1>6. recs' = [recs EXCEPT ![n] = r]
    BY DEF WriteChunk, d
  <1> HIDE DEF r
  <1>7. recs \in Seq([map : Mapping, data : Seq(Cell)]) /\ n \in 1 .. Len(recs)
    BY <1>1, RecordsFacts DEF DumpTypeOK
  <1>8. /\ recs' \in Seq([map : Mapping, data : Seq(Cell)]) /\ Len(recs') = n
        /\ \A i \in 1 .. Len(recs) : recs'[i] = IF i = n THEN r ELSE recs[i]
    BY <1>5, <1>6, <1>7, ExceptSeq
  <1>9. DOMAIN recs' = DOMAIN recs
    BY <1>6
  <1>10. \A i \in DOMAIN recs : recs'[i] = IF i = n THEN r ELSE recs[i]
    BY <1>6
  <1>11. \A j \in (k + 1) .. (k + Chunk) : d[j - k] = buffer[j - k - 1]
    <2>1. \A j \in (k + 1) .. (k + Chunk) : j - k \in 1 .. Chunk
      BY <1>1, <1>2
    <2> QED
      BY <1>3, <2>1
  <1> QED
    BY <1>1, <1>4, <1>5, <1>8, <1>9, <1>10, <1>11

\* The writer's steps preserve the types.
LEMMA WriterTypes ==
  ASSUME DumpTypeOK, TargetInv, EntryInv, Writer
  PROVE  DumpTypeOK'
  <1>1. CASE WriteHeader
    BY <1>1 DEF WriteHeader, DumpTypeOK, targetVars
  <1>2. CASE FetchLines
    <2>1. lines' \in Seq(Mapping) /\ listed' \in 0 .. (LastPage + 1)
      <3>1. PICK n \in 1 .. BatchSize :
              /\ lines' \in Seq(Mapping) /\ lines' \in [1 .. n -> Unlisted]
              /\ listed' = lines'[n].end
        BY <1>2, FetchEffect
      <3>2. lines'[n] \in Mapping
        BY <3>1, UnlistedFacts, DumpAssumption
      <3> QED
        BY <3>1, <3>2, MappingFields
    <2> QED
      BY <1>2, <2>1 DEF FetchLines, DumpTypeOK, targetVars
  <1>3. CASE SkipMapping
    <2>1. lines' \in Seq(Mapping) /\ entry' \in Mapping
      BY <1>3, TailFacts DEF SkipMapping
    <2> QED
      BY <1>3, <2>1 DEF SkipMapping, DumpTypeOK, targetVars
  <1>4. CASE StartMapping
    <2>1. lines' \in Seq(Mapping) /\ entry' \in Mapping
      BY <1>4, TailFacts DEF StartMapping
    <2>2. recs' \in Seq([map : Mapping, data : Seq(Cell)])
      <3>1. [map |-> entry', data |-> <<>>] \in [map : Mapping, data : Seq(Cell)]
        BY <2>1, EmptySeq
      <3> QED
        BY <1>4, <3>1, AppendProperties DEF StartMapping, DumpTypeOK
    <2>3. buffer' \in [0 .. (BUFFER_SIZE - 1) -> Cell]
      BY <1>4, CellFacts DEF StartMapping, DumpTypeOK, Cleared
    <2>4. address' \in 0 .. (LastPage + 1)
      BY <1>4, <2>1, MappingFields, DumpAssumption DEF StartMapping, Page
    <2> QED
      BY <1>4, <2>1, <2>2, <2>3, <2>4 DEF StartMapping, DumpTypeOK, targetVars
  <1>5. CASE ReadChunk
    <2>1. \A i \in 0 .. (BUFFER_SIZE - 1) : i < Chunk => Content(address + i) \in Cell
      BY <1>5, ChunkFacts, CellFacts DEF ReadChunk, Within
    <2>2. buffer' \in [0 .. (BUFFER_SIZE - 1) -> Cell]
      BY <1>5, <2>1, CellFacts DEF ReadChunk, DumpTypeOK, Cleared
    <2> QED
      BY <1>5, <2>2 DEF ReadChunk, DumpTypeOK, targetVars
  <1>6. CASE WriteChunk
    <2>1. recs' \in Seq([map : Mapping, data : Seq(Cell)])
      BY <1>6, WriteEffect
    <2>2. address' \in 0 .. (LastPage + 1)
      <3>1. entry \in Mapping /\ address \in 0 .. (LastPage + 1)
        BY DEF DumpTypeOK
      <3>2. address' = address + Chunk
        BY <1>6 DEF WriteChunk
      <3> QED
        BY <1>6, <3>1, <3>2, ChunkFacts, MappingFields, DumpAssumption DEF WriteChunk, Within
    <2> QED
      BY <1>6, <2>1, <2>2 DEF WriteChunk, DumpTypeOK, targetVars
  <1>7. CASE FinishDump
    BY <1>7, WrittenType DEF FinishDump, DumpTypeOK, targetVars
  <1>8. CASE AbortDump
    BY <1>8, WrittenType DEF AbortDump, DumpTypeOK, targetVars
  <1> QED
    BY <1>1, <1>2, <1>3, <1>4, <1>5, <1>6, <1>7, <1>8 DEF Writer, WriterStep

-----------------------------------------------------------------------------
(* The target's other threads                                              *)

\* What another thread does, as far as the writer can tell: a mapping whose pages it did
\* not touch is as it was, and so are the contents of its pages.
TargetStep ==
  /\ UNCHANGED <<wpc, lines, listed, entry, address, buffer, recs, disk>>
  /\ wpc # "done" /\ wpc # "aborted"
  /\ touched \subseteq touched'
  /\ alive' => alive
  /\ \A v \in vmas' : Pages(v) \cap touched' = {} => v \in vmas
  /\ \A p \in Page : p \notin touched' => version'[p] = version[p]

\* Other threads keep the mappings disjoint, and the versions below their changes.
LEMMA OtherThreadsTarget ==
  ASSUME DumpTypeOK, TargetInv, OtherThreads
  PROVE  DumpTypeOK' /\ TargetInv' /\ TargetStep
  <1> USE DumpAssumption
  <1>1. /\ vmas \subseteq Mapping /\ version \in [Page -> 0 .. MaxChanges]
        /\ nchg \in 0 .. MaxChanges /\ touched \subseteq Page
        /\ \A v \in vmas : v \in Mapping /\ Pages(v) \subseteq Page
        /\ \A p \in Page : version[p] \in Nat
    BY MappingFields DEF DumpTypeOK
  <1>2. ASSUME NEW ps, ps \subseteq Page, Change(ps), vmas' \subseteq Mapping,
               version' \in [Page -> 0 .. MaxChanges], alive' \in BOOLEAN
        PROVE  DumpTypeOK'
    BY <1>1, <1>2 DEF Change, DumpTypeOK
  <1>3. ASSUME NEW p \in Page, nchg < MaxChanges, nchg' = nchg + 1,
               version' = [version EXCEPT ![p] = @ + 1]
        PROVE  /\ version' \in [Page -> 0 .. MaxChanges]
               /\ \A q \in Page : version'[q] <= nchg'
               /\ \A q \in Page : q # p => version'[q] = version[q]
    <2>1. \A q \in Page : version[q] <= nchg
      BY DEF TargetInv
    <2> QED
      BY <1>1, <1>3, <2>1
  <1>4. ASSUME nchg' = nchg + 1, UNCHANGED version
        PROVE  \A q \in Page : version'[q] <= nchg'
    BY <1>1, <1>4 DEF TargetInv
  <1>5. CASE StorePage
    <2>1. PICK v \in vmas, p \in Page :
            /\ p \in Pages(v) /\ Change({p}) /\ version' = [version EXCEPT ![p] = @ + 1]
            /\ UNCHANGED <<vmas, alive>>
      BY <1>1, <1>5 DEF StorePage
    <2>2. p \in Page /\ nchg < MaxChanges /\ nchg' = nchg + 1
      BY <1>1, <2>1 DEF Change
    <2>3. DumpTypeOK'
      BY <1>1, <1>2, <1>3, <2>1, <2>2 DEF DumpTypeOK
    <2>4. TargetInv'
      BY <1>3, <2>1, <2>2 DEF TargetInv
    <2>5. TargetStep
      BY <1>3, <2>1, <2>2 DEF TargetStep, Change, Dumping
    <2> QED
      BY <2>3, <2>4, <2>5
  <1>6. CASE Munmap
    <2>1. PICK v \in vmas : /\ Change(Pages(v)) /\ vmas' = vmas \ {v}
                            /\ UNCHANGED <<version, alive>>
      BY <1>6 DEF Munmap
    <2>2. DumpTypeOK'
      BY <1>1, <1>2, <2>1 DEF DumpTypeOK
    <2>3. TargetInv'
      BY <1>4, <2>1 DEF TargetInv, Change
    <2>4. TargetStep
      BY <2>1 DEF TargetStep, Change, Dumping
    <2> QED
      BY <2>2, <2>3, <2>4
  <1>7. CASE Mmap
    <2> DEFINE new(p) == [start |-> p, end |-> p + 1, prot |-> {"r", "w"}, kind |-> "plain"]
    <2>1. PICK p \in Page :
            /\ \A v \in vmas : p \notin Pages(v)
            /\ Change({p}) /\ vmas' = vmas \cup {new(p)}
            /\ version' = [version EXCEPT ![p] = @ + 1] /\ UNCHANGED alive
      BY <1>7 DEF Mmap
    <2>2. p \in Int /\ nchg < MaxChanges /\ nchg' = nchg + 1
      BY <2>1 DEF Change, Page
    <2>3. new(p) \in Mapping /\ new(p).start = p /\ new(p).end = p + 1
      BY <2>1 DEF Mapping, Page
    <2> HIDE DEF new
    <2>4. DumpTypeOK'
      BY <1>1, <1>2, <1>3, <2>1, <2>2, <2>3 DEF DumpTypeOK
    <2>5. \A v \in vmas : Disjoint(v, new(p)) /\ Disjoint(new(p), v)
      BY <1>1, <2>1, <2>2, <2>3, MappingFields DEF Disjoint
    <2>6. \A v \in vmas' : v.start < v.end
      BY <2>1, <2>2, <2>3 DEF TargetInv
    <2>7. \A v, w \in vmas' : v # w => Disjoint(v, w)
      BY <2>1, <2>5 DEF TargetInv
    <2>8. TargetInv'
      BY <1>3, <2>1, <2>2, <2>6, <2>7 DEF TargetInv
    <2>9. p \in Pages(new(p)) /\ p \in touched'
      BY <2>1, <2>2, <2>3 DEF Pages, Change
    <2>10. TargetStep
      BY <1>3, <2>1, <2>2, <2>9 DEF TargetStep, Change, Dumping
    <2> QED
      BY <2>4, <2>8, <2>10
  <1>8. CASE Mprotect
    <2> DEFINE new(v) == [v EXCEPT !.prot = IF "r" \in @ THEN @ \ {"r"} ELSE @ \cup {"r"}]
    <2>1. PICK v \in vmas : /\ Change(Pages(v)) /\ vmas' = (vmas \ {v}) \cup {new(v)}
                            /\ UNCHANGED <<version, alive>>
      BY <1>8 DEF Mprotect
    <2>2. v \in Mapping /\ v.start < v.end
      BY DEF DumpTypeOK, TargetInv
    <2>3. new(v) \in Mapping /\ new(v).start = v.start /\ new(v).end = v.end
      BY <2>2 DEF Mapping
    <2> HIDE DEF new
    <2>4. DumpTypeOK'
      BY <1>1, <1>2, <2>1, <2>3 DEF DumpTypeOK
    <2>5. \A w \in vmas \ {v} : Disjoint(w, new(v)) /\ Disjoint(new(v), w)
      BY <2>3 DEF TargetInv, Disjoint
    <2>6. \A w \in vmas' : w.start < w.end
      BY <2>1, <2>2, <2>3 DEF TargetInv
    <2>7. \A w, u \in vmas' : w # u => Disjoint(w, u)
      BY <2>1, <2>5 DEF TargetInv
    <2>8. TargetInv'
      BY <1>4, <2>1, <2>6, <2>7 DEF TargetInv, Change
    <2>9. v.start \in Pages(new(v)) /\ v.start \in touched'
      BY <2>1, <2>2, <2>3, MappingFields DEF Change
    <2>10. TargetStep
      BY <2>1, <2>9 DEF TargetStep, Change, Dumping
    <2> QED
      BY <2>4, <2>8, <2>10
  <1>9. CASE TargetDies
    <2>1. Change({}) /\ alive' = FALSE /\ UNCHANGED <<vmas, version>>
      BY <1>9 DEF TargetDies
    <2>2. DumpTypeOK'
      BY <1>1, <1>2, <2>1
    <2>3. TargetInv'
      BY <1>4, <2>1 DEF TargetInv, Change
    <2>4. TargetStep
      BY <2>1 DEF TargetStep, Change, Dumping
    <2> QED
      BY <2>2, <2>3, <2>4
  <1>10. CASE Grow
    <2>1. PICK v \in vmas, p \in Page :
            /\ \A w \in vmas : p \notin Pages(w)
            /\ Change({p})
            /\ \/ p = v.end /\ vmas' = (vmas \ {v}) \cup {[v EXCEPT !.end = p + 1]}
               \/ p + 1 = v.start /\ vmas' = (vmas \ {v}) \cup {[v EXCEPT !.start = p]}
            /\ version' = [version EXCEPT ![p] = @ + 1] /\ UNCHANGED alive
      BY <1>10 DEF Grow
    <2>2. p \in Int /\ nchg < MaxChanges /\ nchg' = nchg + 1
      BY <2>1 DEF Change, Page
    <2>3. v \in Mapping /\ v.start < v.end /\ v.start \in Int /\ v.end \in Int
      BY DEF DumpTypeOK, TargetInv, Mapping, Page
    <2>4. PICK new \in Mapping :
            /\ vmas' = (vmas \ {v}) \cup {new}
            /\ \/ p = v.end /\ new.start = v.start /\ new.end = p + 1
               \/ p + 1 = v.start /\ new.start = p /\ new.end = v.end
      <3>1. CASE p = v.end /\ vmas' = (vmas \ {v}) \cup {[v EXCEPT !.end = p + 1]}
        <4>1. p + 1 \in 1 .. (LastPage + 1)
          BY <2>1 DEF Page
        <4>2. LET new == [v EXCEPT !.end = p + 1]
              IN  new \in Mapping /\ new.start = v.start /\ new.end = p + 1
          BY <2>3, <4>1 DEF Mapping
        <4> QED
          BY <3>1, <4>2
      <3>2. CASE p + 1 = v.start /\ vmas' = (vmas \ {v}) \cup {[v EXCEPT !.start = p]}
        <4>1. LET new == [v EXCEPT !.start = p]
              IN  new \in Mapping /\ new.start = p /\ new.end = v.end
          BY <2>1, <2>3 DEF Mapping
        <4> QED
          BY <3>2, <4>1
      <3> QED
        BY <2>1, <3>1, <3>2
    <2>5. DumpTypeOK'
      BY <1>1, <1>2, <1>3, <2>1, <2>2, <2>4 DEF DumpTypeOK
    <2>6. ASSUME NEW w \in vmas \ {v}
          PROVE  Disjoint(w, new) /\ Disjoint(new, w)
      <3>1. /\ w.start \in Int /\ w.end \in Int /\ w.start < w.end
            /\ Disjoint(v, w)
            /\ ~(w.start <= p /\ p <= w.end - 1)
        BY <2>1, <2>2, <2>6 DEF DumpTypeOK, TargetInv, Mapping, Page, Pages
      <3> QED
        BY <2>2, <2>3, <2>4, <3>1 DEF Disjoint
    <2>7. \A w \in vmas' : w.start < w.end
      BY <2>1, <2>2, <2>3, <2>4 DEF TargetInv
    <2>8. \A w, u \in vmas' : w # u => Disjoint(w, u)
      BY <2>4, <2>6 DEF TargetInv
    <2>9. TargetInv'
      BY <1>3, <2>1, <2>2, <2>7, <2>8 DEF TargetInv
    <2>10. p \in Pages(new) /\ p \in touched'
      BY <2>1, <2>2, <2>3, <2>4 DEF Pages, Change
    <2>11. TargetStep
      BY <1>3, <2>1, <2>2, <2>4, <2>10 DEF TargetStep, Change, Dumping
    <2> QED
      BY <2>5, <2>9, <2>11
  <1> QED
    BY <1>5, <1>6, <1>7, <1>8, <1>9, <1>10 DEF OtherThreads

\* Nothing else than the stable mappings' part of the invariant looks at the target.
LEMMA OtherThreadsWriter ==
  ASSUME TargetStep, LinesInv, RecordsInv, EntryInv, BufferInv, NoForeignContent,
         NothingUnreadable
  PROVE  /\ LinesInv' /\ RecordsInv' /\ EntryInv' /\ BufferInv' /\ NoForeignContent'
         /\ NothingUnreadable'
  <1> USE DEF TargetStep
  <1>1. LinesInv' /\ RecordsInv' /\ EntryInv'
    BY DEF LinesInv, RecordsInv, EntryInv, Within
  <1>2. BufferInv'
    BY DEF BufferInv, Chunk
  <1>3. NoForeignContent' /\ NothingUnreadable'
    BY DEF NoForeignContent, NothingUnreadable
  <1> QED
    BY <1>1, <1>2, <1>3

\* A mapping has at most its size of content, also while it is being written.
LEMMA LengthsBounded ==
  ASSUME DumpTypeOK, RecordsInv, EntryInv, wpc # "aborted", NEW i \in DOMAIN recs
  PROVE  Len(recs[i].data) <= Size(recs[i].map)
  <1>1. /\ recs[i].map \in Mapping /\ Len(recs[i].data) \in Nat /\ Len(recs) \in Nat
        /\ i \in 1 .. Len(recs)
    BY RecordsFacts
  <1>2. CASE i < Len(recs) \/ wpc \in {"header", "next", "done"}
    BY <1>1, <1>2, MappingFields DEF RecordsInv
  <1>3. CASE i = Len(recs) /\ Within
    <2>1. /\ recs[i].map = entry /\ address < entry.end
          /\ Len(recs[i].data) = address - entry.start
      BY <1>3 DEF EntryInv
    <2>2. address \in Int
      BY DEF DumpTypeOK
    <2> QED
      BY <1>1, <2>1, <2>2, MappingFields DEF Size
  <1> QED
    BY <1>1, <1>2, <1>3 DEF DumpTypeOK, Within

\* What the file has of a mapping lies within the mapping.
LEMMA DataWithin ==
  ASSUME DumpTypeOK, RecordsInv, EntryInv, wpc # "aborted", NEW i \in DOMAIN recs,
         NEW j \in DOMAIN recs[i].data
  PROVE  /\ recs[i].map.start + j - 1 \in Pages(recs[i].map)
         /\ recs[i].map.start + j - 1 \in Page
  <1>1. /\ recs[i].map \in Mapping /\ Len(recs[i].data) \in Nat /\ Len(recs) \in Nat
        /\ j \in 1 .. Len(recs[i].data) /\ i \in 1 .. Len(recs)
    BY RecordsFacts
  <1>2. Len(recs[i].data) <= Size(recs[i].map)
    BY LengthsBounded
  <1>3. /\ recs[i].map.start + j - 1 >= recs[i].map.start
        /\ recs[i].map.start + j - 1 < recs[i].map.end
        /\ recs[i].map.start + j - 1 \in Int
    BY <1>1, <1>2, MappingFields DEF Size
  <1> QED
    BY <1>1, <1>3, MappingFields

\* What other threads do leaves the stable mappings' contents alone.
LEMMA OtherThreadsStable ==
  ASSUME DumpTypeOK, RecordsInv, EntryInv, StableInv, TargetStep
  PROVE  StableInv'
  <1>1. \A v \in vmas' : Pages(v) \cap touched' = {} => v \in vmas /\ Pages(v) \cap touched = {}
    BY DEF TargetStep
  <1>2. \A v : Stable(v)' => Stable(v)
    BY <1>1 DEF Stable
  <1>3. \A v \in vmas' : Pages(v) \cap touched' = {} => listed' <= v.start \/ v.end <= listed'
    BY <1>1 DEF StableInv, TargetStep
  <1>4. \A v \in vmas' :
          Stable(v)' /\ v.end <= listed' => \/ \E i \in DOMAIN lines' : lines'[i] = v
                                            \/ \E i \in DOMAIN recs' : recs'[i].map = v
    BY <1>1, <1>2 DEF StableInv, TargetStep, Stable
  <1>5. ASSUME NEW i \in DOMAIN recs', Stable(recs[i].map)', NEW j \in DOMAIN recs'[i].data
        PROVE  Fresh(recs[i].data[j], recs[i].map.start + j - 1)'
    <2>1. i \in DOMAIN recs /\ j \in DOMAIN recs[i].data /\ recs' = recs /\ wpc # "aborted"
      BY <1>5 DEF TargetStep
    <2>2. Stable(recs[i].map)
      BY <1>2, <1>5, <2>1 DEF Stable
    <2>3. Fresh(recs[i].data[j], recs[i].map.start + j - 1)
      BY <2>1, <2>2 DEF StableInv
    <2>4. /\ recs[i].map.start + j - 1 \in Pages(recs[i].map)
          /\ recs[i].map.start + j - 1 \in Page
      BY <2>1, DataWithin
    <2> DEFINE v == recs[i].map
               p == recs[i].map.start + j - 1
               c == recs[i].data[j]
    <2>5. Content(p)' = [page |-> p, ver |-> version'[p]]
      BY <2>1 DEF Content
    <2>6. p \notin touched'
      BY <1>5, <2>1, <2>4 DEF Stable
    <2>7. version'[p] = version[p]
      BY <2>4, <2>6 DEF TargetStep
    <2> QED
      BY <2>1, <2>3, <2>5, <2>7 DEF Fresh, Content, TargetStep
  <1>6. ASSUME wpc' = "write", Stable(entry)', NEW i \in 0 .. (Chunk - 1)
        PROVE  Fresh(buffer[i], address + i)'
    <2>1. wpc = "write" /\ UNCHANGED <<entry, buffer, address>>
      BY <1>6 DEF TargetStep
    <2>2. Stable(entry) /\ Pages(entry) \cap touched' = {}
      BY <1>2, <1>6, <2>1 DEF Stable
    <2>3. Fresh(buffer[i], address + i)
      BY <2>1, <2>2 DEF StableInv
    <2>4. address + i \in Pages(entry) /\ address + i \in Page
      BY <2>1, ChunkFacts DEF Within
    <2>5. version'[address + i] = version[address + i]
      BY <2>2, <2>4 DEF TargetStep
    <2> QED
      BY <2>1, <2>3, <2>5 DEF Fresh, Content, TargetStep
  <1>7. Chunk' = Chunk /\ wpc' # "done"
    BY DEF Chunk, TargetStep
  <1> QED
    BY <1>3, <1>4, <1>5, <1>6, <1>7 DEF StableInv

-----------------------------------------------------------------------------
(* The writer                                                              *)

\* What the writer does leaves the target alone.
LEMMA WriterTarget ==
  ASSUME UNCHANGED targetVars
  PROVE  /\ TargetInv => TargetInv'
         /\ \A v : Stable(v)' <=> Stable(v)
         /\ \A c, q : Fresh(c, q)' <=> Fresh(c, q)
  BY DEF targetVars, TargetInv, Stable, Fresh, Content

\* The part of the invariant that the writer's steps can disturb.
WriterInv ==
  /\ LinesInv /\ RecordsInv /\ EntryInv /\ BufferInv /\ NoForeignContent
  /\ NothingUnreadable /\ StableInv

\* A step that only moves the writer, outside a mapping.
LEMMA MoveWriter ==
  ASSUME WriterInv, UNCHANGED <<targetVars, lines, listed, recs>>, wpc' \notin {"read", "write"},
         wpc' \in {"header", "next", "done"} => wpc \in {"header", "next", "done"},
         wpc' = "done" => lines = <<>> /\ (alive => \A v \in vmas : v.end <= listed)
  PROVE  WriterInv'
  <1>1. LinesInv' /\ EntryInv' /\ BufferInv' /\ NoForeignContent' /\ NothingUnreadable'
    BY DEF WriterInv, LinesInv, EntryInv, Within, BufferInv, NoForeignContent, NothingUnreadable
  <1>2. RecordsInv'
    BY DEF WriterInv, RecordsInv
  <1>3. StableInv'
    <2>1. /\ \A v : Stable(v)' <=> Stable(v)
          /\ \A c, q : Fresh(c, q)' <=> Fresh(c, q)
      BY WriterTarget
    <2>2. \A i \in DOMAIN recs :
            Stable(recs[i].map) => \A j \in DOMAIN recs[i].data :
                                     Fresh(recs[i].data[j], recs[i].map.start + j - 1)'
      BY <2>1 DEF WriterInv, StableInv
    <2>3. \A i \in DOMAIN recs :
            Stable(recs[i].map)' => Stable(recs[i].map)
      BY DEF Stable, targetVars
    <2> QED
      BY <2>1, <2>2, <2>3 DEF WriterInv, StableInv, targetVars
  <1> QED
    BY <1>1, <1>2, <1>3 DEF WriterInv

\* The maps file is read on: what is listed now is above what was listed before.
LEMMA FetchKeeps ==
  ASSUME DumpTypeOK, TargetInv, WriterInv, FetchLines
  PROVE  WriterInv'
  <1>1. PICK n \in 1 .. BatchSize :
          /\ lines' \in [1 .. n -> Unlisted] /\ DOMAIN lines' = 1 .. n
          /\ \A i, j \in 1 .. n : i < j => lines'[i].end <= lines'[j].start
          /\ \A v \in Unlisted : \/ \E i \in 1 .. n : lines'[i] = v
                                 \/ lines'[n].end <= v.start
          /\ listed' = lines'[n].end
    BY FetchEffect
  <1>2. /\ wpc = "next" /\ lines = <<>>
        /\ UNCHANGED <<targetVars, wpc, entry, address, buffer, recs, disk>>
    BY DEF FetchLines
  <1>3. n \in Nat /\ n \in 1 .. n /\ listed \in Int
    BY DumpAssumption DEF DumpTypeOK
  <1>4. \A i \in 1 .. n : /\ lines'[i] \in Mapping /\ lines'[i].start < lines'[i].end
                          /\ listed <= lines'[i].start /\ alive
    BY <1>1, UnlistedFacts
  <1>5. \A i \in 1 .. n : lines'[i].end <= lines'[n].end
    <2> TAKE i \in 1 .. n
    <2>1. CASE i = n
      BY <1>3, <1>4, <2>1, MappingFields
    <2>2. CASE i < n
      <3>1. lines'[i].end <= lines'[n].start /\ lines'[n].start < lines'[n].end
        BY <1>1, <1>3, <1>4, <2>2
      <3> QED
        BY <1>3, <1>4, <3>1, MappingFields
    <2> QED
      BY <1>3, <2>1, <2>2
  <1>6. listed' \in Int /\ listed < listed'
    BY <1>1, <1>3, <1>4, MappingFields
  <1>7. LinesInv'
    BY <1>1, <1>4, <1>5 DEF LinesInv
  <1>8. RecordsInv'
    <2>1. \A i \in DOMAIN recs : recs[i].map.end <= listed /\ recs[i].map \in Mapping
      BY RecordsFacts DEF WriterInv, RecordsInv
    <2>2. \A i \in DOMAIN recs : /\ recs[i].map.end <= listed'
                                 /\ \A j \in 1 .. n : recs[i].map.end <= lines'[j].start
      BY <1>3, <1>4, <1>6, <2>1, MappingFields
    <2> QED
      BY <1>1, <1>2, <2>2 DEF WriterInv, RecordsInv
  <1>9. EntryInv' /\ BufferInv' /\ NoForeignContent' /\ NothingUnreadable'
    BY <1>2 DEF WriterInv, EntryInv, Within, BufferInv, NoForeignContent, NothingUnreadable
  <1>10. StableInv'
    <2>1. /\ \A v : Stable(v)' <=> Stable(v)
          /\ \A c, q : Fresh(c, q)' <=> Fresh(c, q)
          /\ UNCHANGED <<vmas, touched, alive>>
      BY <1>2, WriterTarget DEF targetVars
    <2>2. alive
      BY <1>3, <1>4
    <2>3. ASSUME NEW v \in vmas, Pages(v) \cap touched = {}
          PROVE  \/ v.end <= listed
                 \/ \E i \in 1 .. n : lines'[i] = v /\ v.end <= listed'
                 \/ listed' <= v.start /\ listed' < v.end
      <3>1. v \in Mapping /\ v.start < v.end
        BY DEF DumpTypeOK, TargetInv
      <3>2. listed <= v.start \/ v.end <= listed
        BY <2>3 DEF WriterInv, StableInv
      <3>3. listed <= v.start => v \in Unlisted
        BY <2>2, UnlistedFacts
      <3> QED
        BY <1>1, <1>5, <1>6, <3>1, <3>2, <3>3, MappingFields
    <2>4. \A v \in vmas : Pages(v) \cap touched = {} => listed' <= v.start \/ v.end <= listed'
      <3> TAKE v \in vmas
      <3>1. v \in Mapping
        BY DEF DumpTypeOK
      <3> QED
        BY <1>3, <1>6, <2>3, <3>1, MappingFields
    <2>5. ASSUME NEW v \in vmas, Stable(v), v.end <= listed'
          PROVE  \/ \E i \in 1 .. n : lines'[i] = v
                 \/ \E i \in DOMAIN recs : recs[i].map = v
      <3>1. v \in Mapping /\ Pages(v) \cap touched = {} /\ v.start < v.end
        BY <2>5 DEF DumpTypeOK, Stable, TargetInv
      <3>2. v.end <= listed => \E i \in DOMAIN recs : recs[i].map = v
        BY <1>2, <2>5 DEF WriterInv, StableInv
      <3> QED
        BY <1>6, <2>3, <2>5, <3>1, <3>2, MappingFields
    <2>6. \A i \in DOMAIN recs :
            Stable(recs[i].map) =>
              \A j \in DOMAIN recs[i].data : Fresh(recs[i].data[j], recs[i].map.start + j - 1)
      BY DEF WriterInv, StableInv
    <2>7. \A i \in DOMAIN recs' :
            Stable(recs[i].map)' =>
              \A j \in DOMAIN recs'[i].data : Fresh(recs[i].data[j], recs[i].map.start + j - 1)'
      BY <1>2, <2>6 DEF Stable, Fresh, Content, targetVars
    <2> QED
      BY <1>1, <1>2, <2>1, <2>4, <2>5, <2>7 DEF StableInv
  <1> QED
    BY <1>7, <1>8, <1>9, <1>10 DEF WriterInv

\* A mapping that is skipped is none whose content the file must have.
LEMMA SkipKeeps ==
  ASSUME DumpTypeOK, TargetInv, WriterInv, SkipMapping
  PROVE  WriterInv'
  <1>1. /\ wpc = "next" /\ lines # <<>> /\ lines' = Tail(lines) /\ Head(lines).kind = "special"
        /\ UNCHANGED <<targetVars, wpc, listed, address, buffer, recs, disk>>
    BY DEF SkipMapping
  <1>2. /\ Len(lines) > 0 /\ Head(lines) = lines[1]
        /\ DOMAIN lines' = 1 .. (Len(lines) - 1)
        /\ \A i \in DOMAIN lines' : lines'[i] = lines[i + 1] /\ i + 1 \in DOMAIN lines
    BY <1>1, TailFacts
  <1>3. Len(lines) \in Nat /\ DOMAIN lines = 1 .. Len(lines)
    BY LinesFacts
  <1>4. LinesInv'
    <2>1. \A i, j \in DOMAIN lines' : i < j => i + 1 < j + 1
      BY <1>2
    <2> QED
      BY <1>1, <1>2, <2>1 DEF WriterInv, LinesInv
  <1>5. RecordsInv'
    BY <1>1, <1>2 DEF WriterInv, RecordsInv
  <1>6. EntryInv' /\ BufferInv' /\ NoForeignContent' /\ NothingUnreadable'
    BY <1>1 DEF WriterInv, EntryInv, Within, BufferInv, NoForeignContent, NothingUnreadable
  <1>7. StableInv'
    <2>1. ASSUME NEW v \in vmas, Stable(v), v.end <= listed
          PROVE  \/ \E i \in DOMAIN lines' : lines'[i] = v
                 \/ \E i \in DOMAIN recs : recs[i].map = v
      <3>1. ASSUME NEW i \in DOMAIN lines, lines[i] = v
            PROVE  \E k \in DOMAIN lines' : lines'[k] = v
        <4>1. i # 1
          BY <1>1, <1>2, <2>1, <3>1 DEF Stable
        <4>2. i - 1 \in DOMAIN lines' /\ (i - 1) + 1 = i
          BY <1>2, <1>3, <4>1
        <4>3. lines'[i - 1] = v
          BY <1>2, <3>1, <4>2
        <4> QED
          BY <4>2, <4>3
      <3> QED
        BY <2>1, <3>1 DEF WriterInv, StableInv
    <2>2. \A i \in DOMAIN recs' :
            Stable(recs[i].map)' =>
              \A j \in DOMAIN recs'[i].data : Fresh(recs[i].data[j], recs[i].map.start + j - 1)'
      BY <1>1 DEF WriterInv, StableInv, Stable, Fresh, Content, targetVars
    <2>3. \A v \in vmas' : Stable(v)' <=> Stable(v)
      BY <1>1, WriterTarget
    <2>4. /\ vmas' = vmas /\ touched' = touched
      BY <1>1 DEF targetVars
    <2> QED
      BY <1>1, <2>1, <2>2, <2>3, <2>4 DEF WriterInv, StableInv
  <1> QED
    BY <1>4, <1>5, <1>6, <1>7 DEF WriterInv

\* A mapping is begun: its record is after all others and before the lines that are left.
LEMMA StartKeeps ==
  ASSUME DumpTypeOK, TargetInv, WriterInv, StartMapping
  PROVE  WriterInv'
  <1> DEFINE n == Len(recs)
             new == [map |-> entry', data |-> <<>>]
  <1>1. /\ wpc = "next" /\ lines # <<>> /\ lines' = Tail(lines)
        /\ entry' = Head(lines) /\ address' = entry'.start /\ recs' = Append(recs, new)
        /\ wpc' = IF CanRead(entry') THEN "read" ELSE "write"
        /\ ~CanRead(entry') => buffer' = Cleared(Least(BUFFER_SIZE, Size(entry')))
        /\ UNCHANGED <<targetVars, listed, disk>>
    BY DEF StartMapping
  <1>2. /\ Len(lines) > 0 /\ entry' = lines[1] /\ entry' \in Mapping
        /\ DOMAIN lines' = 1 .. (Len(lines) - 1)
        /\ \A i \in DOMAIN lines' : lines'[i] = lines[i + 1] /\ i + 1 \in DOMAIN lines
    BY <1>1, TailFacts
  <1>3. Len(lines) \in Nat /\ DOMAIN lines = 1 .. Len(lines) /\ 1 \in DOMAIN lines
    BY <1>2, LinesFacts
  <1>4. n \in Nat /\ DOMAIN recs = 1 .. n
    BY RecordsFacts
  <1>5. /\ DOMAIN recs' = 1 .. (n + 1) /\ Len(recs') = n + 1
        /\ recs'[n + 1] = new /\ \A i \in 1 .. n : recs'[i] = recs[i]
    <2>1. recs \in Seq([map : Mapping, data : Seq(Cell)])
      BY DEF DumpTypeOK
    <2>2. new \in [map : Mapping, data : Seq(Cell)]
      BY <1>2, EmptySeq
    <2> HIDE DEF new
    <2>3. /\ Append(recs, new) \in Seq([map : Mapping, data : Seq(Cell)])
          /\ Len(Append(recs, new)) = Len(recs) + 1
          /\ \A i \in 1 .. Len(recs) : Append(recs, new)[i] = recs[i]
          /\ Append(recs, new)[Len(recs) + 1] = new
      BY <2>1, <2>2, AppendProperties
    <2>4. DOMAIN Append(recs, new) = 1 .. Len(Append(recs, new))
      BY <2>3, LenProperties
    <2> QED
      BY <1>1, <2>3, <2>4
  <1>6. new.map = entry' /\ Len(new.data) = 0 /\ DOMAIN new.data = {}
    BY EmptySeq, LenProperties
  <1> HIDE DEF new
  <1>7. \A i \in DOMAIN recs' : i \in DOMAIN recs \/ i = n + 1
    BY <1>4, <1>5
  <1>8. \A i \in DOMAIN recs : i \in DOMAIN recs' /\ recs'[i] = recs[i] /\ i < n + 1
    BY <1>4, <1>5
  <1>9. entry'.start < entry'.end /\ entry'.end <= listed
    BY <1>2, <1>3 DEF WriterInv, LinesInv
  <1>10. LinesInv'
    <2>1. \A i, j \in DOMAIN lines' : i < j => i + 1 < j + 1
      BY <1>2
    <2> QED
      BY <1>1, <1>2, <2>1 DEF WriterInv, LinesInv
  <1>11. RecordsInv'
    <2>1. \A i \in DOMAIN recs : recs[i].map.end <= entry'.start
      BY <1>2, <1>3 DEF WriterInv, RecordsInv
    <2>2. \A i \in DOMAIN lines' : entry'.end <= lines'[i].start
      <3>1. \A i \in DOMAIN lines' : 1 < i + 1
        BY <1>2
      <3> QED
        BY <1>2, <1>3, <3>1 DEF WriterInv, LinesInv
    <2>3. \A i \in DOMAIN recs' : recs'[i].map.end <= listed'
      BY <1>1, <1>5, <1>6, <1>7, <1>8, <1>9 DEF WriterInv, RecordsInv
    <2>4. \A i \in DOMAIN recs', j \in DOMAIN lines' : recs'[i].map.end <= lines'[j].start
      BY <1>2, <1>5, <1>6, <1>7, <1>8, <2>2 DEF WriterInv, RecordsInv
    <2>5. ASSUME NEW i \in DOMAIN recs', NEW j \in DOMAIN recs', i < j
          PROVE  recs'[i].map.end <= recs'[j].map.start
      <3>1. i \in DOMAIN recs
        BY <1>4, <1>5, <2>5
      <3>2. CASE j \in DOMAIN recs
        BY <1>8, <2>5, <3>1, <3>2 DEF WriterInv, RecordsInv
      <3>3. CASE j = n + 1
        BY <1>5, <1>6, <1>8, <2>1, <3>1, <3>3
      <3> QED
        BY <1>7, <3>2, <3>3
    <2>6. \A i \in DOMAIN recs' : i < n + 1 => Len(recs'[i].data) = Size(recs'[i].map)
      <3>1. \A i \in DOMAIN recs' : i < n + 1 => i \in DOMAIN recs
        BY <1>4, <1>5
      <3> QED
        BY <1>1, <1>8, <3>1 DEF WriterInv, RecordsInv
    <2> QED
      BY <1>1, <1>5, <2>3, <2>4, <2>5, <2>6 DEF RecordsInv
  <1>12. EntryInv'
    BY <1>1, <1>2, <1>4, <1>5, <1>6, <1>9, MappingFields DEF EntryInv
  <1>13. BufferInv'
    BY <1>1, <1>2, MappingFields, DumpAssumption DEF BufferInv, Cleared, Least
  <1>14. NoForeignContent' /\ NothingUnreadable'
    BY <1>5, <1>6, <1>7, <1>8 DEF WriterInv, NoForeignContent, NothingUnreadable
  <1>15. StableInv'
    <2>1. ASSUME NEW v \in vmas, Stable(v), v.end <= listed
          PROVE  \/ \E i \in DOMAIN lines' : lines'[i] = v
                 \/ \E i \in DOMAIN recs' : recs'[i].map = v
      <3>1. ASSUME NEW i \in DOMAIN lines, lines[i] = v, i # 1
            PROVE  \E k \in DOMAIN lines' : lines'[k] = v
        <4>1. i - 1 \in DOMAIN lines' /\ (i - 1) + 1 = i
          BY <1>2, <1>3, <3>1
        <4>2. lines'[i - 1] = v
          BY <1>2, <3>1, <4>1
        <4> QED
          BY <4>1, <4>2
      <3>2. ASSUME lines[1] = v
            PROVE  \E i \in DOMAIN recs' : recs'[i].map = v
        <4>1. n + 1 \in DOMAIN recs' /\ recs'[n + 1].map = v
          BY <1>2, <1>4, <1>5, <1>6, <3>2
        <4> QED
          BY <4>1
      <3>3. ASSUME NEW i \in DOMAIN recs, recs[i].map = v
            PROVE  \E k \in DOMAIN recs' : recs'[k].map = v
        BY <1>8, <3>3
      <3> QED
        BY <2>1, <3>1, <3>2, <3>3 DEF WriterInv, StableInv
    <2>2. ASSUME NEW i \in DOMAIN recs', Stable(recs[i].map)', NEW j \in DOMAIN recs'[i].data
          PROVE  Fresh(recs[i].data[j], recs[i].map.start + j - 1)'
      <3>1. i \in DOMAIN recs /\ recs'[i] = recs[i]
        BY <1>5, <1>6, <1>7, <1>8
      <3>2. Stable(recs[i].map)
        BY <1>1, <2>2, <3>1 DEF Stable, targetVars
      <3>3. Fresh(recs[i].data[j], recs[i].map.start + j - 1)
        BY <2>2, <3>1, <3>2 DEF WriterInv, StableInv
      <3> QED
        BY <1>1, <3>1, <3>3 DEF Fresh, Content, targetVars
    <2>3. \A v \in vmas' : Stable(v)' <=> Stable(v)
      BY <1>1, WriterTarget
    <2>4. /\ vmas' = vmas /\ touched' = touched
      BY <1>1 DEF targetVars
    <2>5. ~(wpc' = "write" /\ Stable(entry)') /\ wpc' # "done"
      BY <1>1 DEF Stable
    <2>6. \A v \in vmas' : Pages(v) \cap touched' = {} => listed' <= v.start \/ v.end <= listed'
      BY <1>1, <2>4 DEF WriterInv, StableInv
    <2>7. \A v \in vmas' :
            Stable(v)' /\ v.end <= listed' => \/ \E i \in DOMAIN lines' : lines'[i] = v
                                              \/ \E i \in DOMAIN recs' : recs'[i].map = v
      BY <1>1, <2>1, <2>3, <2>4
    <2> QED
      BY <2>2, <2>5, <2>6, <2>7 DEF StableInv
  <1> QED
    BY <1>10, <1>11, <1>12, <1>13, <1>14, <1>15 DEF WriterInv

\* A chunk is read: it is what its pages have, or zeros when one of them is missing.
LEMMA ReadKeeps ==
  ASSUME DumpTypeOK, TargetInv, WriterInv, ReadChunk
  PROVE  WriterInv'
  <1>1. /\ wpc = "read" /\ wpc' = "write" /\ Within
        /\ UNCHANGED <<targetVars, lines, listed, entry, address, recs, disk>>
    BY DEF ReadChunk, Within
  <1>2. EntryInv /\ CanRead(entry)
    BY <1>1 DEF WriterInv, EntryInv
  <1>3. /\ Chunk \in Nat /\ Chunk <= BUFFER_SIZE /\ Chunk' = Chunk
        /\ \A i \in 0 .. (Chunk - 1) :
             /\ i \in 0 .. (BUFFER_SIZE - 1) /\ i < Chunk
             /\ address + i \in Page /\ address + i \in Pages(entry)
    <2>1. Chunk' = Chunk
      BY <1>1 DEF Chunk
    <2> QED
      BY <1>1, <1>2, <2>1, ChunkFacts, DumpAssumption
  <1> DEFINE All == alive /\ \A i \in 0 .. (Chunk - 1) : Readable(address + i)
  <1>4. /\ All => \A i \in 0 .. (Chunk - 1) : buffer'[i] = Content(address + i)
        /\ ~All => \A i \in 0 .. (Chunk - 1) : buffer'[i] = Zero
    <2>1. DOMAIN buffer = 0 .. (BUFFER_SIZE - 1)
      BY DEF DumpTypeOK
    <2>2. /\ All => buffer' = [i \in DOMAIN buffer |->
                                 IF i < Chunk THEN Content(address + i) ELSE buffer[i]]
          /\ ~All => buffer' = Cleared(Chunk)
      BY DEF ReadChunk
    <2> HIDE DEF All
    <2> QED
      BY <1>3, <2>1, <2>2 DEF Cleared
  <1>5. Stable(entry) /\ alive => All
    <2> SUFFICES ASSUME Stable(entry), alive, NEW i \in 0 .. (Chunk - 1)
                 PROVE  Readable(address + i)
      OBVIOUS
    <2> QED
      BY <1>3 DEF Readable, Stable
  <1> HIDE DEF All
  <1>6. LinesInv' /\ RecordsInv' /\ NoForeignContent' /\ NothingUnreadable'
    BY <1>1 DEF WriterInv, LinesInv, RecordsInv, NoForeignContent, NothingUnreadable
  <1>7. EntryInv'
    BY <1>1 DEF WriterInv, EntryInv, Within
  <1>8. \A i \in 0 .. (Chunk - 1) : buffer'[i] = Zero \/ buffer'[i].page = address + i
    BY <1>3, <1>4, CellFacts
  <1>9. BufferInv'
    BY <1>1, <1>2, <1>3, <1>8 DEF BufferInv
  <1>10. \A i \in 0 .. (Chunk - 1) : Stable(entry) => Fresh(buffer'[i], address + i)
    BY <1>4, <1>5 DEF Fresh
  <1>11. wpc' = "write" /\ Stable(entry)' =>
           \A i \in 0 .. (Chunk' - 1) : Fresh(buffer[i], address + i)'
    BY <1>1, <1>3, <1>10 DEF Stable, Fresh, Content, targetVars
  <1>12. \A i \in DOMAIN recs' :
           Stable(recs[i].map)' =>
             \A j \in DOMAIN recs'[i].data : Fresh(recs[i].data[j], recs[i].map.start + j - 1)'
    BY <1>1 DEF WriterInv, StableInv, Stable, Fresh, Content, targetVars
  <1>13. \A v \in vmas' : Stable(v)' <=> Stable(v)
    BY <1>1, WriterTarget
  <1>14. /\ vmas' = vmas /\ touched' = touched
    BY <1>1 DEF targetVars
  <1>15. StableInv'
    BY <1>1, <1>11, <1>12, <1>13, <1>14 DEF WriterInv, StableInv
  <1> QED
    BY <1>6, <1>7, <1>9, <1>15 DEF WriterInv

\* A chunk is written: the record grows by what the buffer has for the next pages.
LEMMA WriteKeeps ==
  ASSUME DumpTypeOK, TargetInv, WriterInv, WriteChunk
  PROVE  WriterInv'
  <1> DEFINE n == Len(recs)
             k == Len(recs[n].data)
  <1>1. /\ wpc = "write" /\ Within /\ address' = address + Chunk
        /\ wpc' = IF address' = entry.end THEN "next"
                  ELSE IF CanRead(entry) THEN "read" ELSE "write"
        /\ UNCHANGED <<targetVars, lines, listed, entry, buffer, disk>>
    BY DEF WriteChunk, Within
  <1>2. /\ n \in DOMAIN recs /\ Len(recs') = n /\ DOMAIN recs' = DOMAIN recs
        /\ \A i \in DOMAIN recs : i # n => recs'[i] = recs[i]
        /\ recs'[n].map = recs[n].map
        /\ Len(recs'[n].data) = k + Chunk /\ DOMAIN recs'[n].data = 1 .. (k + Chunk)
        /\ \A j \in 1 .. k : recs'[n].data[j] = recs[n].data[j]
        /\ \A j \in (k + 1) .. (k + Chunk) : recs'[n].data[j] = buffer[j - k - 1]
    BY WriteEffect DEF WriterInv
  <1>3. /\ n \in Nat /\ k \in Nat /\ DOMAIN recs = 1 .. n /\ DOMAIN recs[n].data = 1 .. k
        /\ entry \in Mapping /\ address \in Int
    BY <1>2, RecordsFacts DEF DumpTypeOK
  <1>4. /\ recs[n].map = entry /\ k = address - entry.start /\ address < entry.end
        /\ entry.start <= address
    BY <1>1 DEF WriterInv, EntryInv
  <1>5. /\ Chunk \in Nat /\ 1 <= Chunk /\ address + Chunk <= entry.end
        /\ Chunk <= Least(BUFFER_SIZE, Size(entry))
    BY <1>1, ChunkFacts DEF WriterInv
  <1>6. Least(BUFFER_SIZE, Size(entry)) \in Int
    BY <1>3, MappingFields, DumpAssumption DEF Least
  <1> HIDE DEF n, k
  <1>7. \A i \in DOMAIN recs : recs'[i].map = recs[i].map
    BY <1>2
  <1>8. \A j \in DOMAIN recs'[n].data : j \in 1 .. k \/ j \in (k + 1) .. (k + Chunk)
    BY <1>2, <1>3, <1>5
  <1>9. \A j \in (k + 1) .. (k + Chunk) :
          /\ j - k - 1 \in 0 .. (Chunk - 1)
          /\ j - k - 1 \in 0 .. (Least(BUFFER_SIZE, Size(entry)) - 1)
          /\ address + (j - k - 1) = entry.start + j - 1
    <2> TAKE j \in (k + 1) .. (k + Chunk)
    <2>1. entry.start \in Int /\ j \in Int /\ k + 1 <= j /\ j <= k + Chunk
      BY <1>3, <1>5, MappingFields
    <2>2. j - k - 1 \in 0 .. (Chunk - 1) /\ address + (j - k - 1) = entry.start + j - 1
      <3>1. k \in Int /\ Chunk \in Int /\ address \in Int /\ address = entry.start + k
        BY <1>3, <1>4, <1>5, <2>1
      <3> QED
        BY <2>1, <3>1
    <2> QED
      BY <1>5, <1>6, <2>2
  <1>10. LinesInv'
    BY <1>1 DEF WriterInv, LinesInv
  <1>11. RecordsInv'
    <2>1. wpc' = "next" => Len(recs'[n].data) = Size(entry)
      BY <1>1, <1>2, <1>3, <1>4, <1>5, MappingFields DEF Size
    <2>2. ASSUME NEW i \in DOMAIN recs', i < n \/ wpc' \in {"header", "next", "done"}
          PROVE  Len(recs'[i].data) = Size(recs'[i].map)
      <3>1. CASE i = n
        BY <1>1, <1>2, <1>3, <1>4, <2>1, <2>2, <3>1
      <3>2. CASE i # n
        <4>1. i < n
          BY <1>2, <1>3, <3>2
        <4> QED
          BY <1>2, <3>2, <4>1 DEF WriterInv, RecordsInv, n
      <3> QED
        BY <3>1, <3>2
    <2> QED
      BY <1>1, <1>2, <1>7, <2>2 DEF WriterInv, RecordsInv
  <1>12. EntryInv'
    <2>1. wpc' \in {"read", "write"} => address' < entry.end
      BY <1>1, <1>3, <1>5, MappingFields
    <2>2. Len(recs'[n].data) = address' - entry.start /\ entry.start <= address'
      BY <1>1, <1>2, <1>3, <1>4, <1>5, MappingFields
    <2>3. n > 0 /\ recs'[n].map = entry
      BY <1>2, <1>3, <1>4
    <2> QED
      BY <1>1, <1>2, <2>1, <2>2, <2>3 DEF EntryInv, Within
  <1>13. BufferInv'
    BY <1>1 DEF WriterInv, BufferInv
  <1>14. NoForeignContent'
    <2>1. \A j \in DOMAIN recs'[n].data :
            recs'[n].data[j] = Zero \/ recs'[n].data[j].page = entry.start + j - 1
      <3> TAKE j \in DOMAIN recs'[n].data
      <3>1. CASE j \in 1 .. k
        <4>1. recs[n].data[j] = Zero \/ recs[n].data[j].page = recs[n].map.start + j - 1
          BY <1>2, <1>3, <3>1 DEF WriterInv, NoForeignContent
        <4> QED
          BY <1>2, <1>4, <3>1, <4>1
      <3>2. CASE j \in (k + 1) .. (k + Chunk)
        BY <1>1, <1>2, <1>9, <3>2 DEF WriterInv, BufferInv
      <3> QED
        BY <1>8, <3>1, <3>2
    <2> QED
      BY <1>2, <1>4, <2>1 DEF WriterInv, NoForeignContent
  <1>15. NothingUnreadable'
    <2>1. ASSUME ~CanRead(entry), NEW j \in DOMAIN recs'[n].data
          PROVE  recs'[n].data[j] = Zero
      <3>1. CASE j \in 1 .. k
        BY <1>2, <1>3, <1>4, <2>1, <3>1 DEF WriterInv, NothingUnreadable
      <3>2. CASE j \in (k + 1) .. (k + Chunk)
        BY <1>1, <1>2, <1>9, <2>1, <3>2 DEF WriterInv, BufferInv
      <3> QED
        BY <1>8, <3>1, <3>2
    <2> QED
      BY <1>2, <1>4, <2>1 DEF WriterInv, NothingUnreadable
  <1>16. StableInv'
    <2>1. ASSUME Stable(entry), NEW j \in DOMAIN recs'[n].data
          PROVE  Fresh(recs'[n].data[j], entry.start + j - 1)
      <3>1. CASE j \in 1 .. k
        BY <1>2, <1>3, <1>4, <2>1, <3>1 DEF WriterInv, StableInv
      <3>2. CASE j \in (k + 1) .. (k + Chunk)
        BY <1>1, <1>2, <1>9, <2>1, <3>2 DEF WriterInv, StableInv
      <3> QED
        BY <1>8, <3>1, <3>2
    <2>2. ASSUME NEW i \in DOMAIN recs, Stable(recs'[i].map), NEW j \in DOMAIN recs'[i].data
          PROVE  Fresh(recs'[i].data[j], recs'[i].map.start + j - 1)
      <3>1. CASE i = n
        BY <1>2, <1>4, <2>1, <2>2, <3>1
      <3>2. CASE i # n
        BY <1>2, <2>2, <3>2 DEF WriterInv, StableInv
      <3> QED
        BY <3>1, <3>2
    <2>3. \A i \in DOMAIN recs' :
            Stable(recs[i].map)' =>
              \A j \in DOMAIN recs'[i].data : Fresh(recs[i].data[j], recs[i].map.start + j - 1)'
      BY <1>1, <1>2, <2>2 DEF Stable, Fresh, Content, targetVars
    <2>4. \A v \in vmas' : Stable(v)' <=> Stable(v)
      BY <1>1, WriterTarget
    <2>5. /\ vmas' = vmas /\ touched' = touched
      BY <1>1 DEF targetVars
    <2>6. ~(wpc' = "write" /\ Stable(entry)') /\ wpc' # "done"
      BY <1>1 DEF Stable
    <2>7. \A v \in vmas' :
            Stable(v)' /\ v.end <= listed' => \/ \E i \in DOMAIN lines' : lines'[i] = v
                                              \/ \E i \in DOMAIN recs' : recs'[i].map = v
      BY <1>1, <1>2, <1>7, <2>4, <2>5 DEF WriterInv, StableInv
    <2>8. \A v \in vmas' : Pages(v) \cap touched' = {} => listed' <= v.start \/ v.end <= listed'
      BY <1>1, <2>5 DEF WriterInv, StableInv
    <2> QED
      BY <2>3, <2>6, <2>7, <2>8 DEF StableInv
  <1> QED
    BY <1>10, <1>11, <1>12, <1>13, <1>14, <1>15, <1>16 DEF WriterInv

\* Every step of the writer preserves its part of the invariant.
LEMMA WriterKeeps ==
  ASSUME DumpTypeOK, TargetInv, WriterInv, Writer
  PROVE  WriterInv'
  <1>1. CASE WriteHeader
    BY <1>1, MoveWriter DEF WriteHeader
  <1>2. CASE FinishDump
    <2>1. \A v \in vmas : alive => v.end <= listed
      <3> SUFFICES ASSUME NEW v \in vmas, alive, v.end > listed PROVE FALSE
        BY MappingFields DEF DumpTypeOK
      <3> QED
        BY <1>2 DEF FinishDump, Unlisted
    <2> QED
      BY <1>2, <2>1, MoveWriter DEF FinishDump
  <1>3. CASE AbortDump
    BY <1>3, MoveWriter DEF AbortDump
  <1> QED
    BY <1>1, <1>2, <1>3, FetchKeeps, SkipKeeps, StartKeeps, ReadKeeps, WriteKeeps
       DEF Writer, WriterStep

-----------------------------------------------------------------------------
(* The theorems                                                            *)

\* The invariant holds when dump_snapshot begins.
LEMMA DumpInvInit == DumpInit => DumpInv
  <1> SUFFICES ASSUME DumpInit PROVE DumpInv
    OBVIOUS
  <1> USE DumpAssumption
  <1>1. DumpTypeOK
    <2>1. NoEntry \in Mapping
      BY DEF NoEntry, Mapping, Page
    <2>2. Garbage \in Cell
      BY DEF Cell
    <2>3. vmas \subseteq Mapping
      BY DEF DumpInit
    <2>4. version \in [Page -> 0 .. MaxChanges]
      BY DEF DumpInit
    <2>5. buffer \in [0 .. (BUFFER_SIZE - 1) -> Cell]
      BY <2>2 DEF DumpInit
    <2>6. lines \in Seq(Mapping) /\ recs \in Seq([map : Mapping, data : Seq(Cell)])
      BY EmptySeq DEF DumpInit
    <2> QED
      BY <2>1, <2>3, <2>4, <2>5, <2>6 DEF DumpInit, DumpTypeOK
  <1>2. TargetInv
    BY DEF DumpInit, TargetInv
  <1>3. /\ wpc = "header" /\ DOMAIN lines = {} /\ DOMAIN recs = {} /\ listed = 0
    BY EmptySeq, LenProperties DEF DumpInit
  <1>4. /\ LinesInv /\ RecordsInv /\ EntryInv /\ BufferInv /\ NoForeignContent
        /\ NothingUnreadable
    BY <1>3 DEF LinesInv, RecordsInv, EntryInv, Within, BufferInv, NoForeignContent,
                NothingUnreadable
  <1>5. \A v \in vmas : listed <= v.start /\ ~(v.end <= listed)
    BY <1>1, <1>3, MappingFields DEF DumpTypeOK
  <1>6. StableInv
    BY <1>3, <1>5 DEF StableInv
  <1> QED
    BY <1>1, <1>2, <1>4, <1>6 DEF DumpInv

\* Every step of the writer and of the target's other threads preserves the invariant.
LEMMA DumpInvNext == DumpInv /\ [DumpNext]_dumpVars => DumpInv'
  <1> SUFFICES ASSUME DumpInv, [DumpNext]_dumpVars PROVE DumpInv'
    OBVIOUS
  <1>1. CASE Writer
    <2>1. UNCHANGED targetVars
      BY <1>1 DEF Writer, WriterStep, WriteHeader, FetchLines, SkipMapping, StartMapping,
                  ReadChunk, WriteChunk, FinishDump, AbortDump
    <2>2. DumpTypeOK'
      BY <1>1, WriterTypes DEF DumpInv
    <2>3. TargetInv'
      BY <2>1, WriterTarget DEF DumpInv
    <2>4. WriterInv'
      BY <1>1, WriterKeeps DEF DumpInv, WriterInv
    <2> QED
      BY <2>2, <2>3, <2>4 DEF DumpInv, WriterInv
  <1>2. CASE OtherThreads
    <2>1. DumpTypeOK' /\ TargetInv' /\ TargetStep
      BY <1>2, OtherThreadsTarget DEF DumpInv
    <2> QED
      BY <2>1, OtherThreadsWriter, OtherThreadsStable DEF DumpInv
  <1>3. CASE UNCHANGED dumpVars
    <2> USE <1>3 DEF dumpVars
    <2>1. DumpTypeOK' /\ TargetInv'
      BY DEF DumpInv, DumpTypeOK, TargetInv
    <2>2. LinesInv' /\ RecordsInv' /\ EntryInv' /\ NoForeignContent' /\ NothingUnreadable'
      BY DEF DumpInv, LinesInv, RecordsInv, EntryInv, Within, NoForeignContent,
             NothingUnreadable
    <2>3. BufferInv' /\ StableInv'
      BY DEF DumpInv, BufferInv, StableInv, Chunk, Stable, Fresh, Content
    <2> QED
      BY <2>1, <2>2, <2>3 DEF DumpInv
  <1> QED
    BY <1>1, <1>2, <1>3 DEF DumpNext

\* The inductive invariant of the dump, for every layout of the target's memory, every
\* size of local_buffer and every number of changes that other threads make meanwhile.
THEOREM DumpInvariant == DumpSpec => []DumpInv
  <1> QED
    BY DumpInvInit, DumpInvNext, PTL DEF DumpSpec

\* Every variable of the dump keeps its type.
THEOREM DumpTypeCorrect == DumpSpec => []DumpTypeOK
  <1>1. DumpInv => DumpTypeOK
    BY DEF DumpInv
  <1> QED
    BY <1>1, DumpInvariant, PTL

\* local_buffer never carries content from one page's place to another's
\* (mappings_reader.c: dump_mappings_content).
THEOREM ContentInPlace == DumpSpec => []NoForeignContent
  <1>1. DumpInv => NoForeignContent
    BY DEF DumpInv
  <1> QED
    BY <1>1, DumpInvariant, PTL

\* Nothing of a mapping without read permission is written (mappings_reader.c: the
\* branch of entries that cannot be read).
THEOREM UnreadableIsZero == DumpSpec => []NothingUnreadable
  <1>1. DumpInv => NothingUnreadable
    BY DEF DumpInv
  <1> QED
    BY <1>1, DumpInvariant, PTL

\* A finished file is a sequence of whole records in the order of their addresses,
\* whatever changed while the maps file was read (snapshot_dump.c, maps_parser.c).
THEOREM FileWellFormed == DumpSpec => []WellFormed
  <1>1. DumpInv => WellFormed
    BY DEF DumpInv, RecordsInv, WellFormed
  <1> QED
    BY <1>1, DumpInvariant, PTL

\* What the invariant says of mappings that no other thread touched, once the file is
\* finished.
LEMMA StableInFile == DumpInv => StableMappingsDumped
  <1>1. ASSUME DumpInv, wpc = "done", NEW v \in vmas, v.kind = "plain", CanRead(v),
               Pages(v) \cap touched = {}, alive \/ v.end <= listed
        PROVE  \E i \in DOMAIN recs :
                 /\ recs[i].map = v
                 /\ Len(recs[i].data) = Size(v)
                 /\ \A j \in 1 .. Size(v) : \/ recs[i].data[j] = Content(v.start + j - 1)
                                            \/ ~alive /\ recs[i].data[j] = Zero
    <2>1. Stable(v)
      BY <1>1 DEF Stable
    <2>2. lines = <<>> /\ v.end <= listed
      BY <1>1 DEF DumpInv, StableInv
    <2>3. DOMAIN lines = {}
      BY <2>2, EmptySeq, LenProperties
    <2>4. PICK i \in DOMAIN recs : recs[i].map = v
      BY <1>1, <2>1, <2>2, <2>3 DEF DumpInv, StableInv
    <2>5. Len(recs[i].data) = Size(v)
      BY <1>1, <2>4 DEF DumpInv, RecordsInv
    <2>6. DOMAIN recs[i].data = 1 .. Size(v)
      BY <1>1, <2>5, RecordsFacts DEF DumpInv
    <2>7. \A j \in 1 .. Size(v) : Fresh(recs[i].data[j], v.start + j - 1)
      BY <1>1, <2>1, <2>4, <2>6 DEF DumpInv, StableInv
    <2> QED
      BY <2>4, <2>5, <2>7 DEF Fresh
  <1> QED
    BY <1>1 DEF StableMappingsDumped

\* A mapping that no other thread touched is in a finished file with its content, however
\* many changes there were elsewhere (mappings_reader.c, maps_parser.c).
THEOREM StableMappingsKept == DumpSpec => []StableMappingsDumped
  <1> QED
    BY StableInFile, DumpInvariant, PTL

=============================================================================
