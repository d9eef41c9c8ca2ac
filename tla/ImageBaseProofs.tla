--------------------------- MODULE ImageBaseProofs --------------------------
(***************************************************************************)
(* Proofs about ImageBase, for every word and page size, every executable, *)
(* load address and request, and any number of replacements of the file.   *)
(***************************************************************************)
EXTENDS ImageBase, TLAPS

\* Before the link, the program headers and the maps are read nothing is known.
UnreadInv ==
  /\ pc \in {"parse", "fork", "open", "readlink"} => info.path = "path"
  /\ pc \in {"parse", "fork", "open", "readlink", "type"} => i = 1 /\ min_vaddr = SIZE_MAX
  /\ pc \in {"parse", "fork", "open", "readlink", "type", "headers"} =>
       at = 0 /\ min_maps_addr = SIZE_MAX
  /\ pc \in {"parse", "fork", "open", "readlink", "type", "headers", "maps"} => image_base = 0

\* What the target executes: a file no newer than the one that is opened after it.
TargetInv ==
  /\ pc \in {"parse", "fork"} => target.state = "none"
  /\ target.state \in {"none", "before_exec"} => target.file = NoFile
  /\ target.state = "exec" => target.file # NoFile
  /\ target.file # NoFile =>
       /\ Executable(content[target.file])
       /\ target.bias \in IF content[target.file].e_type = "dyn" THEN Biases ELSE {0}
  /\ pc \in {"readlink", "type", "headers", "maps", "close", "done"} =>
       target.file <= info.file

\* The file that is open: a name with "(deleted)" is one that the path no longer has.
OpenedInv ==
  /\ info.path = "deleted" => info.file < current
  /\ pc \in {"headers", "maps"} => Opened.e_type = "dyn"
  /\ pc \in {"close", "done"} => Opened.e_type \in {"dyn", "exec"}

\* The least address of the loaded segments among the headers that were read.
HeadersInv ==
  /\ \A n \in 1 .. (i - 1) : Opened.phdrs[n].load => min_vaddr <= Opened.phdrs[n].p_vaddr
  /\ \/ min_vaddr = SIZE_MAX
     \/ \E n \in 1 .. (i - 1) : Opened.phdrs[n].load /\ Opened.phdrs[n].p_vaddr = min_vaddr
  /\ pc \in {"maps", "close", "done"} /\ Opened.e_type = "dyn" => i > Len(Opened.phdrs)

\* Where the target has, or had until it died, the file it executes.
FileLines ==
  {target.bias + PageStart(h.p_vaddr) : h \in {g \in Loads(content[target.file]) : g.backed}}

\* A line with the name was found: the file is the executed one, unless both were
\* deleted, and then the line is its lowest.  None was found yet: the lines are all
\* to come, unless the file was deleted since readlink.
FoundInv ==
  /\ min_maps_addr # SIZE_MAX /\ info.path = "path" => info.file = target.file
  /\ info.file = target.file =>
       IF min_maps_addr # SIZE_MAX
       THEN min_maps_addr \in FileLines /\ \A s \in FileLines : min_maps_addr <= s
       ELSE Name(target.file) = info.path /\ pc \in {"readlink", "type", "headers", "maps"} =>
              \A s \in FileLines : at <= s

\* The numbers computed so far.
SumsInv ==
  /\ pc \notin {"parse", "exit1"} => addr = (request % Mod64) % WordMod
  /\ pc \in {"close", "done"} =>
       IF Opened.e_type = "dyn"
       THEN min_maps_addr # SIZE_MAX /\ image_base = (min_maps_addr - min_vaddr) % Mod64
       ELSE image_base = 0
  /\ pc = "done" => hook = ((image_base % WordMod) + addr) % WordMod

\* The inductive invariant: what main() has computed at each of its steps, from a file
\* that may have been replaced and a target that may have died since (main.c:25-58,
\* process_info.c).
ImageBaseInv ==
  /\ ImageBaseTypeOK
  /\ UnreadInv
  /\ TargetInv
  /\ OpenedInv
  /\ HeadersInv
  /\ FoundInv
  /\ SumsInv

-----------------------------------------------------------------------------
(* Arithmetic modulo a word                                                *)

\* A number is its quotient and its remainder, as uintptr_t arithmetic wraps.
LEMMA Division ==
  ASSUME NEW a \in Int, NEW m \in Nat \ {0}
  PROVE  /\ a \div m \in Int
         /\ a % m \in 0 .. (m - 1)
         /\ a = m * (a \div m) + (a % m)
  OBVIOUS

\* Whole words more or less are not seen in a word.
LEMMA ModPlus ==
  ASSUME NEW q \in Int, NEW r \in Int, NEW m \in Nat \ {0}
  PROVE  (m * q + r) % m = r % m
<1> DEFINE k == r \div m
<1>1. k \in Int /\ r % m \in 0 .. (m - 1) /\ r = m * k + (r % m)
  BY Division
<1> HIDE DEF k
<1> DEFINE s == r % m
<1>2. s \in 0 .. (m - 1) /\ r = m * k + s
  BY <1>1
<1> HIDE DEF s
<1>3. m * q + r = m * (q + k) + s /\ q + k \in Int
  BY <1>1, <1>2
<1>4. \A x \in Int : (m * x + s) % m = s
  BY <1>2
<1>5. (m * q + r) % m = s
  BY <1>3, <1>4
<1> QED
  BY <1>5 DEF s

\* The conversion from uint64_t to uintptr_t is the one from the integers.
LEMMA ModMod ==
  ASSUME NEW a \in Int, NEW m \in Nat \ {0}, NEW w \in Nat \ {0}, m % w = 0
  PROVE  (a % m) % w = a % w
<1> DEFINE q == a \div m
           r == a % m
           k == m \div w
<1>1. q \in Int /\ r \in Int /\ a = m * q + r
  BY Division
<1>2. k \in Int /\ m = w * k
  BY Division
<1> HIDE DEF q, r, k
<1>3. a = w * (k * q) + r /\ k * q \in Int
  BY <1>1, <1>2
<1>4. (w * (k * q) + r) % w = r % w
  BY <1>1, <1>3, ModPlus
<1> QED
  BY <1>3, <1>4 DEF r

\* Adding words wraps like adding the numbers they stand for.
LEMMA ModAdd ==
  ASSUME NEW a \in Int, NEW b \in Int, NEW w \in Nat \ {0}
  PROVE  ((a % w) + (b % w)) % w = (a + b) % w
<1> DEFINE q == a \div w
           r == a % w
           k == b \div w
           s == b % w
<1>1. q \in Int /\ r \in Int /\ a = w * q + r
  BY Division
<1>2. k \in Int /\ s \in Int /\ b = w * k + s
  BY Division
<1> HIDE DEF q, r, k, s
<1>3. a + b = w * (q + k) + (r + s) /\ q + k \in Int /\ r + s \in Int
  BY <1>1, <1>2
<1>4. (w * (q + k) + (r + s)) % w = (r + s) % w
  BY <1>3, ModPlus
<1> QED
  BY <1>3, <1>4 DEF r, s

\* A page begins at or before its addresses, and after all earlier page boundaries.
LEMMA PageStartBounds ==
  ASSUME NEW a \in Nat
  PROVE  /\ PageStart(a) \in Nat /\ PageStart(a) <= a
         /\ \A b \in Nat : b <= a /\ b % PageSize = 0 => b <= PageStart(a)
         /\ a % PageSize = 0 => PageStart(a) = a
<1>1. PageSize \in Nat \ {0}
  BY ImageBaseAssumption
<1> DEFINE q == a \div PageSize
           r == a % PageSize
<1>2. q \in Int /\ r \in 0 .. (PageSize - 1) /\ a = PageSize * q + r
  BY <1>1, Division
<1> HIDE DEF q, r
<1>3. PageStart(a) = PageSize * q /\ PageStart(a) = a - r
  BY <1>1, <1>2 DEF PageStart, r
<1>4. q >= 0
  <2>1. SUFFICES ASSUME q <= -1 PROVE FALSE
    BY <1>2
  <2>2. PageSize * q <= PageSize * (-1)
    BY <1>1, <1>2, <2>1
  <2> QED
    BY <1>1, <1>2, <2>2
<1>5. PageStart(a) \in Nat /\ PageStart(a) <= a
  <2>1. PageSize * q \in Nat
    BY <1>1, <1>2, <1>4
  <2> QED
    BY <1>2, <1>3, <2>1
<1>6. ASSUME NEW b \in Nat, b <= a, b % PageSize = 0
      PROVE  b <= PageStart(a)
  <2> DEFINE k == b \div PageSize
  <2>1. k \in Int /\ b = PageSize * k
    BY <1>1, <1>6, Division
  <2> HIDE DEF k
  <2>2. k <= q
    <3>1. SUFFICES ASSUME k >= q + 1 PROVE FALSE
      BY <1>2, <2>1
    <3>2. PageSize * k >= PageSize * (q + 1)
      BY <1>1, <1>2, <2>1, <3>1
    <3>3. PageSize * (q + 1) = PageSize * q + PageSize
      BY <1>1, <1>2
    <3> QED
      BY <1>1, <1>2, <1>6, <2>1, <3>2, <3>3
  <2>3. PageSize * k <= PageSize * q
    BY <1>1, <1>2, <2>1, <2>2
  <2> QED
    BY <1>3, <2>1, <2>3
<1>7. a % PageSize = 0 => PageStart(a) = a
  BY DEF PageStart
<1> QED
  BY <1>5, <1>6, <1>7

-----------------------------------------------------------------------------
(* Files and their lines                                                   *)

\* A file's headers are those of an ELF file.
LEMMA ImageTypes ==
  ASSUME NEW c \in Images
  PROVE  /\ c \in Image
         /\ c.phdrs \in Seq([load : BOOLEAN, p_vaddr : 0 .. (SIZE_MAX - 1), backed : BOOLEAN])
         /\ Len(c.phdrs) \in Nat /\ DOMAIN c.phdrs = 1 .. Len(c.phdrs)
         /\ \A h \in Headers(c) : h.load \in BOOLEAN /\ h.p_vaddr \in 0 .. (SIZE_MAX - 1)
<1> DEFINE Header == [load : BOOLEAN, p_vaddr : 0 .. (SIZE_MAX - 1), backed : BOOLEAN]
<1>1. c \in Image
  BY ImageBaseAssumption
<1>2. c.phdrs \in Seq(Header)
  BY <1>1 DEF Image
<1>3. Len(c.phdrs) \in Nat /\ DOMAIN c.phdrs = 1 .. Len(c.phdrs)
  BY <1>2
<1>4. \A h \in Headers(c) : h \in Header
  <2> HIDE DEF Header
  <2>1. \A n \in 1 .. Len(c.phdrs) : c.phdrs[n] \in Header
    BY <1>2
  <2> QED
    BY <1>3, <2>1 DEF Headers
<1> QED
  BY <1>1, <1>2, <1>3, <1>4

\* What the constants are.
LEMMA Sizes ==
  /\ WordMod \in Nat \ {0} /\ Mod64 \in Nat \ {0} /\ SIZE_MAX \in Nat /\ SIZE_MAX + 1 = WordMod
  /\ Requests \subseteq Int /\ MaxReplaced \in Nat
  /\ \A b \in Biases : b \in Nat /\ b <= SIZE_MAX
  /\ \A s \in OtherLines : s \in 0 .. (SIZE_MAX - 1)
  BY ImageBaseAssumption DEF SIZE_MAX

\* The kernel maps a file below the last address, which get_image_base uses to say that
\* it found nothing.
LEMMA LinesInWord ==
  ASSUME ImageBaseTypeOK, TargetInv
  PROVE  /\ target.file # NoFile => FileLines \subseteq 0 .. (SIZE_MAX - 1)
         /\ OwnLines \subseteq 0 .. (SIZE_MAX - 1) /\ Lines \subseteq 0 .. (SIZE_MAX - 1)
         /\ OwnLines # {} => target.file # NoFile /\ OwnLines = FileLines
<1>1. ASSUME target.file # NoFile, NEW h \in Loads(content[target.file])
      PROVE  target.bias + PageStart(h.p_vaddr) \in 0 .. (SIZE_MAX - 1)
  <2> DEFINE c == content[target.file]
  <2>1. c \in Images
    BY <1>1 DEF ImageBaseTypeOK
  <2>2. h \in Headers(c) /\ h.p_vaddr \in 0 .. (SIZE_MAX - 1)
    BY <2>1, ImageTypes DEF Loads
  <2>3. target.bias \in Nat /\ target.bias + h.p_vaddr < SIZE_MAX
    <3>1. CASE target.bias \in Biases
      <4>1. \A b \in Biases, d \in Images : \A g \in Headers(d) : b + g.p_vaddr < SIZE_MAX
        BY ImageBaseAssumption
      <4>2. target.bias + h.p_vaddr < SIZE_MAX
        BY <2>1, <2>2, <3>1, <4>1
      <4>3. target.bias \in Nat
        BY <3>1, Sizes
      <4> QED
        BY <4>2, <4>3
    <3>2. CASE target.bias = 0
      BY <2>2, <3>2, Sizes
    <3> QED
      BY <1>1, <3>1, <3>2 DEF TargetInv
  <2>4. PageStart(h.p_vaddr) \in Nat /\ PageStart(h.p_vaddr) <= h.p_vaddr
    BY <2>2, Sizes, PageStartBounds
  <2> QED
    BY <2>2, <2>3, <2>4, Sizes
<1>2. target.file # NoFile => FileLines \subseteq 0 .. (SIZE_MAX - 1)
  BY <1>1 DEF FileLines
<1>3. OwnLines # {} => target.file # NoFile /\ OwnLines = FileLines
  BY DEF OwnLines, FileLines, TargetInv
<1> QED
  BY <1>2, <1>3, Sizes DEF Lines

\* Replacing the file does not change one that is open or executed.
LEMMA ReplaceKeeps ==
  ASSUME ImageBaseTypeOK, Replace
  PROVE  /\ \A f \in 0 .. current : content'[f] = content[f]
         /\ Opened' = Opened
         /\ target.file # NoFile => content'[target.file] = content[target.file]
         /\ target.file # NoFile => FileLines' = FileLines
<1>1. current \in Nat /\ \A f \in 0 .. current : content'[f] = content[f]
  BY Sizes DEF Replace, ImageBaseTypeOK
<1>2. Opened' = Opened
  BY <1>1 DEF Replace, ImageBaseTypeOK, Opened, elfVars
<1>3. target' = target /\ (target.file # NoFile => content'[target.file] = content[target.file])
  BY <1>1 DEF Replace, ImageBaseTypeOK
<1>4. target.file # NoFile => FileLines' = FileLines
  BY <1>3 DEF FileLines
<1> QED
  BY <1>1, <1>2, <1>3, <1>4

-----------------------------------------------------------------------------
(* The invariant is inductive                                              *)

\* It holds when main() starts.
LEMMA InitInv == Init => ImageBaseInv
<1>1. SUFFICES ASSUME Init PROVE ImageBaseInv
  OBVIOUS
<1>2. ImageBaseTypeOK
  <2>1. content \in [0 .. 0 -> Images] /\ content[0] \in Images
    BY <1>1 DEF Init
  <2>2. Len(Opened.phdrs) \in Nat
    BY <1>1, <2>1, ImageTypes DEF Init, Opened
  <2> QED
    BY <1>1, <2>1, <2>2, Sizes DEF Init, ImageBaseTypeOK, NoFile
<1>3. UnreadInv /\ TargetInv /\ OpenedInv
  BY <1>1 DEF Init, UnreadInv, TargetInv, OpenedInv, NoFile
<1>4. HeadersInv
  BY <1>1 DEF Init, HeadersInv
<1>5. FoundInv /\ SumsInv
  BY <1>1 DEF Init, FoundInv, SumsInv, NoFile
<1> QED
  BY <1>2, <1>3, <1>4, <1>5 DEF ImageBaseInv

\* Nothing is found before it is looked for.
LEMMA UnreadNext ==
  ASSUME ImageBaseInv, [Next]_vars
  PROVE  UnreadInv'
<1> USE DEF ImageBaseInv, UnreadInv
<1> USE DEF userVars, diskVars, elfVars, mapsVars, Goto, Fatal
<1>1. CASE ParseOffset
  BY <1>1 DEF ParseOffset
<1>2. CASE ParseFails
  BY <1>2 DEF ParseFails
<1>3. CASE ForkChild
  BY <1>3 DEF ForkChild
<1>4. CASE OpenElf
  BY <1>4 DEF OpenElf
<1>5. CASE ReadLink
  BY <1>5 DEF ReadLink
<1>6. CASE IsPie
  BY <1>6 DEF IsPie
<1>7. CASE ReadHeader
  BY <1>7 DEF ReadHeader
<1>8. CASE OpenMaps
  BY <1>8 DEF OpenMaps
<1>9. CASE ReadLine
  BY <1>9 DEF ReadLine
<1>10. CASE EndOfMaps
  BY <1>10 DEF EndOfMaps
<1>11. CASE SetHook
  BY <1>11 DEF SetHook
<1>12. CASE GetImageBaseFails
  BY <1>12 DEF GetImageBaseFails
<1>13. CASE Replace
  BY <1>13 DEF Replace
<1>14. CASE TargetDies
  BY <1>14 DEF TargetDies
<1>15. CASE UNCHANGED vars
  BY <1>15 DEF vars
<1> QED
  BY <1>1, <1>2, <1>3, <1>4, <1>5, <1>6, <1>7, <1>8, <1>9,
     <1>10, <1>11, <1>12, <1>13, <1>14, <1>15 DEF Next, Tracer

\* What is executed does not depend on what the path names later.
LEMMA TargetNext ==
  ASSUME ImageBaseInv, [Next]_vars
  PROVE  TargetInv'
<1> USE DEF userVars, diskVars, elfVars, mapsVars, Goto, Fatal
<1> USE DEF ImageBaseInv, TargetInv, NoFile
<1>t. ImageBaseTypeOK /\ current \in Nat
  BY Sizes DEF ImageBaseTypeOK
<1>1. CASE ParseOffset
  BY <1>1 DEF ParseOffset
<1>2. CASE ParseFails
  BY <1>2 DEF ParseFails
<1>3. CASE ForkChild
  BY <1>3, <1>t DEF ForkChild, ImageBaseTypeOK, Executable
<1>4. CASE OpenElf
  BY <1>4, <1>t DEF OpenElf, ImageBaseTypeOK, Executable
<1>5. CASE ReadLink
  BY <1>5, <1>t DEF ReadLink, ImageBaseTypeOK
<1>6. CASE IsPie
  BY <1>6 DEF IsPie
<1>7. CASE ReadHeader
  BY <1>7 DEF ReadHeader
<1>8. CASE OpenMaps
  BY <1>8 DEF OpenMaps
<1>9. CASE ReadLine
  BY <1>9 DEF ReadLine
<1>10. CASE EndOfMaps
  BY <1>10 DEF EndOfMaps
<1>11. CASE SetHook
  BY <1>11 DEF SetHook
<1>12. CASE GetImageBaseFails
  BY <1>12 DEF GetImageBaseFails
<1>13. CASE Replace
  BY <1>13, <1>t, ReplaceKeeps DEF Replace, ImageBaseTypeOK, Executable
<1>14. CASE TargetDies
  BY <1>14, <1>t DEF TargetDies, ImageBaseTypeOK
<1>15. CASE UNCHANGED vars
  BY <1>15 DEF vars
<1> QED
  BY <1>1, <1>2, <1>3, <1>4, <1>5, <1>6, <1>7, <1>8, <1>9,
     <1>10, <1>11, <1>12, <1>13, <1>14, <1>15 DEF Next, Tracer

\* The name tells a deleted file from one that the path has.
LEMMA OpenedNext ==
  ASSUME ImageBaseInv, [Next]_vars
  PROVE  OpenedInv'
<1> USE DEF userVars, diskVars, elfVars, mapsVars, Goto, Fatal
<1> USE DEF ImageBaseInv, OpenedInv, Opened
<1>t. ImageBaseTypeOK /\ current \in Nat
  BY Sizes DEF ImageBaseTypeOK
<1>1. CASE ParseOffset
  BY <1>1 DEF ParseOffset
<1>2. CASE ParseFails
  BY <1>2 DEF ParseFails
<1>3. CASE ForkChild
  BY <1>3 DEF ForkChild
<1>4. CASE OpenElf
  BY <1>4, <1>t DEF OpenElf, ImageBaseTypeOK, UnreadInv
<1>5. CASE ReadLink
  BY <1>5, <1>t DEF ReadLink, ImageBaseTypeOK, Name
<1>6. CASE IsPie
  BY <1>6 DEF IsPie
<1>7. CASE ReadHeader
  BY <1>7 DEF ReadHeader
<1>8. CASE OpenMaps
  BY <1>8 DEF OpenMaps
<1>9. CASE ReadLine
  BY <1>9 DEF ReadLine
<1>10. CASE EndOfMaps
  BY <1>10 DEF EndOfMaps
<1>11. CASE SetHook
  BY <1>11 DEF SetHook
<1>12. CASE GetImageBaseFails
  BY <1>12 DEF GetImageBaseFails
<1>13. CASE Replace
  BY <1>13, <1>t, ReplaceKeeps DEF Replace, ImageBaseTypeOK
<1>14. CASE TargetDies
  BY <1>14 DEF TargetDies
<1>15. CASE UNCHANGED vars
  BY <1>15 DEF vars
<1> QED
  BY <1>1, <1>2, <1>3, <1>4, <1>5, <1>6, <1>7, <1>8, <1>9,
     <1>10, <1>11, <1>12, <1>13, <1>14, <1>15 DEF Next, Tracer

\* The headers of the file that is open.
LEMMA OpenedTypes ==
  ASSUME ImageBaseTypeOK
  PROVE  /\ Opened \in Images /\ Len(Opened.phdrs) \in Nat /\ i \in Nat
         /\ \A n \in 1 .. Len(Opened.phdrs) :
              /\ Opened.phdrs[n] \in Headers(Opened)
              /\ Opened.phdrs[n].load \in BOOLEAN
              /\ Opened.phdrs[n].p_vaddr \in 0 .. (SIZE_MAX - 1)
<1>1. Opened \in Images
  BY DEF ImageBaseTypeOK, Opened
<1>2. \A n \in 1 .. Len(Opened.phdrs) : Opened.phdrs[n] \in Headers(Opened)
  BY <1>1, ImageTypes DEF Headers
<1> QED
  BY <1>1, <1>2, ImageTypes DEF ImageBaseTypeOK

\* Every variable keeps its type.
LEMMA TypeNext ==
  ASSUME ImageBaseInv, [Next]_vars
  PROVE  ImageBaseTypeOK'
<1> USE DEF userVars, diskVars, elfVars, mapsVars, Goto, Fatal
<1> USE DEF ImageBaseTypeOK
<1>t. ImageBaseTypeOK /\ UnreadInv /\ TargetInv /\ current \in Nat
  BY Sizes DEF ImageBaseInv
<1>o. Opened \in Images /\ Len(Opened.phdrs) \in Nat /\ i \in Nat
  BY <1>t, OpenedTypes
<1>1. CASE ParseOffset
  <2>1. request \in Int /\ request % Mod64 \in Int
    BY <1>t, Sizes
  <2>2. addr' \in 0 .. SIZE_MAX
    BY <1>1, <2>1, Sizes, Division DEF ParseOffset
  <2> QED
    BY <1>1, <1>t, <2>2 DEF ParseOffset, Opened
<1>2. CASE ParseFails
  BY <1>2, <1>t DEF ParseFails, Opened
<1>3. CASE ForkChild
  <2>1. target' \in [state : {"none", "before_exec", "exec", "dead"},
                     file : {NoFile} \cup 0 .. current, bias : Biases \cup {0}]
    BY <1>3, <1>t DEF ForkChild
  <2> QED
    BY <1>3, <1>t, <2>1 DEF ForkChild, Opened
<1>4. CASE OpenElf
  <2>1. content[current] \in Images
    BY <1>t
  <2>2. i' \in 1 .. (Len(Opened'.phdrs) + 1)
    BY <1>4, <1>t, <2>1, ImageTypes DEF OpenElf, Opened, UnreadInv
  <2> QED
    BY <1>4, <1>t, <2>2 DEF OpenElf
<1>5. CASE ReadLink
  BY <1>5, <1>t DEF ReadLink, Opened, Name
<1>6. CASE IsPie
  BY <1>6, <1>t DEF IsPie, Opened
<1>7. CASE ReadHeader
  <2>1. min_vaddr' \in 0 .. SIZE_MAX
    BY <1>7, <1>t, <1>o, OpenedTypes, Sizes DEF ReadHeader
  <2>2. i' \in 1 .. (Len(Opened.phdrs) + 1)
    BY <1>7, <1>t, <1>o DEF ReadHeader
  <2> QED
    BY <1>7, <1>t, <2>1, <2>2 DEF ReadHeader, Opened
<1>8. CASE OpenMaps
  BY <1>8, <1>t DEF OpenMaps, Opened
<1>9. CASE ReadLine
  <2>1. PICK start \in Lines : at' = start + 1 /\ min_maps_addr' \in {start, min_maps_addr}
    BY <1>9 DEF ReadLine
  <2>2. start \in 0 .. (SIZE_MAX - 1)
    BY <1>t, LinesInWord
  <2>3. at' \in 0 .. WordMod /\ min_maps_addr' \in 0 .. SIZE_MAX
    BY <1>t, <2>1, <2>2, Sizes
  <2> QED
    BY <1>9, <1>t, <2>3 DEF ReadLine, Opened
<1>10. CASE EndOfMaps
  <2>1. image_base' \in 0 .. (Mod64 - 1)
    BY <1>10, <1>t, Sizes, Division DEF EndOfMaps
  <2> QED
    BY <1>10, <1>t, <2>1 DEF EndOfMaps, Opened
<1>11. CASE SetHook
  <2> DEFINE sum == (image_base % WordMod) + addr
  <2>1. sum \in Int
    BY <1>t, Sizes, Division
  <2>2. hook' = sum % WordMod
    BY <1>11 DEF SetHook
  <2> HIDE DEF sum
  <2>3. hook' \in 0 .. SIZE_MAX
    BY <2>1, <2>2, Sizes, Division
  <2> QED
    BY <1>11, <1>t, <2>3 DEF SetHook, Opened
<1>12. CASE GetImageBaseFails
  BY <1>12, <1>t DEF GetImageBaseFails, Opened
<1>13. CASE Replace
  <2>1. current' \in 0 .. MaxReplaced /\ current' = current + 1
    BY <1>13, <1>t, Sizes DEF Replace
  <2>2. content' \in [0 .. current' -> Images]
    BY <1>13, <1>t DEF Replace
  <2>3. Opened' = Opened
    BY <1>13, <1>t, ReplaceKeeps
  <2>4. i' \in 1 .. (Len(Opened'.phdrs) + 1)
    BY <1>13, <1>t, <2>3 DEF Replace
  <2> QED
    BY <1>13, <1>t, <2>1, <2>2, <2>4 DEF Replace
<1>14. CASE TargetDies
  BY <1>14, <1>t DEF TargetDies, Opened
<1>15. CASE UNCHANGED vars
  BY <1>15, <1>t DEF vars, Opened
<1> QED
  BY <1>1, <1>2, <1>3, <1>4, <1>5, <1>6, <1>7, <1>8, <1>9,
     <1>10, <1>11, <1>12, <1>13, <1>14, <1>15 DEF Next, Tracer

\* The loop of get_min_vaddr keeps the least address so far.
LEMMA HeadersNext ==
  ASSUME ImageBaseInv, [Next]_vars
  PROVE  HeadersInv'
<1> USE DEF userVars, diskVars, elfVars, mapsVars, Goto, Fatal
<1>t. ImageBaseTypeOK /\ UnreadInv /\ OpenedInv /\ HeadersInv
  BY DEF ImageBaseInv
<1>o. Opened \in Images /\ Len(Opened.phdrs) \in Nat /\ i \in Nat
  BY <1>t, OpenedTypes
<1>s. ASSUME Opened' = Opened, i' = i, min_vaddr' = min_vaddr,
             pc' \in {"maps", "close", "done"} /\ Opened.e_type = "dyn" =>
               pc \in {"maps", "close", "done"} \/ i > Len(Opened.phdrs)
      PROVE  HeadersInv'
  BY <1>t, <1>s DEF HeadersInv
<1>1. CASE ParseOffset
  BY <1>1, <1>s DEF ParseOffset, Opened
<1>2. CASE ParseFails
  BY <1>2, <1>s DEF ParseFails, Opened
<1>3. CASE ForkChild
  BY <1>3, <1>s DEF ForkChild, Opened
<1>4. CASE OpenElf
  BY <1>4, <1>t, <1>o DEF OpenElf, HeadersInv, UnreadInv
<1>5. CASE ReadLink
  BY <1>5, <1>s DEF ReadLink, Opened
<1>6. CASE IsPie
  BY <1>6, <1>s DEF IsPie, Opened
<1>7. CASE ReadHeader
  <2> DEFINE h == Opened.phdrs[i]
  <2>1. i \in 1 .. Len(Opened.phdrs) /\ i' = i + 1 /\ pc' = "headers" /\ Opened' = Opened
    BY <1>7, <1>t, <1>o DEF ReadHeader, ImageBaseTypeOK, Opened
  <2>2. h.load \in BOOLEAN /\ h.p_vaddr \in 0 .. (SIZE_MAX - 1)
    BY <1>t, <2>1, OpenedTypes
  <2>3. min_vaddr' = IF h.load /\ h.p_vaddr < min_vaddr THEN h.p_vaddr ELSE min_vaddr
    BY <1>7 DEF ReadHeader
  <2>4. min_vaddr \in Nat /\ SIZE_MAX \in Nat
    BY <1>t, Sizes DEF ImageBaseTypeOK
  <2>5. min_vaddr' <= min_vaddr /\ (h.load => min_vaddr' <= h.p_vaddr)
    BY <2>2, <2>3, <2>4
  <2>6. ASSUME NEW n \in 1 .. (i' - 1), Opened.phdrs[n].load
        PROVE  min_vaddr' <= Opened.phdrs[n].p_vaddr
    <3>1. CASE n = i
      BY <2>5, <2>6, <3>1
    <3>2. CASE n \in 1 .. (i - 1)
      <4>1. min_vaddr <= Opened.phdrs[n].p_vaddr
        BY <1>t, <2>6, <3>2 DEF HeadersInv
      <4>2. Opened.phdrs[n].p_vaddr \in 0 .. (SIZE_MAX - 1)
        BY <1>t, <1>o, <2>1, <3>2, OpenedTypes
      <4> QED
        BY <2>2, <2>3, <2>4, <2>5, <4>1, <4>2
    <3> QED
      BY <1>o, <2>1, <3>1, <3>2
  <2>7. \/ min_vaddr' = SIZE_MAX
        \/ \E n \in 1 .. (i' - 1) : Opened.phdrs[n].load /\ Opened.phdrs[n].p_vaddr = min_vaddr'
    <3>1. CASE h.load /\ h.p_vaddr < min_vaddr
      <4>1. i \in 1 .. (i' - 1)
        BY <2>1
      <4> QED
        BY <2>3, <3>1, <4>1
    <3>2. CASE min_vaddr' = min_vaddr
      BY <1>t, <1>o, <2>1, <3>2 DEF HeadersInv
    <3> QED
      BY <2>3, <3>1, <3>2
  <2> QED
    BY <2>1, <2>6, <2>7 DEF HeadersInv
<1>8. CASE OpenMaps
  BY <1>8, <1>s DEF OpenMaps, Opened
<1>9. CASE ReadLine
  BY <1>9, <1>s DEF ReadLine, Opened
<1>10. CASE EndOfMaps
  BY <1>10, <1>s DEF EndOfMaps, Opened
<1>11. CASE SetHook
  BY <1>11, <1>s DEF SetHook, Opened
<1>12. CASE GetImageBaseFails
  BY <1>12, <1>s DEF GetImageBaseFails, Opened
<1>13. CASE Replace
  BY <1>13, <1>s, <1>t, ReplaceKeeps DEF Replace
<1>14. CASE TargetDies
  BY <1>14, <1>s DEF TargetDies, Opened
<1>15. CASE UNCHANGED vars
  BY <1>15, <1>s DEF vars, Opened
<1> QED
  BY <1>1, <1>2, <1>3, <1>4, <1>5, <1>6, <1>7, <1>8, <1>9,
     <1>10, <1>11, <1>12, <1>13, <1>14, <1>15 DEF Next, Tracer

\* The sums are those of what was found, in 64 bits and then in a word.
LEMMA SumsNext ==
  ASSUME ImageBaseInv, [Next]_vars
  PROVE  SumsInv'
<1> USE DEF userVars, diskVars, elfVars, mapsVars, Goto, Fatal
<1> USE DEF ImageBaseInv, SumsInv
<1>1. CASE ParseOffset
  BY <1>1 DEF ParseOffset, Opened
<1>2. CASE ParseFails
  BY <1>2 DEF ParseFails, Opened
<1>3. CASE ForkChild
  BY <1>3 DEF ForkChild, Opened
<1>4. CASE OpenElf
  BY <1>4 DEF OpenElf, Opened
<1>5. CASE ReadLink
  BY <1>5 DEF ReadLink, Opened
<1>6. CASE IsPie
  BY <1>6 DEF IsPie, Opened, UnreadInv
<1>7. CASE ReadHeader
  BY <1>7 DEF ReadHeader, Opened
<1>8. CASE OpenMaps
  BY <1>8 DEF OpenMaps, Opened
<1>9. CASE ReadLine
  BY <1>9 DEF ReadLine, Opened
<1>10. CASE EndOfMaps
  BY <1>10 DEF EndOfMaps, Opened, OpenedInv
<1>11. CASE SetHook
  BY <1>11 DEF SetHook, Opened
<1>12. CASE GetImageBaseFails
  BY <1>12 DEF GetImageBaseFails, Opened
<1>13. CASE Replace
  BY <1>13, ReplaceKeeps DEF Replace
<1>14. CASE TargetDies
  BY <1>14 DEF TargetDies, Opened
<1>15. CASE UNCHANGED vars
  BY <1>15 DEF vars, Opened
<1> QED
  BY <1>1, <1>2, <1>3, <1>4, <1>5, <1>6, <1>7, <1>8, <1>9,
     <1>10, <1>11, <1>12, <1>13, <1>14, <1>15 DEF Next, Tracer

\* The first line with the name is the lowest of the executed file.
LEMMA FoundNext ==
  ASSUME ImageBaseInv, [Next]_vars
  PROVE  FoundInv'
<1> USE DEF userVars, diskVars, elfVars, mapsVars, Goto, Fatal
<1>t. ImageBaseTypeOK /\ UnreadInv /\ TargetInv /\ OpenedInv /\ FoundInv
  BY DEF ImageBaseInv
<1>f. info.file \in Nat /\ current \in Nat /\ info.file <= current /\ NoFile \notin Nat
  BY <1>t, Sizes DEF ImageBaseTypeOK, NoFile
<1>l. target.file \in Nat => FileLines \subseteq 0 .. (SIZE_MAX - 1)
  BY <1>f, <1>t, LinesInWord
<1>s. ASSUME UNCHANGED <<info, current, content, at, min_maps_addr>>,
             target'.file = target.file, target'.bias = target.bias,
             pc' \in {"readlink", "type", "headers", "maps"} =>
               pc \in {"readlink", "type", "headers", "maps"}
      PROVE  FoundInv'
  BY <1>t, <1>s DEF FoundInv, FileLines, Name
<1>z. ASSUME at' = 0, min_maps_addr' = SIZE_MAX, info'.file \in Nat, target' = target,
             content' = content
      PROVE  FoundInv'
  <2>1. FileLines' = FileLines
    BY <1>z DEF FileLines
  <2> QED
    BY <1>z, <1>l, <2>1, Sizes DEF FoundInv
<1>1. CASE ParseOffset
  BY <1>1, <1>s DEF ParseOffset
<1>2. CASE ParseFails
  BY <1>2, <1>s DEF ParseFails
<1>3. CASE ForkChild
  BY <1>3, <1>t DEF ForkChild, FoundInv, UnreadInv
<1>4. CASE OpenElf
  BY <1>4, <1>f, <1>t, <1>z DEF OpenElf, UnreadInv, ImageBaseTypeOK
<1>5. CASE ReadLink
  BY <1>5, <1>f, <1>t, <1>z DEF ReadLink, UnreadInv, ImageBaseTypeOK
<1>6. CASE IsPie
  BY <1>6, <1>f, <1>t, <1>z DEF IsPie, UnreadInv
<1>7. CASE ReadHeader
  BY <1>7, <1>s DEF ReadHeader
<1>8. CASE OpenMaps
  BY <1>8, <1>s DEF OpenMaps
<1>9. CASE ReadLine
  <2>1. PICK start \in Lines :
               /\ at <= start /\ \A s \in Lines : at <= s => start <= s
               /\ min_maps_addr' = IF /\ start \in OwnLines /\ Name(target.file) = info.path
                                      /\ min_maps_addr > start
                                   THEN start ELSE min_maps_addr
               /\ at' = start + 1
    BY <1>9 DEF ReadLine
  <2>2. FileLines' = FileLines /\ UNCHANGED <<pc, info, target, current>> /\ pc = "maps"
    BY <1>9 DEF ReadLine, FileLines
  <2>3. start \in 0 .. (SIZE_MAX - 1) /\ min_maps_addr \in 0 .. SIZE_MAX /\ at \in Nat
    BY <1>t, LinesInWord, Sizes DEF ImageBaseTypeOK
  <2>4. CASE start \in OwnLines /\ Name(target.file) = info.path
    <3>1. target.file \in Nat /\ OwnLines = FileLines /\ OwnLines \subseteq Lines
      BY <1>f, <1>t, <2>4, LinesInWord DEF Lines, OwnLines, ImageBaseTypeOK
    <3>2. info.path = "path" => info.file = target.file
      BY <1>f, <1>t, <2>2, <2>4, <3>1 DEF Name, TargetInv
    <3>3. CASE min_maps_addr = SIZE_MAX
      <4>1. min_maps_addr' = start /\ start # SIZE_MAX
        BY <2>1, <2>3, <2>4, <3>3, Sizes
      <4>2. info.file = target.file => \A s \in FileLines : at <= s
        BY <1>t, <2>2, <2>4, <3>3 DEF FoundInv
      <4>3. info.file = target.file => \A s \in FileLines : start <= s
        BY <2>1, <3>1, <4>2
      <4> QED
        BY <2>2, <2>4, <3>1, <3>2, <4>1, <4>3 DEF FoundInv
    <3>4. CASE min_maps_addr # SIZE_MAX
      <4>1. info.file = target.file => ~(min_maps_addr > start)
        BY <1>t, <2>3, <2>4, <3>1, <3>4, Sizes DEF FoundInv
      <4>2. info.file = target.file => min_maps_addr' = min_maps_addr
        BY <2>1, <4>1
      <4> QED
        BY <1>t, <2>2, <3>2, <3>4, <4>2 DEF FoundInv
    <3> QED
      BY <3>3, <3>4
  <2>5. CASE ~(start \in OwnLines /\ Name(target.file) = info.path)
    <3>1. min_maps_addr' = min_maps_addr
      BY <2>1, <2>5
    <3>2. Name(target.file)' = Name(target.file)
      BY <2>2 DEF Name
    <3>3. ASSUME info.file = target.file, min_maps_addr = SIZE_MAX, Name(target.file) = info.path,
                 NEW s \in FileLines
          PROVE  at' <= s
      <4>1. at <= s /\ s \in Nat
        BY <1>f, <1>l, <1>t, <2>2, <3>3, Sizes DEF FoundInv
      <4>2. target.state = "exec"
        BY <1>f, <1>t, <2>1, <3>3 DEF Lines, TargetInv
      <4>3. s \in OwnLines
        BY <3>3, <4>2 DEF OwnLines, FileLines
      <4> QED
        BY <2>1, <2>3, <2>5, <3>3, <4>1, <4>3 DEF Lines, OwnLines
    <3> QED
      BY <1>t, <2>2, <3>1, <3>2, <3>3 DEF FoundInv
  <2> QED
    BY <2>4, <2>5
<1>10. CASE EndOfMaps
  BY <1>10, <1>s DEF EndOfMaps
<1>11. CASE SetHook
  BY <1>11, <1>s DEF SetHook
<1>12. CASE GetImageBaseFails
  BY <1>12, <1>s DEF GetImageBaseFails
<1>13. CASE Replace
  <2>1. UNCHANGED <<pc, info, target, at, min_maps_addr>> /\ current' = current + 1
    BY <1>13 DEF Replace
  <2>2. info.file = target.file => FileLines' = FileLines
    BY <1>13, <1>f, <1>t, ReplaceKeeps
  <2>3. info.file = target.file /\ Name(target.file)' = info.path => Name(target.file) = info.path
    BY <1>f, <1>t, <2>1 DEF Name, OpenedInv, ImageBaseTypeOK
  <2> QED
    BY <1>t, <2>1, <2>2, <2>3 DEF FoundInv
<1>14. CASE TargetDies
  BY <1>14, <1>s, <1>t DEF TargetDies, ImageBaseTypeOK
<1>15. CASE UNCHANGED vars
  BY <1>15, <1>s DEF vars
<1> QED
  BY <1>1, <1>2, <1>3, <1>4, <1>5, <1>6, <1>7, <1>8, <1>9,
     <1>10, <1>11, <1>12, <1>13, <1>14, <1>15 DEF Next, Tracer

\* The inductive invariant holds in every state of every run of main().
THEOREM ImageBaseInvariant == Spec => []ImageBaseInv
<1>1. Init => ImageBaseInv
  BY InitInv
<1>2. ImageBaseInv /\ [Next]_vars => ImageBaseInv'
  BY TypeNext, UnreadNext, TargetNext, OpenedNext, HeadersNext, FoundNext, SumsNext
  DEF ImageBaseInv
<1> QED
  BY <1>1, <1>2, PTL DEF Spec

-----------------------------------------------------------------------------
(* What follows                                                            *)

\* The lowest mapping of an executed file that is linked in the usual way is its load
\* address plus the least address of its loaded segments, the one get_min_vaddr finds.
LEMMA LowestLine ==
  ASSUME ImageBaseInv, info.file = target.file, Conventional(Opened), i > Len(Opened.phdrs),
         NEW m \in FileLines, \A s \in FileLines : m <= s
  PROVE  m = target.bias + min_vaddr
<1>t. ImageBaseTypeOK /\ TargetInv /\ HeadersInv
  BY DEF ImageBaseInv
<1>f. target.file # NoFile /\ content[target.file] = Opened
  BY <1>t, Sizes DEF ImageBaseTypeOK, Opened, NoFile
<1>b. target.bias \in Nat /\ min_vaddr \in Nat /\ SIZE_MAX \in Nat /\ i \in Nat
  BY <1>t, Sizes DEF ImageBaseTypeOK
<1>1. \A h \in Loads(Opened) : h.p_vaddr \in 0 .. (SIZE_MAX - 1) /\ min_vaddr <= h.p_vaddr
  <2>1. SUFFICES ASSUME NEW h \in Loads(Opened)
                 PROVE  h.p_vaddr \in 0 .. (SIZE_MAX - 1) /\ min_vaddr <= h.p_vaddr
    OBVIOUS
  <2>2. /\ Opened \in Images /\ Len(Opened.phdrs) \in Nat
        /\ DOMAIN Opened.phdrs = 1 .. Len(Opened.phdrs)
    BY <1>t, OpenedTypes, ImageTypes
  <2>3. PICK n \in 1 .. Len(Opened.phdrs) : h = Opened.phdrs[n]
    BY <2>2 DEF Loads, Headers
  <2>4. n \in 1 .. (i - 1) /\ h.load
    BY <1>b, <2>2, <2>3 DEF Loads
  <2> QED
    BY <1>t, <2>3, <2>4, OpenedTypes DEF HeadersInv
<1>2. PICK g \in Loads(Opened) : g.backed /\ m = target.bias + PageStart(g.p_vaddr)
  BY <1>f DEF FileLines
<1>3. PICK h \in Loads(Opened) : h.p_vaddr = min_vaddr
  <2>1. min_vaddr # SIZE_MAX
    BY <1>1, <1>2, <1>b
  <2>2. PICK n \in 1 .. (i - 1) : Opened.phdrs[n].load /\ Opened.phdrs[n].p_vaddr = min_vaddr
    BY <1>t, <2>1 DEF HeadersInv
  <2>3. n \in 1 .. Len(Opened.phdrs)
    BY <1>b, <1>t, OpenedTypes DEF ImageBaseTypeOK
  <2> QED
    BY <1>t, <2>2, <2>3, OpenedTypes DEF Loads
<1>4. h.backed /\ min_vaddr % PageSize = 0
  BY <1>1, <1>3 DEF Conventional
<1>5. target.bias + min_vaddr \in FileLines
  <2>1. PageStart(h.p_vaddr) = min_vaddr
    BY <1>3, <1>4, <1>b, PageStartBounds
  <2> QED
    BY <1>f, <1>4, <2>1 DEF FileLines
<1>6. min_vaddr <= PageStart(g.p_vaddr) /\ PageStart(g.p_vaddr) \in Nat
  BY <1>1, <1>4, <1>b, PageStartBounds
<1>7. target.bias + min_vaddr <= m /\ m <= target.bias + min_vaddr /\ m \in Nat
  BY <1>2, <1>5, <1>6, <1>b
<1> QED
  BY <1>7, <1>b

\* The three conversions together: base and offset, each taken modulo 2^64 and then cut
\* to a word, add up to the word of their sum.
LEMMA Conversions ==
  ASSUME NEW b \in Int, NEW r \in Int
  PROVE  (((b % Mod64) % WordMod) + ((r % Mod64) % WordMod)) % WordMod = (b + r) % WordMod
<1>1. Mod64 \in Nat \ {0} /\ WordMod \in Nat \ {0} /\ Mod64 % WordMod = 0
  BY ImageBaseAssumption
<1>2. (b % Mod64) % WordMod = b % WordMod
  BY <1>1, ModMod
<1>3. (r % Mod64) % WordMod = r % WordMod
  BY <1>1, ModMod
<1>4. ((b % WordMod) + (r % WordMod)) % WordMod = (b + r) % WordMod
  BY <1>1, ModAdd
<1> QED
  BY <1>2, <1>3, <1>4

\* Every variable has its type: no sum leaves its word, no header is read past the end.
THEOREM ImageBaseTypeCorrect == Spec => []ImageBaseTypeOK
  BY ImageBaseInvariant, PTL DEF ImageBaseInv

\* The breakpoint is at the instruction the user chose, in every word size, whatever was
\* renamed and whoever died meanwhile (HookIsRight).
THEOREM HookRight == Spec => []HookIsRight
<1>1. ASSUME ImageBaseInv PROVE HookIsRight
  <2>1. SUFFICES ASSUME pc = "done", info.file = target.file, Conventional(Opened)
                 PROVE  hook = (target.bias + request) % WordMod
    BY DEF HookIsRight
  <2>t. ImageBaseTypeOK /\ TargetInv /\ OpenedInv /\ HeadersInv /\ FoundInv /\ SumsInv
    BY <1>1 DEF ImageBaseInv
  <2>f. target.file # NoFile /\ content[target.file] = Opened
    BY <2>1, <2>t, Sizes DEF ImageBaseTypeOK, Opened, NoFile
  <2>i. target.bias \in Int /\ request \in Int /\ min_vaddr \in Int
    BY <2>t, Sizes DEF ImageBaseTypeOK
  <2>2. image_base = target.bias % Mod64
    <3>1. CASE Opened.e_type = "dyn"
      <4>1. min_maps_addr # SIZE_MAX /\ image_base = (min_maps_addr - min_vaddr) % Mod64
        BY <2>1, <2>t, <3>1 DEF SumsInv
      <4>2. min_maps_addr \in FileLines /\ \A s \in FileLines : min_maps_addr <= s
        BY <2>1, <2>t, <4>1 DEF FoundInv
      <4>3. i > Len(Opened.phdrs)
        BY <2>1, <2>t, <3>1 DEF HeadersInv
      <4>4. min_maps_addr = target.bias + min_vaddr
        BY <1>1, <2>1, <4>2, <4>3, LowestLine
      <4>5. min_maps_addr - min_vaddr = target.bias
        BY <2>i, <4>4
      <4> QED
        BY <4>1, <4>5
    <3>2. CASE Opened.e_type # "dyn"
      <4>1. image_base = 0 /\ target.bias = 0
        BY <2>1, <2>f, <2>t, <3>2 DEF SumsInv, TargetInv
      <4>2. 0 % Mod64 = 0
        BY Sizes
      <4> QED
        BY <4>1, <4>2
    <3> QED
      BY <3>1, <3>2
  <2>3. addr = (request % Mod64) % WordMod /\ hook = ((image_base % WordMod) + addr) % WordMod
    BY <2>1, <2>t DEF SumsInv
  <2> QED
    BY <2>2, <2>3, <2>i, Conversions
<1> QED
  BY <1>1, ImageBaseInvariant, PTL

\* A PIE file that the target does not execute is refused (OtherFileRefused).
THEOREM OtherFilesRefused == Spec => []OtherFileRefused
<1>1. ImageBaseInv => OtherFileRefused
  BY DEF ImageBaseInv, OtherFileRefused, SumsInv, FoundInv
<1> QED
  BY <1>1, ImageBaseInvariant, PTL

=============================================================================
