----------------------------- MODULE GdtProofs ------------------------------
(***************************************************************************)
(* A processor reads from the descriptors of gdt_utils.h what was put into *)
(* them, whatever the base, the limit and the attributes.                  *)
(***************************************************************************)
EXTENDS Gdt, TLAPS

\* Where each bit of a descriptor made from a user_desc comes from.
LEMMA RealDescBits ==
  ASSUME NEW u \in UserDesc, NEW x \in Int
  PROVE  x \in USER_DESC_TO_REAL_DESC(u) <=>
           \/ x \in 0 .. 15 /\ x \in u.limit
           \/ x \in 16 .. 39 /\ x - 16 \in u.base_addr
           \/ x = 40
           \/ x = 41 /\ 0 \notin u.read_exec_only
           \/ x \in 42 .. 43 /\ x - 42 \in u.contents
           \/ x \in 44 .. 46
           \/ x = 47 /\ 0 \notin u.seg_not_present
           \/ x \in 48 .. 51 /\ x - 32 \in u.limit
           \/ x = 52 /\ 0 \in u.useable
           \/ x = 54 /\ 0 \in u.seg_32bit
           \/ x = 55 /\ 0 \in u.limit_in_pages
           \/ x \in 56 .. 63 /\ x - 32 \in u.base_addr
  BY DEF USER_DESC_TO_REAL_DESC, UserDesc, Field, Flip

\* A TLS descriptor of the target survives the round trip through user_desc: for every
\* base and limit, the processor sees the base, the limit, the size, the granularity,
\* the permissions and the presence that PTRACE_GET_THREAD_AREA reported
\* (gdt_utils.h:52-65).
THEOREM TlsDescriptorSurvives ==
  ASSUME NEW u \in UserDesc
  PROVE  LET d == USER_DESC_TO_REAL_DESC(u)
         IN  /\ BaseField(d) = u.base_addr
             /\ LimitField(d) = u.limit
             /\ TypeField(d) = {0} \cup Field(Flip(u.read_exec_only), 0, 0, 1)
                                 \cup Field(u.contents, 0, 1, 2)
             /\ 54 \in d <=> u.seg_32bit = {0}
             /\ 55 \in d <=> u.limit_in_pages = {0}
             /\ 53 \notin d
             /\ Ring3(d)
             /\ Present(d) <=> u.seg_not_present = {}
  <1> DEFINE d == USER_DESC_TO_REAL_DESC(u)
  <1>1. /\ u.base_addr \in SUBSET (0 .. 31) /\ u.limit \in SUBSET (0 .. 19)
        /\ u.contents \in SUBSET (0 .. 1) /\ u.seg_32bit \in SUBSET {0}
        /\ u.read_exec_only \in SUBSET {0} /\ u.limit_in_pages \in SUBSET {0}
        /\ u.seg_not_present \in SUBSET {0} /\ u.useable \in SUBSET {0}
    BY DEF UserDesc
  <1>2. \A x \in Int : x \in d <=>
           \/ x \in 0 .. 15 /\ x \in u.limit
           \/ x \in 16 .. 39 /\ x - 16 \in u.base_addr
           \/ x = 40
           \/ x = 41 /\ 0 \notin u.read_exec_only
           \/ x \in 42 .. 43 /\ x - 42 \in u.contents
           \/ x \in 44 .. 46
           \/ x = 47 /\ 0 \notin u.seg_not_present
           \/ x \in 48 .. 51 /\ x - 32 \in u.limit
           \/ x = 52 /\ 0 \in u.useable
           \/ x = 54 /\ 0 \in u.seg_32bit
           \/ x = 55 /\ 0 \in u.limit_in_pages
           \/ x \in 56 .. 63 /\ x - 32 \in u.base_addr
    BY RealDescBits
  <1> HIDE DEF d
  <1>3. BaseField(d) = u.base_addr
    BY <1>1, <1>2 DEF BaseField, Field
  <1>4. LimitField(d) = u.limit
    BY <1>1, <1>2 DEF LimitField, Field
  <1>5. TypeField(d) = {0} \cup Field(Flip(u.read_exec_only), 0, 0, 1)
                         \cup Field(u.contents, 0, 1, 2)
    BY <1>1, <1>2 DEF TypeField, Field, Flip
  <1>6. /\ 54 \in d <=> u.seg_32bit = {0}
        /\ 55 \in d <=> u.limit_in_pages = {0}
        /\ 53 \notin d
        /\ Present(d) <=> u.seg_not_present = {}
    BY <1>1, <1>2 DEF Present
  <1>7. Ring3(d)
    BY <1>2 DEF Ring3
  <1> QED
    BY <1>3, <1>4, <1>5, <1>6, <1>7 DEF d

\* Nor does any bit of base, limit or flags get into another field of the descriptors
\* that the loader makes for the flat segments (gdt_utils.h:37-50).
THEOREM FlatDescriptorFields ==
  ASSUME NEW base \in SUBSET (0 .. 31), NEW limit \in SUBSET (0 .. 19),
         NEW flags \in SUBSET (0 .. 15)
  PROVE  LET d == GDT_ENTRY_INIT(flags, base, limit)
         IN  /\ BaseField(d) = base
             /\ LimitField(d) = limit
             /\ TypeField(d) = flags \cap 0 .. 3
             /\ Present(d) <=> 7 \in flags
             /\ Ring3(d) <=> {4, 5, 6} \subseteq flags
             /\ 53 \in d <=> 13 \in flags
             /\ 54 \in d <=> 14 \in flags
             /\ 55 \in d <=> 15 \in flags
  <1> DEFINE d == GDT_ENTRY_INIT(flags, base, limit)
  <1>1. \A x \in Int : x \in d <=>
           \/ x \in 0 .. 15 /\ x \in limit
           \/ x \in 16 .. 39 /\ x - 16 \in base
           \/ x \in 40 .. 47 /\ x - 40 \in flags
           \/ x \in 48 .. 51 /\ x - 32 \in limit
           \/ x \in 52 .. 55 /\ x - 40 \in flags
           \/ x \in 56 .. 63 /\ x - 32 \in base
    BY DEF GDT_ENTRY_INIT, Field
  <1> HIDE DEF d
  <1>2. BaseField(d) = base
    <2>1. BaseField(d) \subseteq Int /\ base \subseteq Int
      BY DEF BaseField, Field
    <2>2. \A x \in Int : x \in BaseField(d) <=> x \in base
      BY <1>1 DEF BaseField, Field
    <2> QED
      BY <2>1, <2>2
  <1>3. LimitField(d) = limit
    <2>1. LimitField(d) \subseteq Int /\ limit \subseteq Int
      BY DEF LimitField, Field
    <2>2. \A x \in Int : x \in LimitField(d) <=> x \in limit
      BY <1>1 DEF LimitField, Field
    <2> QED
      BY <2>1, <2>2
  <1>4. TypeField(d) = flags \cap 0 .. 3
    BY <1>1 DEF TypeField, Field
  <1>5. /\ Present(d) <=> 7 \in flags
        /\ 53 \in d <=> 13 \in flags
        /\ 54 \in d <=> 14 \in flags
        /\ 55 \in d <=> 15 \in flags
    BY <1>1 DEF Present
  <1>6. Ring3(d) <=> {4, 5, 6} \subseteq flags
    BY <1>1 DEF Ring3
  <1> QED
    BY <1>2, <1>3, <1>4, <1>5, <1>6 DEF d
=============================================================================
