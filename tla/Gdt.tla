-------------------------------- MODULE Gdt ---------------------------------
(***************************************************************************)
(* The segment descriptors that the loader builds (gdt_utils.h) and how a  *)
(* processor reads them.  A word is the set of the positions of its bits;  *)
(* the operator | is union.                                                *)
(***************************************************************************)
EXTENDS Integers

\* The bits first..last of a word, moved by n: what a mask and its shifts yield.
Field(word, first, last, n) == {x \in (first + n) .. (last + n) : x - n \in word}

Flip(bit) == {0} \ bit   \* ^ 1

-----------------------------------------------------------------------------
(* Flags                                                                   *)

_DESC_ACCESSED == {0}
_DESC_DATA_WRITABLE == {1}
_DESC_CODE_READABLE == {1}
_DESC_CODE_EXECUTABLE == {3}
_DESC_S == {4}
_DESC_PRESENT == {7}
_DESC_LONG_CODE == {13}
_DESC_DB == {14}
_DESC_GRANULARITY_4K == {15}

_DESC_DATA == _DESC_S \cup _DESC_PRESENT \cup _DESC_ACCESSED \cup _DESC_DATA_WRITABLE
_DESC_CODE == _DESC_S \cup _DESC_PRESENT \cup _DESC_ACCESSED \cup _DESC_CODE_READABLE
                \cup _DESC_CODE_EXECUTABLE

DESC_DATA32 == _DESC_DATA \cup _DESC_GRANULARITY_4K \cup _DESC_DB
DESC_CODE32 == _DESC_CODE \cup _DESC_GRANULARITY_4K \cup _DESC_DB
DESC_DATA64 == _DESC_DATA \cup _DESC_GRANULARITY_4K \cup _DESC_DB
DESC_CODE64 == _DESC_CODE \cup _DESC_GRANULARITY_4K \cup _DESC_LONG_CODE
DESC_USER   == {5, 6}

-----------------------------------------------------------------------------
(* Encoding                                                                *)

GDT_ENTRY_INIT(flags, base, limit) ==
  Field(limit, 0, 15, 0)
    \cup Field(base, 0, 15, 16)
    \cup Field(base, 16, 23, 16)
    \cup Field(flags, 0, 3, 40) \cup Field(flags, 4, 4, 40)
    \cup Field(flags, 5, 6, 40) \cup Field(flags, 7, 7, 40)
    \cup Field(limit, 16, 19, 32)
    \cup Field(flags, 12, 12, 40) \cup Field(flags, 13, 13, 40)
    \cup Field(flags, 14, 14, 40) \cup Field(flags, 15, 15, 40)
    \cup Field(base, 24, 31, 32)

\* A user_desc, as PTRACE_GET_THREAD_AREA returns it.
UserDesc == [base_addr : SUBSET (0 .. 31), limit : SUBSET (0 .. 19),
             contents : SUBSET (0 .. 1), seg_32bit : SUBSET {0},
             read_exec_only : SUBSET {0}, limit_in_pages : SUBSET {0},
             seg_not_present : SUBSET {0}, useable : SUBSET {0}]

\* Mutant: the limit is cut to 16 bits.
ShortLimit(u) ==
  Field(u.limit, 0, 15, 0)
    \cup Field(u.base_addr, 0, 15, 16)
    \cup Field(u.base_addr, 16, 23, 16)
    \cup {40} \cup Field(Flip(u.read_exec_only), 0, 0, 41) \cup Field(u.contents, 0, 1, 42)
    \cup {44} \cup {45, 46}
    \cup Field(Flip(u.seg_not_present), 0, 0, 47)
    \cup Field(u.useable, 0, 0, 52)
    \cup Field(u.seg_32bit, 0, 0, 54)
    \cup Field(u.limit_in_pages, 0, 0, 55)
    \cup Field(u.base_addr, 24, 31, 32)

USER_DESC_TO_REAL_DESC(u) ==
  Field(u.limit, 0, 15, 0)
    \cup Field(u.base_addr, 0, 15, 16)
    \cup Field(u.base_addr, 16, 23, 16)
    \cup {40} \cup Field(Flip(u.read_exec_only), 0, 0, 41) \cup Field(u.contents, 0, 1, 42)
    \cup {44} \cup {45, 46}
    \cup Field(Flip(u.seg_not_present), 0, 0, 47)
    \cup Field(u.limit, 16, 19, 32)
    \cup Field(u.useable, 0, 0, 52)
    \cup Field(u.seg_32bit, 0, 0, 54)
    \cup Field(u.limit_in_pages, 0, 0, 55)
    \cup Field(u.base_addr, 24, 31, 32)

-----------------------------------------------------------------------------
(* Decoding, by the processor                                              *)

BaseField(d)  == Field(d, 16, 39, -16) \cup Field(d, 56, 63, -32)
LimitField(d) == Field(d, 0, 15, 0) \cup Field(d, 48, 51, -32)
TypeField(d)  == Field(d, 40, 43, -40)
Present(d)    == 47 \in d
Ring3(d)      == {44, 45, 46} \subseteq d   \* code or data, of user mode

Segment(d) == [base |-> BaseField(d), limit |-> LimitField(d), type |-> TypeField(d),
               long |-> 53 \in d, big |-> 54 \in d, pages |-> 55 \in d]

=============================================================================
