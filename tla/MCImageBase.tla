---------------------------- MODULE MCImageBase -----------------------------
(***************************************************************************)
(* Executables for model checking ImageBase.                               *)
(***************************************************************************)
EXTENDS ImageBaseProofs

Load(v)  == [load |-> TRUE, p_vaddr |-> v, backed |-> TRUE]
Bss(v)   == [load |-> TRUE, p_vaddr |-> v, backed |-> FALSE]
Note(v)  == [load |-> FALSE, p_vaddr |-> v, backed |-> TRUE]

Elf(t, hs) == [kind |-> "elf", e_type |-> t, phdrs |-> hs]
Other(k)   == [kind |-> k, e_type |-> "other", phdrs |-> <<>>]

\* As linkers make them, with a second segment that begins within a page; linked
\* at an address other than 0; position dependent.
Usual == { Elf("dyn", <<Load(0), Load(5)>>),
           Elf("dyn", <<Note(2), Load(8), Load(13)>>),
           Elf("exec", <<Load(8)>>) }

\* A lowest segment that begins within a page, or that is not in the file.
MCUnaligned == {Elf("dyn", <<Load(6), Load(9)>>)}
Unusual == MCUnaligned \cup {Elf("dyn", <<Bss(0), Load(4)>>)}

NotRun == { Elf("dyn", <<>>), Elf("other", <<>>), Other("absent"), Other("script") }

MCImages == Usual \cup Unusual \cup NotRun

MCRequests == {-1, 5, 37, 64}
=============================================================================
