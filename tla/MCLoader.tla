------------------------------ MODULE MCLoader ------------------------------
(***************************************************************************)
(* Targets and threads for model checking Loader.                          *)
(***************************************************************************)
EXTENDS LoaderProofs, TLC

Plain(s, e, p) == [start |-> s, end |-> e, prot |-> p, kind |-> "plain"]

\* The last layout has a mapping where the loader puts its trampoline.
MCLayouts ==
  { {Plain(0, 2, {"r", "x"}), Plain(2, 3, {})},
    {Plain(0, 1, {"r"}), Plain(1, 3, {"r", "w"}),
     [start |-> 3, end |-> 4, prot |-> {"r"}, kind |-> "special"]},
    {Plain(0, 1, {"r"}), Plain(4, 5, {"r", "w"})} }

Sel(i) == [index |-> i, ldt |-> FALSE]

Sels(cs, ss, ds, fs, gs) ==
  ("cs" :> Sel(cs)) @@ ("ss" :> Sel(ss)) @@ ("ds" :> Sel(ds)) @@ ("es" :> Sel(ds))
    @@ ("fs" :> Sel(fs)) @@ ("gs" :> Sel(gs))

Bases(fs, gs) == ("fs" :> fs) @@ ("gs" :> gs)

Thread64(ds) == [arch |-> "x86_64", sel |-> Sels(6, 5, ds, 0, 0),
                 base |-> Bases({6, 40}, {}), areas |-> <<>>]

\* As set_thread_area makes them: 4 GiB in pages, or a small read-only one in bytes.
Tls(b) == [base_addr |-> b, limit |-> 0 .. 19, contents |-> {}, seg_32bit |-> {0},
           read_exec_only |-> {}, limit_in_pages |-> {0}, seg_not_present |-> {},
           useable |-> {0}]
SmallTls(b) == [Tls(b) EXCEPT !.limit = {3, 17}, !.limit_in_pages = {},
                              !.read_exec_only = {0}]
NoTls == [base_addr |-> {}, limit |-> {}, contents |-> {}, seg_32bit |-> {},
          read_exec_only |-> {0}, limit_in_pages |-> {}, seg_not_present |-> {0},
          useable |-> {}]

\* A 32-bit program under a 64-bit kernel, one under a 32-bit kernel.
ThreadCompat == [arch |-> "i386", sel |-> Sels(4, 5, 5, 13, 12),
                 base |-> Bases({3, 17}, {12, 21, 31}),
                 areas |-> (12 :> Tls({12, 21, 31})) @@ (13 :> SmallTls({3, 17}))
                             @@ (14 :> NoTls)]
ThreadNative == [arch |-> "i386", sel |-> Sels(14, 15, 15, 0, 6),
                 base |-> Bases({}, {0, 30}),
                 areas |-> (6 :> Tls({0, 30})) @@ (7 :> NoTls) @@ (8 :> NoTls)]

\* One that uses its LDT, which the loader refuses.
ThreadLdt == [ThreadCompat EXCEPT !.sel["fs"].ldt = TRUE]

MCThreads == {Thread64(0), Thread64(5), ThreadCompat, ThreadNative, ThreadLdt}
=============================================================================
