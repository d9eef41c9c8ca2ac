----------------------------- MODULE LogProofs ------------------------------
(***************************************************************************)
(* Proofs about Log, for every number of threads, calls and names.         *)
(***************************************************************************)
EXTENDS Log, SequenceTheorems, TLAPS

Logging(t) == call[t].op \in {"log_log", "LOG_FATAL"}

\* Where a thread is says which function it is in.
CallInv ==
  \A t \in Threads :
    /\ pc[t] \in {"init", "complain"} => ~InSetLevel(t)
    /\ pc[t] \in {"test", "compare", "prefix", "text", "newline"} => Logging(t)
    /\ pc[t] = "exit" => call[t].op = "LOG_FATAL"
    /\ pc[t] = "store" /\ "flag" \notin stores[t] => g_initialized
    /\ "level" \in stores[t] /\ ~InSetLevel(t) => parse_level(env) # NoLevel

\* No level was ever set: all stores are log_init's, and they agree.
EnvInv ==
  lastSet = NoLevel =>
    /\ g_min_level \in {LOG_LEVEL_INFO, EnvLevel}
    /\ \A t \in Threads : /\ stores[t] # {} => ~InSetLevel(t)
                          /\ stores[t] = {"flag"} => g_min_level = EnvLevel
    /\ g_initialized => \/ g_min_level = EnvLevel
                        \/ \E t \in Threads : "level" \in stores[t]

\* A level was set: the log is initialised or about to be, so that no log_init gets
\* past its test unless it does so during log_set_level, which is a race.
SetInv ==
  lastSet # NoLevel =>
    /\ \/ g_initialized
       \/ \E t \in Threads : InSetLevel(t) /\ "flag" \in stores[t]
    /\ ~raced =>
         /\ \A t \in Threads : stores[t] # {} => InSetLevel(t) /\ call[t].level = lastSet
         /\ \A t, u \in Threads : stores[t] # {} /\ stores[u] # {} => t = u
         /\ \/ g_min_level = lastSet
            \/ \E t \in Threads : "level" \in stores[t]

\* The thread is in log_init, past its test, or has yet to report the name.
Initialising(t) == pc[t] = "complain" \/ (pc[t] = "store" /\ ~InSetLevel(t))

\* What a thread has reported and printed: only the report is at the start of it.
ReportInv ==
  \A t \in Threads :
    /\ pc[t] \in {"complain", "compare", "prefix", "text", "newline", "exit"} => g_initialized
    /\ pc[t] = "complain" => UnknownName
    /\ Initialising(t) => err[t] = <<>>
    /\ err[t] # <<>> => g_initialized
    /\ \A i \in DOMAIN err[t] : err[t][i] = "unknown level" => UnknownName /\ i = 1

\* A log that is initialised by its environment alone: the name was reported, or the
\* thread that will report it is on its way.
ReporterInv ==
  (UnknownName /\ g_initialized /\ lastSet = NoLevel) =>
    \E t \in Threads : Reported(t) \/ Initialising(t)

\* The thread printed the part, and k other parts since.
Printed(t, part, k) == Len(err[t]) > k /\ err[t][Len(err[t]) - k] = part

\* What a thread has printed of its message.
HeardInv ==
  /\ \A t \in Threads :
       /\ pc[t] = "text" => Printed(t, "prefix", 0)
       /\ pc[t] = "newline" => Printed(t, "prefix", 1) /\ Printed(t, "text", 0)
       /\ pc[t] = "exit" => /\ Printed(t, "prefix", 2) /\ Printed(t, "text", 1)
                            /\ Printed(t, "newline", 0)
  /\ exited => \E t \in Threads : pc[t] = "exit"

\* The inductive invariant of the log (log.c): the stores that are still to become visible
\* are of initialisations that agree, or of the latest log_set_level, unless the two race;
\* and what each thread has printed of its message.
LogInv == LogTypeOK /\ CallInv /\ EnvInv /\ SetInv /\ ReportInv /\ ReporterInv /\ HeardInv

-----------------------------------------------------------------------------
(* The operators                                                           *)

\* A name is one of the levels or none of them.
LEMMA ParsedLevel ==
  \A name : parse_level(name) \in Levels \cup {NoLevel}
  BY DEF parse_level, Levels, NoLevel, LOG_LEVEL_DEBUG, LOG_LEVEL_INFO, LOG_LEVEL_WARN,
         LOG_LEVEL_ERROR

\* The environment's level is a level.
LEMMA EnvLevelIsLevel == EnvLevel \in Levels
  BY ParsedLevel DEF EnvLevel, Levels, LOG_LEVEL_INFO

\* What a call is.
LEMMA CallFields ==
  ASSUME NEW c \in Calls
  PROVE  /\ c.op \in {"log_init", "log_set_level", "log_log", "LOG_FATAL"}
         /\ c.op = "log_set_level" => c.level \in Levels
         /\ c.op \in {"log_log", "LOG_FATAL"} => c.level \in Levels
         /\ c.op = "LOG_FATAL" => c.level = LOG_LEVEL_ERROR
  BY DEF Calls, Levels, LOG_LEVEL_ERROR

\* What a thread prints is added to what it has printed.
LEMMA Emitted ==
  ASSUME err \in [Threads -> Seq(Parts)], NEW t \in Threads, NEW what \in Parts,
         Emit(t, what)
  PROVE  /\ err' \in [Threads -> Seq(Parts)]
         /\ \A u \in Threads : u # t => err'[u] = err[u]
         /\ Len(err[t]) \in Nat
         /\ Len(err'[t]) = Len(err[t]) + 1
         /\ DOMAIN err[t] = 1 .. Len(err[t]) /\ DOMAIN err'[t] = 1 .. (Len(err[t]) + 1)
         /\ err'[t][Len(err[t]) + 1] = what
         /\ \A i \in 1 .. Len(err[t]) : err'[t][i] = err[t][i]
         /\ \A i \in DOMAIN err'[t] : i \in DOMAIN err[t] \/ i = Len(err[t]) + 1
  <1>1. err[t] \in Seq(Parts)
    OBVIOUS
  <1>2. err'[t] = Append(err[t], what)
    BY DEF Emit
  <1>3. Append(err[t], what) \in Seq(Parts)
    BY <1>1, AppendProperties
  <1>4. err' \in [Threads -> Seq(Parts)] /\ \A u \in Threads : u # t => err'[u] = err[u]
    BY <1>3 DEF Emit
  <1>5. /\ Len(err[t]) \in Nat /\ DOMAIN err[t] = 1 .. Len(err[t])
        /\ DOMAIN Append(err[t], what) = 1 .. Len(Append(err[t], what))
    BY <1>1, <1>3, LenProperties
  <1>6. /\ Len(Append(err[t], what)) = Len(err[t]) + 1
        /\ Append(err[t], what)[Len(err[t]) + 1] = what
        /\ \A i \in 1 .. Len(err[t]) : Append(err[t], what)[i] = err[t][i]
    BY <1>1, AppendProperties
  <1>7. \A i \in 1 .. (Len(err[t]) + 1) : i \in 1 .. Len(err[t]) \/ i = Len(err[t]) + 1
    BY <1>5
  <1> QED
    BY <1>2, <1>4, <1>5, <1>6, <1>7

\* Types are preserved.
LEMMA TypeNext ==
  ASSUME LogTypeOK, CallInv, [LogNext]_logVars
  PROVE  LogTypeOK'
  <1> USE DEF LogTypeOK
  <1>1. ASSUME NEW t \in Threads, log_init(t)
        PROVE  LogTypeOK'
    BY <1>1, ParsedLevel, CallFields, LogAssumption DEF log_init, Enter, Quiet, Goto
  <1>2. ASSUME NEW t \in Threads, log_log(t)
        PROVE  LogTypeOK'
    BY <1>2, ParsedLevel, CallFields, LogAssumption DEF log_log, Enter, Quiet, Goto
  <1>3. ASSUME NEW t \in Threads, log_set_level(t)
        PROVE  LogTypeOK'
    BY <1>3, ParsedLevel, CallFields, LogAssumption DEF log_set_level, Enter, MustStore, Goto
  <1>4. ASSUME NEW t \in Threads, TestInitialized(t)
        PROVE  LogTypeOK'
    BY <1>4, ParsedLevel, CallFields, LogAssumption DEF TestInitialized, At, Quiet, Goto
  <1>5. ASSUME NEW t \in Threads, InitOnce(t)
        PROVE  LogTypeOK'
    <2>1. InitStores \subseteq {"flag", "level"} /\ InitStores # {}
      BY DEF InitStores
    <2>2. raced' \in BOOLEAN
      BY <1>5 DEF InitOnce, MustStore
    <2>3. CASE g_initialized
      BY <1>5, <2>3 DEF InitOnce, At, Goto, Back
    <2>4. CASE ~g_initialized
      BY <1>5, <2>1, <2>2, <2>4 DEF InitOnce, At, MustStore, Goto
    <2> QED
      BY <2>3, <2>4
  <1>6. ASSUME NEW t \in Threads, Store(t)
        PROVE  LogTypeOK'
    <2>1. g_min_level' \in Levels
      BY <1>6, ParsedLevel, CallFields DEF Store, At, CallInv, InSetLevel
    <2>2. /\ pc' \in [Threads -> {"idle", "test", "init", "store", "complain", "compare",
                                "prefix", "text", "newline", "exit"}]
          /\ stores' \in [Threads -> SUBSET {"flag", "level"}]
      BY <1>6 DEF Store, At, Goto, Back
    <2>3. \A u \in Threads : stores'[u] # {} <=> pc'[u] = "store"
      BY <1>6, <2>2 DEF Store, At, Goto, Back
    <2>4. g_initialized' \in BOOLEAN
      BY <1>6 DEF Store
    <2> QED
      BY <1>6, <2>1, <2>2, <2>3, <2>4 DEF Store
  <1>7. ASSUME NEW t \in Threads, Complain(t)
        PROVE  LogTypeOK'
    <2>1. err' \in [Threads -> Seq(Parts)]
      BY <1>7, Emitted DEF Complain, Parts
    <2> QED
      BY <1>7, <2>1 DEF Complain, At, Goto, Back, Quiet
  <1>8. ASSUME NEW t \in Threads, Compare(t)
        PROVE  LogTypeOK'
    BY <1>8, ParsedLevel, CallFields, LogAssumption DEF Compare, At, Goto, Done, Quiet
  <1>9. ASSUME NEW t \in Threads, WritePart(t)
        PROVE  LogTypeOK'
    <2>1. err' \in [Threads -> Seq(Parts)]
      BY <1>9, Emitted DEF WritePart, Parts
    <2> QED
      BY <1>9, <2>1 DEF WritePart, At, Goto, Done, Quiet
  <1>10. ASSUME NEW t \in Threads, Exit(t)
        PROVE  LogTypeOK'
    BY <1>10, ParsedLevel, CallFields, LogAssumption DEF Exit, At, Quiet
  <1>11. CASE UNCHANGED logVars
    BY <1>11 DEF logVars
  <1> QED
    BY <1>1, <1>2, <1>3, <1>4, <1>5, <1>6, <1>7, <1>8, <1>9, <1>10, <1>11 DEF LogNext

\* Positions and functions stay together.
LEMMA CallNext ==
  ASSUME LogTypeOK, CallInv, [LogNext]_logVars
  PROVE  CallInv'
  <1> USE DEF LogTypeOK, CallInv, InSetLevel, Logging
  <1>1. ASSUME NEW t \in Threads, log_init(t)
        PROVE  CallInv'
    BY <1>1, CallFields DEF log_init, Enter, Quiet, Goto
  <1>2. ASSUME NEW t \in Threads, log_log(t)
        PROVE  CallInv'
    BY <1>2, CallFields DEF log_log, Enter, Quiet, Goto
  <1>3. ASSUME NEW t \in Threads, log_set_level(t)
        PROVE  CallInv'
    BY <1>3, CallFields DEF log_set_level, Enter, MustStore, Goto
  <1>4. ASSUME NEW t \in Threads, TestInitialized(t)
        PROVE  CallInv'
    BY <1>4, CallFields DEF TestInitialized, At, Quiet, Goto
  <1>5. ASSUME NEW t \in Threads, InitOnce(t)
        PROVE  CallInv'
    BY <1>5, CallFields DEF InitOnce, At, MustStore, InitStores, Goto, Back
  <1>6. ASSUME NEW t \in Threads, Store(t)
        PROVE  CallInv'
    <2>1. PICK v \in stores[t] :
             /\ stores' = [stores EXCEPT ![t] = @ \ {v}]
             /\ g_initialized' = (g_initialized \/ v = "flag")
      BY <1>6 DEF Store
    <2>2. /\ pc[t] = "store" /\ UNCHANGED <<call, env>>
          /\ pc'[t] = "complain" => ~InSetLevel(t)
          /\ pc'[t] = "compare" => Logging(t)
          /\ pc'[t] \in {"store", "complain", "compare", "idle"}
          /\ \A u \in Threads : u # t => pc'[u] = pc[u] /\ stores'[u] = stores[u]
      BY <1>6 DEF Store, At, Goto, Back
    <2>3. stores'[t] = stores[t] \ {v}
      BY <2>1
    <2>4. \A u \in Threads :
             /\ pc'[u] = "store" /\ "flag" \notin stores'[u] => g_initialized'
             /\ "level" \in stores'[u] /\ ~InSetLevel(u) => parse_level(env) # NoLevel
      BY <2>1, <2>2, <2>3
    <2> QED
      BY <2>2, <2>4
  <1>7. ASSUME NEW t \in Threads, Complain(t)
        PROVE  CallInv'
    BY <1>7, CallFields DEF Complain, At, Goto, Emit, Back, Quiet
  <1>8. ASSUME NEW t \in Threads, Compare(t)
        PROVE  CallInv'
    BY <1>8, CallFields DEF Compare, At, Goto, Done, Quiet
  <1>9. ASSUME NEW t \in Threads, WritePart(t)
        PROVE  CallInv'
    BY <1>9, CallFields DEF WritePart, At, Goto, Emit, Done, Quiet
  <1>10. ASSUME NEW t \in Threads, Exit(t)
        PROVE  CallInv'
    BY <1>10, CallFields DEF Exit, At, Quiet
  <1>11. CASE UNCHANGED logVars
    BY <1>11 DEF logVars
  <1> QED
    BY <1>1, <1>2, <1>3, <1>4, <1>5, <1>6, <1>7, <1>8, <1>9, <1>10, <1>11 DEF LogNext

\* A call changes what its own thread does, which had nothing left to store.
LEMMA EnterEffect ==
  ASSUME LogTypeOK, NEW t \in Threads, NEW c, NEW to, Enter(t, c, to)
  PROVE  /\ pc[t] = "idle" /\ stores[t] = {}
         /\ call'[t] = c /\ pc'[t] = to
         /\ \A u \in Threads : u # t => call'[u] = call[u] /\ pc'[u] = pc[u]
         /\ \A u \in Threads : stores[u] # {} => call'[u] = call[u] /\ u # t
         /\ UNCHANGED <<env, g_min_level, g_initialized, err, exited>>
  BY DEF LogTypeOK, Enter, Goto

\* log_init is past its test: it has the flag to store, and the level if there is one.
LEMMA InitEffect ==
  ASSUME LogTypeOK, NEW t \in Threads, InitOnce(t), ~g_initialized
  PROVE  /\ pc[t] = "init" /\ stores[t] = {} /\ pc'[t] = "store"
         /\ stores'[t] = InitStores
         /\ "flag" \in InitStores
         /\ "level" \in InitStores <=> parse_level(env) # NoLevel
         /\ InitStores = {"flag"} <=> parse_level(env) = NoLevel
         /\ \A u \in Threads : u # t => stores'[u] = stores[u] /\ pc'[u] = pc[u]
         /\ raced' = (raced \/ \E u \in Threads \ {t} : stores[u] # {} /\ InSetLevel(u))
         /\ UNCHANGED <<env, g_min_level, g_initialized, call, err, exited, lastSet>>
  <1>1. /\ "flag" \in InitStores
        /\ "level" \in InitStores <=> parse_level(env) # NoLevel
        /\ InitStores = {"flag"} <=> parse_level(env) = NoLevel
    BY DEF InitStores
  <1> QED
    BY <1>1 DEF LogTypeOK, InitOnce, At, MustStore, Goto

\* A store to one of the two variables.
LEMMA StoreEffect ==
  ASSUME LogTypeOK, NEW t \in Threads, Store(t)
  PROVE  \E v \in stores[t] :
           /\ v \in {"flag", "level"}
           /\ stores'[t] = stores[t] \ {v} /\ pc[t] = "store"
           /\ \A u \in Threads : u # t => stores'[u] = stores[u] /\ pc'[u] = pc[u]
           /\ g_initialized' = (g_initialized \/ v = "flag")
           /\ v = "flag" => g_min_level' = g_min_level
           /\ v = "level" => g_min_level' = IF InSetLevel(t) THEN call[t].level
                                           ELSE parse_level(env)
           /\ pc'[t] = IF stores'[t] # {} THEN "store"
                       ELSE IF ~InSetLevel(t) /\ UnknownName
                            THEN "complain" ELSE Back(t)
           /\ UNCHANGED <<env, call, err, exited, lastSet, raced>>
  <1>1. PICK v \in stores[t] :
           /\ stores' = [stores EXCEPT ![t] = @ \ {v}]
           /\ g_initialized' = (g_initialized \/ v = "flag")
           /\ g_min_level' = IF v # "level" THEN g_min_level
                             ELSE IF InSetLevel(t) THEN call[t].level ELSE parse_level(env)
    BY DEF Store
  <1>2. v \in {"flag", "level"}
    BY DEF LogTypeOK
  <1>3. stores'[t] = stores[t] \ {v} /\ \A u \in Threads : u # t => stores'[u] = stores[u]
    BY <1>1 DEF LogTypeOK
  <1>4. /\ pc[t] = "store" /\ \A u \in Threads : u # t => pc'[u] = pc[u]
        /\ pc'[t] = IF stores'[t] # {} THEN "store"
                    ELSE IF ~InSetLevel(t) /\ UnknownName
                         THEN "complain" ELSE Back(t)
        /\ UNCHANGED <<env, call, err, exited, lastSet, raced>>
    BY DEF LogTypeOK, Store, At, Goto
  <1> QED
    BY <1>1, <1>2, <1>3, <1>4

\* A step that stores nothing leaves what was set alone.
LEMMA NothingStored ==
  ASSUME LogTypeOK, UNCHANGED <<env, g_min_level, g_initialized, stores, raced, lastSet>>,
         \A u \in Threads : stores[u] # {} => call'[u] = call[u]
  PROVE  (EnvInv => EnvInv') /\ (SetInv => SetInv')
  <1>1. \A u \in Threads : stores[u] # {} => InSetLevel(u)' = InSetLevel(u)
    BY DEF InSetLevel
  <1>2. EnvInv => EnvInv'
    BY <1>1 DEF EnvInv, EnvLevel
  <1>3. SetInv => SetInv'
    BY <1>1 DEF SetInv
  <1> QED
    BY <1>2, <1>3

\* What the environment asked for is not lost.
LEMMA EnvNext ==
  ASSUME LogTypeOK, CallInv, EnvInv, SetInv, [LogNext]_logVars
  PROVE  EnvInv'
  <1>1. ASSUME NEW t \in Threads, log_init(t)
        PROVE  EnvInv'
    <2>1. UNCHANGED <<env, g_min_level, g_initialized, stores, raced, lastSet>>
      BY <1>1 DEF log_init, Enter, Quiet
    <2>2. \A u \in Threads : stores[u] # {} => call'[u] = call[u]
      BY <1>1, EnterEffect DEF log_init, Enter, Quiet
    <2> QED
      BY <2>1, <2>2, NothingStored
  <1>2. ASSUME NEW t \in Threads, log_log(t)
        PROVE  EnvInv'
    <2>1. UNCHANGED <<env, g_min_level, g_initialized, stores, raced, lastSet>>
      BY <1>2 DEF log_log, Enter, Quiet
    <2>2. \A u \in Threads : stores[u] # {} => call'[u] = call[u]
      BY <1>2, EnterEffect DEF log_log, Enter, Quiet
    <2> QED
      BY <2>1, <2>2, NothingStored
  <1>3. ASSUME NEW t \in Threads, log_set_level(t)
        PROVE  EnvInv'
    <2>1. PICK c \in Calls : /\ Enter(t, c, "store") /\ c.op = "log_set_level"
                             /\ stores' = [stores EXCEPT ![t] = {"flag", "level"}]
                             /\ raced' = (\E u \in Threads \ {t} : stores[u] # {})
                             /\ lastSet' = c.level
      BY <1>3 DEF log_set_level, MustStore
    <2>2. /\ stores'[t] = {"flag", "level"}
          /\ \A u \in Threads : u # t => stores'[u] = stores[u]
      BY <2>1 DEF LogTypeOK
    <2>3. lastSet' # NoLevel
      BY <2>1, CallFields DEF Levels, NoLevel, LOG_LEVEL_DEBUG, LOG_LEVEL_INFO, LOG_LEVEL_WARN,
                              LOG_LEVEL_ERROR
    <2>4. call'[t] = c
      BY <2>1, EnterEffect
    <2> QED
      BY <2>3 DEF EnvInv
  <1>4. ASSUME NEW t \in Threads, TestInitialized(t)
        PROVE  EnvInv'
    <2>1. UNCHANGED <<env, g_min_level, g_initialized, stores, raced, lastSet>>
      BY <1>4 DEF TestInitialized, Quiet
    <2>2. \A u \in Threads : stores[u] # {} => call'[u] = call[u]
      BY <1>4, EnterEffect DEF TestInitialized, Quiet
    <2> QED
      BY <2>1, <2>2, NothingStored
  <1>5. ASSUME NEW t \in Threads, InitOnce(t)
        PROVE  EnvInv'
    <2>1. CASE g_initialized
      <3>1. UNCHANGED <<env, g_min_level, g_initialized, stores, raced, lastSet, call>>
        BY <1>5, <2>1 DEF InitOnce
      <3> QED
        BY <3>1, NothingStored
    <2>2. CASE ~g_initialized
      <3>1. /\ pc[t] = "init" /\ stores[t] = {} /\ stores'[t] = InitStores
            /\ "flag" \in InitStores
            /\ "level" \in InitStores <=> parse_level(env) # NoLevel
            /\ InitStores = {"flag"} <=> parse_level(env) = NoLevel
            /\ \A u \in Threads : u # t => stores'[u] = stores[u]
            /\ raced' = (raced \/ \E u \in Threads \ {t} : stores[u] # {} /\ InSetLevel(u))
            /\ UNCHANGED <<env, g_min_level, g_initialized, call, lastSet>>
        BY <1>5, <2>2, InitEffect
      <3>2. ~InSetLevel(t)
        BY <3>1 DEF CallInv
      <3>3. g_min_level \in {LOG_LEVEL_INFO, EnvLevel} /\ InitStores = {"flag"} =>
              g_min_level = EnvLevel
        BY <3>1 DEF EnvLevel
      <3>4. ASSUME lastSet = NoLevel, NEW u \in Threads
            PROVE  /\ stores'[u] # {} => ~InSetLevel(u)
                   /\ stores'[u] = {"flag"} => g_min_level = EnvLevel
        <4>1. CASE u = t
          BY <3>1, <3>2, <3>3, <3>4, <4>1 DEF EnvInv
        <4>2. CASE u # t
          BY <3>1, <3>4, <4>2 DEF EnvInv
        <4> QED
          BY <4>1, <4>2
      <3>5. EnvLevel' = EnvLevel /\ \A u \in Threads : InSetLevel(u)' = InSetLevel(u)
        BY <3>1 DEF EnvLevel, InSetLevel
      <3> QED
        BY <2>2, <3>1, <3>4, <3>5 DEF EnvInv
    <2> QED
      BY <2>1, <2>2
  <1>6. ASSUME NEW t \in Threads, Store(t)
        PROVE  EnvInv'
    BY <1>6, CallFields DEF LogTypeOK, CallInv, EnvInv, InSetLevel, EnvLevel, Store, At, Goto, Back
  <1>7. ASSUME NEW t \in Threads, Complain(t)
        PROVE  EnvInv'
    <2>1. UNCHANGED <<env, g_min_level, g_initialized, stores, raced, lastSet>>
      BY <1>7 DEF Complain, Quiet
    <2>2. \A u \in Threads : stores[u] # {} => call'[u] = call[u]
      BY <1>7, EnterEffect DEF Complain, Quiet
    <2> QED
      BY <2>1, <2>2, NothingStored
  <1>8. ASSUME NEW t \in Threads, Compare(t)
        PROVE  EnvInv'
    <2>1. UNCHANGED <<env, g_min_level, g_initialized, stores, raced, lastSet>>
      BY <1>8 DEF Compare, Quiet
    <2>2. \A u \in Threads : stores[u] # {} => call'[u] = call[u]
      BY <1>8, EnterEffect DEF Compare, Quiet
    <2> QED
      BY <2>1, <2>2, NothingStored
  <1>9. ASSUME NEW t \in Threads, WritePart(t)
        PROVE  EnvInv'
    <2>1. UNCHANGED <<env, g_min_level, g_initialized, stores, raced, lastSet>>
      BY <1>9 DEF WritePart, Quiet
    <2>2. \A u \in Threads : stores[u] # {} => call'[u] = call[u]
      BY <1>9, EnterEffect DEF WritePart, Quiet
    <2> QED
      BY <2>1, <2>2, NothingStored
  <1>10. ASSUME NEW t \in Threads, Exit(t)
        PROVE  EnvInv'
    <2>1. UNCHANGED <<env, g_min_level, g_initialized, stores, raced, lastSet>>
      BY <1>10 DEF Exit, Quiet
    <2>2. \A u \in Threads : stores[u] # {} => call'[u] = call[u]
      BY <1>10, EnterEffect DEF Exit, Quiet
    <2> QED
      BY <2>1, <2>2, NothingStored
  <1>11. CASE UNCHANGED logVars
    <2>1. UNCHANGED <<env, g_min_level, g_initialized, stores, raced, lastSet, call>>
      BY <1>11 DEF logVars
    <2> QED
      BY <2>1, NothingStored
  <1> QED
    BY <1>1, <1>2, <1>3, <1>4, <1>5, <1>6, <1>7, <1>8, <1>9, <1>10, <1>11 DEF LogNext

\* A level that was set is not lost.
LEMMA SetNext ==
  ASSUME LogTypeOK, CallInv, EnvInv, SetInv, [LogNext]_logVars
  PROVE  SetInv'
  <1>1. ASSUME NEW t \in Threads, log_init(t)
        PROVE  SetInv'
    <2>1. UNCHANGED <<env, g_min_level, g_initialized, stores, raced, lastSet>>
      BY <1>1 DEF log_init, Enter, Quiet
    <2>2. \A u \in Threads : stores[u] # {} => call'[u] = call[u]
      BY <1>1, EnterEffect DEF log_init, Enter, Quiet
    <2> QED
      BY <2>1, <2>2, NothingStored
  <1>2. ASSUME NEW t \in Threads, log_log(t)
        PROVE  SetInv'
    <2>1. UNCHANGED <<env, g_min_level, g_initialized, stores, raced, lastSet>>
      BY <1>2 DEF log_log, Enter, Quiet
    <2>2. \A u \in Threads : stores[u] # {} => call'[u] = call[u]
      BY <1>2, EnterEffect DEF log_log, Enter, Quiet
    <2> QED
      BY <2>1, <2>2, NothingStored
  <1>3. ASSUME NEW t \in Threads, log_set_level(t)
        PROVE  SetInv'
    <2>1. PICK c \in Calls : /\ Enter(t, c, "store") /\ c.op = "log_set_level"
                             /\ stores' = [stores EXCEPT ![t] = {"flag", "level"}]
                             /\ raced' = (\E u \in Threads \ {t} : stores[u] # {})
                             /\ lastSet' = c.level
      BY <1>3 DEF log_set_level, MustStore
    <2>2. /\ stores'[t] = {"flag", "level"}
          /\ \A u \in Threads : u # t => stores'[u] = stores[u]
      BY <2>1 DEF LogTypeOK
    <2>3. lastSet' # NoLevel
      BY <2>1, CallFields DEF Levels, NoLevel, LOG_LEVEL_DEBUG, LOG_LEVEL_INFO, LOG_LEVEL_WARN,
                              LOG_LEVEL_ERROR
    <2>4. call'[t] = c
      BY <2>1, EnterEffect
    <2>5. InSetLevel(t)'
      BY <2>1, <2>4 DEF InSetLevel
    <2>6. ASSUME ~raced', NEW u \in Threads, stores'[u] # {}
          PROVE  u = t
      BY <2>1, <2>2, <2>6
    <2> QED
      BY <2>1, <2>2, <2>4, <2>5, <2>6 DEF SetInv
  <1>4. ASSUME NEW t \in Threads, TestInitialized(t)
        PROVE  SetInv'
    <2>1. UNCHANGED <<env, g_min_level, g_initialized, stores, raced, lastSet>>
      BY <1>4 DEF TestInitialized, Quiet
    <2>2. \A u \in Threads : stores[u] # {} => call'[u] = call[u]
      BY <1>4, EnterEffect DEF TestInitialized, Quiet
    <2> QED
      BY <2>1, <2>2, NothingStored
  <1>5. ASSUME NEW t \in Threads, InitOnce(t)
        PROVE  SetInv'
    <2>1. CASE g_initialized
      <3>1. UNCHANGED <<env, g_min_level, g_initialized, stores, raced, lastSet, call>>
        BY <1>5, <2>1 DEF InitOnce
      <3> QED
        BY <3>1, NothingStored
    <2>2. CASE ~g_initialized
      <3>1. /\ pc[t] = "init" /\ stores[t] = {} /\ stores'[t] = InitStores
            /\ "flag" \in InitStores
            /\ "level" \in InitStores <=> parse_level(env) # NoLevel
            /\ InitStores = {"flag"} <=> parse_level(env) = NoLevel
            /\ \A u \in Threads : u # t => stores'[u] = stores[u]
            /\ raced' = (raced \/ \E u \in Threads \ {t} : stores[u] # {} /\ InSetLevel(u))
            /\ UNCHANGED <<env, g_min_level, g_initialized, call, lastSet>>
        BY <1>5, <2>2, InitEffect
      <3>2. ~InSetLevel(t)
        BY <3>1 DEF CallInv
      <3>3. lastSet # NoLevel => \E u \in Threads : InSetLevel(u) /\ "flag" \in stores[u]
        BY <2>2 DEF SetInv
      <3>4. lastSet # NoLevel => raced'
        BY <3>1, <3>2, <3>3
      <3>5. \A u \in Threads : InSetLevel(u)' = InSetLevel(u)
        BY <3>1 DEF InSetLevel
      <3> QED
        BY <3>1, <3>2, <3>3, <3>4, <3>5 DEF SetInv
    <2> QED
      BY <2>1, <2>2
  <1>6. ASSUME NEW t \in Threads, Store(t)
        PROVE  SetInv'
    <2>1. PICK v \in stores[t] :
             /\ v \in {"flag", "level"}
             /\ stores'[t] = stores[t] \ {v} /\ pc[t] = "store"
             /\ \A u \in Threads : u # t => stores'[u] = stores[u] /\ pc'[u] = pc[u]
             /\ g_initialized' = (g_initialized \/ v = "flag")
             /\ v = "flag" => g_min_level' = g_min_level
             /\ v = "level" => g_min_level' = IF InSetLevel(t) THEN call[t].level
                                             ELSE parse_level(env)
             /\ pc'[t] = IF stores'[t] # {} THEN "store"
                         ELSE IF ~InSetLevel(t) /\ UnknownName
                              THEN "complain" ELSE Back(t)
             /\ UNCHANGED <<env, call, err, exited, lastSet, raced>>
      BY <1>6, StoreEffect
    <2>2. /\ stores'[t] \subseteq stores[t] /\ stores[t] # {}
          /\ \A u \in Threads : stores'[u] # {} => stores[u] # {}
      BY <2>1
    <2>3. \A u \in Threads : InSetLevel(u)' = InSetLevel(u)
      BY <2>1 DEF InSetLevel
    <2>4. CASE v = "flag"
      BY <2>1, <2>2, <2>3, <2>4 DEF SetInv
    <2>5. CASE v = "level"
      <3>1. lastSet # NoLevel => \/ g_initialized'
                                \/ \E u \in Threads : InSetLevel(u) /\ "flag" \in stores'[u]
        BY <2>1, <2>5 DEF SetInv
      <3>2. lastSet # NoLevel /\ ~raced => g_min_level' = lastSet
        BY <2>1, <2>2, <2>5 DEF SetInv
      <3> QED
        BY <2>1, <2>2, <2>3, <3>1, <3>2 DEF SetInv
    <2> QED
      BY <2>1, <2>4, <2>5
  <1>7. ASSUME NEW t \in Threads, Complain(t)
        PROVE  SetInv'
    <2>1. UNCHANGED <<env, g_min_level, g_initialized, stores, raced, lastSet>>
      BY <1>7 DEF Complain, Quiet
    <2>2. \A u \in Threads : stores[u] # {} => call'[u] = call[u]
      BY <1>7, EnterEffect DEF Complain, Quiet
    <2> QED
      BY <2>1, <2>2, NothingStored
  <1>8. ASSUME NEW t \in Threads, Compare(t)
        PROVE  SetInv'
    <2>1. UNCHANGED <<env, g_min_level, g_initialized, stores, raced, lastSet>>
      BY <1>8 DEF Compare, Quiet
    <2>2. \A u \in Threads : stores[u] # {} => call'[u] = call[u]
      BY <1>8, EnterEffect DEF Compare, Quiet
    <2> QED
      BY <2>1, <2>2, NothingStored
  <1>9. ASSUME NEW t \in Threads, WritePart(t)
        PROVE  SetInv'
    <2>1. UNCHANGED <<env, g_min_level, g_initialized, stores, raced, lastSet>>
      BY <1>9 DEF WritePart, Quiet
    <2>2. \A u \in Threads : stores[u] # {} => call'[u] = call[u]
      BY <1>9, EnterEffect DEF WritePart, Quiet
    <2> QED
      BY <2>1, <2>2, NothingStored
  <1>10. ASSUME NEW t \in Threads, Exit(t)
        PROVE  SetInv'
    <2>1. UNCHANGED <<env, g_min_level, g_initialized, stores, raced, lastSet>>
      BY <1>10 DEF Exit, Quiet
    <2>2. \A u \in Threads : stores[u] # {} => call'[u] = call[u]
      BY <1>10, EnterEffect DEF Exit, Quiet
    <2> QED
      BY <2>1, <2>2, NothingStored
  <1>11. CASE UNCHANGED logVars
    <2>1. UNCHANGED <<env, g_min_level, g_initialized, stores, raced, lastSet, call>>
      BY <1>11 DEF logVars
    <2> QED
      BY <2>1, NothingStored
  <1> QED
    BY <1>1, <1>2, <1>3, <1>4, <1>5, <1>6, <1>7, <1>8, <1>9, <1>10, <1>11 DEF LogNext

\* A step that prints nothing, and in which the thread that moves does not leave a report
\* unmade.
LEMMA ReportQuiet ==
  ASSUME ReportInv, ReporterInv, UNCHANGED <<err, env>>, g_initialized => g_initialized',
         NEW t \in Threads,
         \A u \in Threads : u # t => pc'[u] = pc[u] /\ call'[u] = call[u],
         pc'[t] \in {"complain", "compare", "prefix", "text", "newline", "exit"}
           => g_initialized',
         pc'[t] = "complain" => UnknownName,
         Initialising(t)' => err[t] = <<>>,
         UnknownName /\ Initialising(t) => Initialising(t)',
         UnknownName /\ g_initialized' /\ lastSet' = NoLevel
           => (g_initialized /\ lastSet = NoLevel) \/ Initialising(t)'
  PROVE  (ReportInv /\ ReporterInv)'
  <1>1. UnknownName' = UnknownName /\ \A u \in Threads : Reported(u)' = Reported(u)
    BY DEF UnknownName, Reported
  <1>2. \A u \in Threads : u # t => Initialising(u)' = Initialising(u)
    BY DEF Initialising, InSetLevel
  <1>3. ReportInv'
    BY <1>1, <1>2 DEF ReportInv
  <1>4. ReporterInv'
    BY <1>1, <1>2 DEF ReporterInv
  <1> QED
    BY <1>3, <1>4

\* Reports come first, and one is made or on its way.
LEMMA ReportNext ==
  ASSUME LogTypeOK, CallInv, EnvInv, ReportInv, ReporterInv, [LogNext]_logVars
  PROVE  (ReportInv /\ ReporterInv)'
  <1>1. ASSUME NEW t \in Threads, log_init(t) \/ log_log(t)
        PROVE  (ReportInv /\ ReporterInv)'
    <2>1. PICK c \in Calls, to \in {"init", "test"} : Enter(t, c, to) /\ UNCHANGED lastSet
      BY <1>1 DEF log_init, log_log, Quiet
    <2>2. /\ \A u \in Threads : u # t => pc'[u] = pc[u] /\ call'[u] = call[u]
          /\ pc[t] = "idle" /\ pc'[t] \in {"init", "test"}
          /\ UNCHANGED <<env, err, g_initialized, lastSet>>
      BY <2>1, EnterEffect
    <2>3. ~Initialising(t) /\ ~Initialising(t)'
      BY <2>2 DEF Initialising
    <2> QED
      BY <2>2, <2>3, ReportQuiet
  <1>2. ASSUME NEW t \in Threads, log_set_level(t)
        PROVE  (ReportInv /\ ReporterInv)'
    <2>1. PICK c \in Calls :
            Enter(t, c, "store") /\ c.op = "log_set_level" /\ lastSet' = c.level
      BY <1>2 DEF log_set_level
    <2>2. /\ \A u \in Threads : u # t => pc'[u] = pc[u] /\ call'[u] = call[u]
          /\ pc[t] = "idle" /\ pc'[t] = "store" /\ call'[t] = c
          /\ UNCHANGED <<env, err, g_initialized>>
      BY <2>1, EnterEffect
    <2>3. ~Initialising(t) /\ ~Initialising(t)'
      BY <2>1, <2>2 DEF Initialising, InSetLevel
    <2>4. lastSet' # NoLevel
      BY <2>1, CallFields DEF NoLevel, Levels, LOG_LEVEL_DEBUG, LOG_LEVEL_INFO,
                              LOG_LEVEL_WARN, LOG_LEVEL_ERROR
    <2> QED
      BY <2>2, <2>3, <2>4, ReportQuiet
  <1>3. ASSUME NEW t \in Threads, TestInitialized(t)
        PROVE  (ReportInv /\ ReporterInv)'
    <2>1. /\ UNCHANGED <<env, err, g_initialized, call, lastSet>>
          /\ pc[t] = "test" /\ pc'[t] = IF g_initialized THEN "compare" ELSE "init"
          /\ \A u \in Threads : u # t => pc'[u] = pc[u]
      BY <1>3 DEF LogTypeOK, TestInitialized, At, Goto, Quiet
    <2>2. ~Initialising(t) /\ ~Initialising(t)'
      BY <2>1 DEF Initialising
    <2> QED
      BY <2>1, <2>2, ReportQuiet
  <1>4. ASSUME NEW t \in Threads, InitOnce(t), g_initialized
        PROVE  (ReportInv /\ ReporterInv)'
    <2>1. /\ UNCHANGED <<env, err, g_initialized, call, lastSet>>
          /\ pc[t] = "init" /\ pc'[t] \in {"idle", "compare"}
          /\ \A u \in Threads : u # t => pc'[u] = pc[u]
      BY <1>4 DEF LogTypeOK, InitOnce, At, Goto, Back
    <2>2. ~Initialising(t) /\ ~Initialising(t)'
      BY <2>1 DEF Initialising
    <2> QED
      BY <1>4, <2>1, <2>2, ReportQuiet
  <1>5. ASSUME NEW t \in Threads, InitOnce(t), ~g_initialized
        PROVE  (ReportInv /\ ReporterInv)'
    <2>1. /\ UNCHANGED <<env, err, g_initialized, call, lastSet>>
          /\ pc[t] = "init" /\ pc'[t] = "store"
          /\ \A u \in Threads : u # t => pc'[u] = pc[u]
      BY <1>5, InitEffect
    <2>2. err[t] = <<>> /\ ~Initialising(t)
      BY <1>5, <2>1 DEF ReportInv, Initialising
    <2> QED
      BY <1>5, <2>1, <2>2, ReportQuiet
  <1>6. ASSUME NEW t \in Threads, Store(t)
        PROVE  (ReportInv /\ ReporterInv)'
    <2>1. PICK v \in stores[t] :
             /\ v \in {"flag", "level"}
             /\ stores'[t] = stores[t] \ {v} /\ pc[t] = "store"
             /\ \A u \in Threads : u # t => stores'[u] = stores[u] /\ pc'[u] = pc[u]
             /\ g_initialized' = (g_initialized \/ v = "flag")
             /\ v = "flag" => g_min_level' = g_min_level
             /\ v = "level" => g_min_level' = IF InSetLevel(t) THEN call[t].level
                                             ELSE parse_level(env)
             /\ pc'[t] = IF stores'[t] # {} THEN "store"
                         ELSE IF ~InSetLevel(t) /\ UnknownName THEN "complain" ELSE Back(t)
             /\ UNCHANGED <<env, call, err, exited, lastSet, raced>>
      BY <1>6, StoreEffect
    <2>2. InSetLevel(t)' = InSetLevel(t)
      BY <2>1 DEF InSetLevel
    <2>3. pc'[t] \in {"store", "complain", "compare", "idle"}
      BY <2>1 DEF Back
    <2>4. pc'[t] # "store" => g_initialized'
      BY <2>1 DEF CallInv
    <2>5. pc'[t] = "complain" => UnknownName /\ ~InSetLevel(t)
      BY <2>1 DEF Back
    <2>6. Initialising(t)' => ~InSetLevel(t)
      BY <2>1, <2>2, <2>5 DEF Initialising
    <2>7. Initialising(t) <=> ~InSetLevel(t)
      BY <2>1 DEF Initialising
    <2>8. Initialising(t)' => err[t] = <<>>
      BY <2>6, <2>7 DEF ReportInv
    <2>9. UnknownName /\ ~InSetLevel(t) => Initialising(t)'
      BY <2>1, <2>2 DEF Initialising
    <2>10. lastSet = NoLevel => ~InSetLevel(t)
      BY <2>1 DEF EnvInv
    <2>11. \A u \in Threads : u # t => pc'[u] = pc[u] /\ call'[u] = call[u]
      BY <2>1
    <2>12. UNCHANGED <<err, env, lastSet>> /\ (g_initialized => g_initialized')
      BY <2>1
    <2> QED
      BY <2>3, <2>4, <2>5, <2>7, <2>8, <2>9, <2>10, <2>11, <2>12, ReportQuiet
  <1>7. ASSUME NEW t \in Threads, Complain(t)
        PROVE  (ReportInv /\ ReporterInv)'
    <2>1. /\ Emit(t, "unknown level") /\ pc[t] = "complain" /\ pc'[t] \in {"idle", "compare"}
          /\ \A u \in Threads : u # t => pc'[u] = pc[u]
          /\ UNCHANGED <<env, g_initialized, call, lastSet>>
      BY <1>7 DEF LogTypeOK, Complain, At, Goto, Back, Quiet
    <2>2. g_initialized /\ UnknownName /\ err[t] = <<>>
      BY <2>1 DEF ReportInv, Initialising
    <2>3. Len(err[t]) = 0
      BY <2>2, EmptySeq
    <2>4. /\ \A u \in Threads : u # t => err'[u] = err[u]
          /\ 1 \in DOMAIN err'[t] /\ err'[t][1] = "unknown level"
          /\ \A i \in DOMAIN err'[t] : i = 1
      <3>1. err \in [Threads -> Seq(Parts)] /\ "unknown level" \in Parts
        BY DEF LogTypeOK, Parts
      <3>2. /\ \A u \in Threads : u # t => err'[u] = err[u]
            /\ DOMAIN err'[t] = 1 .. (Len(err[t]) + 1)
            /\ err'[t][Len(err[t]) + 1] = "unknown level"
        BY <2>1, <3>1, Emitted
      <3>3. Len(err[t]) + 1 = 1
        BY <2>3
      <3>4. 1 \in 1 .. 1 /\ \A i \in 1 .. 1 : i = 1
        OBVIOUS
      <3> QED
        BY <3>2, <3>3, <3>4, Zenon
    <2>5. UnknownName'
      BY <2>1, <2>2 DEF UnknownName
    <2>6. ~Initialising(t)' /\ \A u \in Threads : u # t => Initialising(u)' = Initialising(u)
      BY <2>1 DEF Initialising, InSetLevel
    <2>7. ReportInv'
      <3>1. ASSUME NEW u \in Threads, u # t
            PROVE  /\ pc'[u] \in {"complain", "compare", "prefix", "text", "newline", "exit"}
                        => g_initialized'
                   /\ pc'[u] = "complain" => UnknownName'
                   /\ Initialising(u)' => err'[u] = <<>>
                   /\ err'[u] # <<>> => g_initialized'
                   /\ \A i \in DOMAIN err'[u] :
                        err'[u][i] = "unknown level" => UnknownName' /\ i = 1
        BY <2>1, <2>2, <2>4, <2>5, <2>6, <3>1 DEF ReportInv
      <3> QED
        BY <2>1, <2>2, <2>4, <2>5, <2>6, <3>1 DEF ReportInv
    <2>8. Reported(t)'
      BY <2>4, Zenon DEF Reported
    <2> QED
      BY <2>7, <2>8 DEF ReporterInv
  <1>8. ASSUME NEW t \in Threads, Compare(t)
        PROVE  (ReportInv /\ ReporterInv)'
    <2>1. /\ UNCHANGED <<env, err, g_initialized, call, lastSet>>
          /\ pc[t] = "compare" /\ pc'[t] \in {"prefix", "exit", "idle"}
          /\ \A u \in Threads : u # t => pc'[u] = pc[u]
      BY <1>8 DEF LogTypeOK, Compare, At, Goto, Done, Quiet
    <2>2. g_initialized /\ ~Initialising(t) /\ ~Initialising(t)'
      BY <2>1 DEF ReportInv, Initialising
    <2> QED
      BY <2>1, <2>2, ReportQuiet
  <1>9. ASSUME NEW t \in Threads, WritePart(t)
        PROVE  (ReportInv /\ ReporterInv)'
    <2>1. PICK from \in {"prefix", "text", "newline"} : Emit(t, from) /\ pc[t] = from
      BY <1>9 DEF WritePart, At
    <2>2. /\ \A u \in Threads : u # t => pc'[u] = pc[u]
          /\ pc'[t] \in {"text", "newline", "exit", "idle"}
          /\ UNCHANGED <<env, g_initialized, call, lastSet>>
      BY <1>9 DEF LogTypeOK, WritePart, At, Goto, Done, Quiet
    <2>3. g_initialized /\ ~Initialising(t) /\ ~Initialising(t)'
      BY <2>1, <2>2 DEF ReportInv, Initialising
    <2>4. /\ \A u \in Threads : u # t => err'[u] = err[u]
          /\ DOMAIN err[t] = 1 .. Len(err[t]) /\ DOMAIN err'[t] = 1 .. (Len(err[t]) + 1)
          /\ Len(err[t]) \in Nat /\ \A i \in 1 .. Len(err[t]) : err'[t][i] = err[t][i]
          /\ \A i \in DOMAIN err'[t] : i \in DOMAIN err[t] \/ i = Len(err[t]) + 1
          /\ err'[t][Len(err[t]) + 1] = from
      <3>1. err \in [Threads -> Seq(Parts)] /\ from \in Parts
        BY DEF LogTypeOK, Parts
      <3> QED
        BY <2>1, <3>1, Emitted
    <2>5. UnknownName' = UnknownName
      BY <2>2 DEF UnknownName
    <2>6. \A u \in Threads : u # t => Initialising(u)' = Initialising(u)
      BY <2>2 DEF Initialising, InSetLevel
    <2>7. ASSUME NEW i \in DOMAIN err'[t], err'[t][i] = "unknown level"
          PROVE  UnknownName' /\ i = 1
      <3>1. i \in DOMAIN err[t] \/ i = Len(err[t]) + 1
        BY <2>4, <2>7
      <3>2. i \in DOMAIN err[t] /\ err[t][i] = "unknown level"
        BY <2>1, <2>4, <2>7, <3>1
      <3> QED
        BY <2>5, <3>2 DEF ReportInv
    <2>8. ReportInv'
      <3>1. \A u \in Threads : u # t => err'[u] = err[u]
        BY <2>4
      <3>2. ASSUME NEW u \in Threads, u # t
            PROVE  /\ pc'[u] \in {"complain", "compare", "prefix", "text", "newline", "exit"}
                        => g_initialized'
                   /\ pc'[u] = "complain" => UnknownName'
                   /\ Initialising(u)' => err'[u] = <<>>
                   /\ err'[u] # <<>> => g_initialized'
                   /\ \A i \in DOMAIN err'[u] :
                        err'[u][i] = "unknown level" => UnknownName' /\ i = 1
        BY <2>2, <2>5, <2>6, <3>1, <3>2 DEF ReportInv
      <3> QED
        BY <2>2, <2>3, <2>7, <3>2 DEF ReportInv
    <2>9. \A u \in Threads : Reported(u) => Reported(u)'
      <3>1. Reported(t) => Reported(t)'
        <4>1. \A i \in DOMAIN err[t] : i \in DOMAIN err'[t] /\ err'[t][i] = err[t][i]
          BY <2>4
        <4> QED
          BY <4>1, Zenon DEF Reported
      <3> QED
        BY <2>4, <3>1 DEF Reported
    <2>10. ReporterInv'
      BY <2>2, <2>3, <2>5, <2>6, <2>9 DEF ReporterInv
    <2> QED
      BY <2>8, <2>10
  <1>10. ASSUME NEW t \in Threads, Exit(t)
        PROVE  (ReportInv /\ ReporterInv)'
    <2>1. UNCHANGED <<env, err, g_initialized, call, lastSet, pc>> /\ pc[t] = "exit"
      BY <1>10 DEF Exit, At, Quiet
    <2>2. g_initialized /\ ~Initialising(t) /\ ~Initialising(t)'
      BY <2>1 DEF ReportInv, Initialising
    <2> QED
      BY <2>1, <2>2, ReportQuiet
  <1>11. CASE UNCHANGED logVars
    <2>1. UNCHANGED <<env, err, g_initialized, lastSet, pc, call>>
      BY <1>11 DEF logVars
    <2> QED
      BY <2>1 DEF ReportInv, ReporterInv, Initialising, InSetLevel, UnknownName, Reported
  <1> QED
    BY <1>1, <1>2, <1>3, <1>4, <1>5, <1>6, <1>7, <1>8, <1>9, <1>10, <1>11 DEF LogNext

\* One thread prints a part: what it printed before is one part further back.
LEMMA PrintedOn ==
  ASSUME LogTypeOK, NEW t \in Threads, NEW what \in Parts, Emit(t, what)
  PROVE  /\ Printed(t, what, 0)'
         /\ \A part : \A k \in Nat : Printed(t, part, k) => Printed(t, part, k + 1)'
         /\ \A u \in Threads : \A part, k : u # t => (Printed(u, part, k)' <=> Printed(u, part, k))
  <1>1. /\ \A u \in Threads : u # t => err'[u] = err[u]
        /\ Len(err[t]) \in Nat
        /\ Len(err'[t]) = Len(err[t]) + 1
        /\ err'[t][Len(err[t]) + 1] = what
        /\ \A i \in 1 .. Len(err[t]) : err'[t][i] = err[t][i]
    BY Emitted DEF LogTypeOK
  <1>2. Printed(t, what, 0)'
    BY <1>1 DEF Printed
  <1>3. ASSUME NEW part, NEW k \in Nat, Printed(t, part, k)
        PROVE  Printed(t, part, k + 1)'
    <2>1. /\ Len(err[t]) > k /\ err[t][Len(err[t]) - k] = part
          /\ Len(err[t]) - k \in 1 .. Len(err[t])
      BY <1>1, <1>3 DEF Printed
    <2>2. Len(err'[t]) - (k + 1) = Len(err[t]) - k
      BY <1>1
    <2>3. err'[t][Len(err'[t]) - (k + 1)] = part
      BY <1>1, <2>1, <2>2
    <2> QED
      BY <1>1, <2>1, <2>3 DEF Printed
  <1> QED
    BY <1>1, <1>2, <1>3 DEF Printed

\* A message is printed part by part, and a fatal one is printed.
LEMMA HeardNext ==
  ASSUME LogTypeOK, CallInv, HeardInv, [LogNext]_logVars
  PROVE  HeardInv'
  <1>1. ASSUME NEW t \in Threads, log_init(t)
        PROVE  HeardInv'
    <2>2. /\ pc'[t] \notin {"text", "newline", "exit"}
          /\ \A u \in Threads : u # t => pc'[u] = pc[u]
          /\ UNCHANGED <<err, exited>> /\ ~exited
      BY <1>1, CallFields DEF LogTypeOK, CallInv, log_init, Enter, Quiet, Goto
    <2> QED
      BY <2>2 DEF HeardInv, Printed
  <1>2. ASSUME NEW t \in Threads, log_log(t)
        PROVE  HeardInv'
    <2>2. /\ pc'[t] \notin {"text", "newline", "exit"}
          /\ \A u \in Threads : u # t => pc'[u] = pc[u]
          /\ UNCHANGED <<err, exited>> /\ ~exited
      BY <1>2, CallFields DEF LogTypeOK, CallInv, log_log, Enter, Quiet, Goto
    <2> QED
      BY <2>2 DEF HeardInv, Printed
  <1>3. ASSUME NEW t \in Threads, log_set_level(t)
        PROVE  HeardInv'
    <2>2. /\ pc'[t] \notin {"text", "newline", "exit"}
          /\ \A u \in Threads : u # t => pc'[u] = pc[u]
          /\ UNCHANGED <<err, exited>> /\ ~exited
      BY <1>3, CallFields DEF LogTypeOK, CallInv, log_set_level, Enter, MustStore, Goto
    <2> QED
      BY <2>2 DEF HeardInv, Printed
  <1>4. ASSUME NEW t \in Threads, TestInitialized(t)
        PROVE  HeardInv'
    <2>2. /\ pc'[t] \notin {"text", "newline", "exit"}
          /\ \A u \in Threads : u # t => pc'[u] = pc[u]
          /\ UNCHANGED <<err, exited>> /\ ~exited
      BY <1>4, CallFields DEF LogTypeOK, CallInv, TestInitialized, At, Quiet, Goto
    <2> QED
      BY <2>2 DEF HeardInv, Printed
  <1>5. ASSUME NEW t \in Threads, InitOnce(t)
        PROVE  HeardInv'
    <2>2. /\ pc'[t] \notin {"text", "newline", "exit"}
          /\ \A u \in Threads : u # t => pc'[u] = pc[u]
          /\ UNCHANGED <<err, exited>> /\ ~exited
      BY <1>5, CallFields DEF LogTypeOK, CallInv, InitOnce, At, MustStore, InitStores, Goto, Back
    <2> QED
      BY <2>2 DEF HeardInv, Printed
  <1>6. ASSUME NEW t \in Threads, Store(t)
        PROVE  HeardInv'
    <2>2. /\ pc'[t] \notin {"text", "newline", "exit"}
          /\ \A u \in Threads : u # t => pc'[u] = pc[u]
          /\ UNCHANGED <<err, exited>> /\ ~exited
      BY <1>6, CallFields DEF LogTypeOK, CallInv, Store, At, Goto, Back
    <2> QED
      BY <2>2 DEF HeardInv, Printed
  <1>7. ASSUME NEW t \in Threads, Complain(t)
        PROVE  HeardInv'
    <2>1. /\ Emit(t, "unknown level") /\ pc'[t] \in {"idle", "compare"}
          /\ \A u \in Threads : u # t => pc'[u] = pc[u]
          /\ UNCHANGED exited /\ ~exited
      BY <1>7 DEF LogTypeOK, Complain, At, Goto, Back
    <2>2. \A u \in Threads : \A part, k : u # t => (Printed(u, part, k)' <=> Printed(u, part, k))
      BY <2>1, PrintedOn DEF Parts
    <2> QED
      BY <2>1, <2>2 DEF HeardInv
  <1>8. ASSUME NEW t \in Threads, Compare(t)
        PROVE  HeardInv'
    <2>1. call[t].op = "LOG_FATAL" => ~(call[t].level < g_min_level)
      BY CallFields DEF LogTypeOK, Levels, LOG_LEVEL_DEBUG, LOG_LEVEL_INFO, LOG_LEVEL_WARN,
                        LOG_LEVEL_ERROR
    <2>2. /\ pc'[t] \notin {"text", "newline", "exit"}
          /\ \A u \in Threads : u # t => pc'[u] = pc[u]
          /\ UNCHANGED <<err, exited>> /\ ~exited
      BY <1>8, <2>1, CallFields DEF LogTypeOK, CallInv, Compare, At, Goto, Done, Quiet
    <2> QED
      BY <2>2 DEF HeardInv, Printed
  <1>9. ASSUME NEW t \in Threads, WritePart(t)
        PROVE  HeardInv'
    <2>1. PICK from \in {"prefix", "text", "newline"} : Emit(t, from) /\ pc[t] = from
      BY <1>9 DEF WritePart, At
    <2>2. /\ \A u \in Threads : u # t => pc'[u] = pc[u]
          /\ from = "prefix" => pc'[t] = "text"
          /\ from = "text" => pc'[t] = "newline"
          /\ from = "newline" => pc'[t] \in {"exit", "idle"}
          /\ UNCHANGED exited /\ ~exited
      BY <1>9, <2>1 DEF LogTypeOK, WritePart, At, Goto, Done
    <2>3. /\ Printed(t, from, 0)'
          /\ \A part : \A k \in Nat : Printed(t, part, k) => Printed(t, part, k + 1)'
          /\ \A u \in Threads : \A part, k : u # t => (Printed(u, part, k)' <=> Printed(u, part, k))
      BY <2>1, PrintedOn DEF Parts
    <2>4. /\ Printed(t, "prefix", 0) => Printed(t, "prefix", 1)'
          /\ Printed(t, "prefix", 1) => Printed(t, "prefix", 2)'
          /\ Printed(t, "text", 0) => Printed(t, "text", 1)'
      <3>1. /\ Printed(t, "prefix", 0) => Printed(t, "prefix", 0 + 1)'
            /\ Printed(t, "prefix", 1) => Printed(t, "prefix", 1 + 1)'
            /\ Printed(t, "text", 0) => Printed(t, "text", 0 + 1)'
        BY <2>3
      <3> QED
        BY <3>1
    <2>5. /\ pc'[t] = "text" => Printed(t, "prefix", 0)'
          /\ pc'[t] = "newline" => Printed(t, "prefix", 1)' /\ Printed(t, "text", 0)'
          /\ pc'[t] = "exit" => /\ Printed(t, "prefix", 2)' /\ Printed(t, "text", 1)'
                                /\ Printed(t, "newline", 0)'
      BY <2>1, <2>2, <2>3, <2>4 DEF HeardInv
    <2> QED
      BY <2>2, <2>3, <2>5 DEF HeardInv
  <1>10. ASSUME NEW t \in Threads, Exit(t)
        PROVE  HeardInv'
    <2>1. UNCHANGED <<err, pc>> /\ pc[t] = "exit"
      BY <1>10 DEF Exit, At
    <2> QED
      BY <2>1 DEF HeardInv, Printed
  <1>11. CASE UNCHANGED logVars
    <2>1. UNCHANGED <<err, exited, pc>>
      BY <1>11 DEF logVars
    <2> QED
      BY <2>1 DEF HeardInv, Printed
  <1> QED
    BY <1>1, <1>2, <1>3, <1>4, <1>5, <1>6, <1>7, <1>8, <1>9, <1>10, <1>11 DEF LogNext

-----------------------------------------------------------------------------
(* The theorems                                                            *)

\* The invariant holds initially.
LEMMA LogInvInit == LogInit => LogInv
  <1> SUFFICES ASSUME LogInit PROVE LogInv
    OBVIOUS
  <1>1. LogTypeOK
    <2>1. err \in [Threads -> Seq(Parts)]
      BY EmptySeq DEF LogInit
    <2>2. call \in [Threads -> Calls]
      BY DEF LogInit, Calls
    <2>3. ncalls \in [Threads -> 0 .. MaxCalls]
      BY LogAssumption DEF LogInit
    <2> QED
      BY <2>1, <2>2, <2>3 DEF LogInit, LogTypeOK, Levels
  <1>2. /\ lastSet = NoLevel /\ g_min_level = LOG_LEVEL_INFO /\ ~g_initialized /\ ~exited
        /\ \A t \in Threads : pc[t] = "idle" /\ stores[t] = {} /\ err[t] = <<>>
    BY DEF LogInit
  <1>3. CallInv /\ EnvInv /\ SetInv
    BY <1>2 DEF CallInv, EnvInv, SetInv
  <1>4. \A t \in Threads : DOMAIN err[t] = {}
    BY <1>2, EmptySeq, LenProperties
  <1>5. ReportInv /\ ReporterInv
    BY <1>2, <1>4 DEF ReportInv, ReporterInv, Initialising
  <1>6. HeardInv
    BY <1>2 DEF HeardInv
  <1> QED
    BY <1>1, <1>3, <1>5, <1>6 DEF LogInv

\* The inductive invariant of the log: who stores what, who reported and what was
\* printed, whatever the threads that use the log do (log.c: every function).
THEOREM LogInvariant == LogSpec => []LogInv
  <1>1. LogInit => LogInv
    BY LogInvInit
  <1>2. LogInv /\ [LogNext]_logVars => LogInv'
    BY TypeNext, CallNext, EnvNext, SetNext, ReportNext, HeardNext DEF LogInv
  <1> QED
    BY <1>1, <1>2, PTL DEF LogSpec

\* Every variable of the log keeps its type.
THEOREM LogTypeCorrect == LogSpec => []LogTypeOK
  <1>1. LogInv => LogTypeOK
    BY DEF LogInv
  <1> QED
    BY <1>1, LogInvariant, PTL

\* With any number of threads, once no store is under way the level is the one set last,
\* or else the environment's (log.c: log_init, log_set_level).
THEOREM LevelSettled == LogSpec => []LevelSettles
  <1>1. LogInv => LevelSettles
    BY DEF LogInv, EnvInv, SetInv, LevelSettles
  <1> QED
    BY <1>1, LogInvariant, PTL

\* With any number of threads, a name that is no level is reported by whoever initialises
\* the log, before anything else that thread prints (log.c: log_init).
THEOREM UnknownIsReported == LogSpec => []UnknownReported
  <1>1. LogInv => UnknownReported
    BY DEF LogInv, ReportInv, ReporterInv, Initialising, UnknownReported
  <1> QED
    BY <1>1, LogInvariant, PTL

\* With any number of threads that set the level, no LOG_FATAL exits before its message is
\* on stderr as a whole (log.h: LOG_FATAL).
THEOREM FatalHeard == LogSpec => []FatalIsHeard
  <1>1. ASSUME LogInv, exited
        PROVE  FatalIsHeard
    <2>1. PICK t \in Threads : pc[t] = "exit"
      BY <1>1 DEF LogInv, HeardInv
    <2> DEFINE n == Len(err[t])
    <2>2. err[t] \in Seq(Parts) /\ n \in Nat
      BY <1>1, LenProperties DEF LogInv, LogTypeOK
    <2>3. n > 2 /\ err[t][n - 2] = "prefix" /\ err[t][n - 1] = "text" /\ err[t][n - 0] = "newline"
      BY <1>1, <2>1 DEF LogInv, HeardInv, Printed
    <2> HIDE DEF n
    <2>4. n \in 3 .. n /\ n - 2 \in 1 .. n /\ n - 0 = n
      BY <2>2, <2>3
    <2> DEFINE tail == SubSeq(err[t], n - 2, n)
               whole == <<"prefix", "text", "newline">>
    <2>5. \A i \in n - 2 .. n : err[t][i] \in Parts
      BY <2>2, <2>3, ElementOfSeq DEF n
    <2>6. /\ tail \in Seq(Parts) /\ Len(tail) = 3
          /\ \A i \in 1 .. 3 : tail[i] = err[t][(n - 2) + i - 1]
      BY <2>2, <2>5, SubSeqProperties
    <2>7. whole \in Seq(Parts) /\ Len(whole) = 3
      BY DEF Parts
    <2>8. /\ tail[1] = err[t][(n - 2) + 1 - 1] /\ tail[2] = err[t][(n - 2) + 2 - 1]
          /\ tail[3] = err[t][(n - 2) + 3 - 1]
      BY <2>6
    <2>9. /\ (n - 2) + 1 - 1 = n - 2 /\ (n - 2) + 2 - 1 = n - 1 /\ (n - 2) + 3 - 1 = n - 0
      BY <2>2
    <2>10. tail[1] = whole[1] /\ tail[2] = whole[2] /\ tail[3] = whole[3]
      BY <2>3, <2>8, <2>9
    <2>11. \A i \in 1 .. 3 : i = 1 \/ i = 2 \/ i = 3
      OBVIOUS
    <2>12. \A i \in 1 .. 3 : tail[i] = whole[i]
      <3> HIDE DEF tail, whole
      <3> QED
        BY <2>10, <2>11
    <2>13. tail = whole
      BY <2>6, <2>7, <2>12, SeqEqual
    <2> QED
      BY <2>1, <2>2, <2>3, <2>13 DEF FatalIsHeard, n
  <1>2. LogInv => FatalIsHeard
    BY <1>1 DEF FatalIsHeard
  <1> QED
    BY <1>2, LogInvariant, PTL

=============================================================================
