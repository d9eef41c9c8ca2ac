-------------------------------- MODULE Log ---------------------------------
(***************************************************************************)
(* The log (utilities/log/src/log.c, log.h), as the loader has it: a part  *)
(* of a shared library that Python threads call at the same time, since    *)
(* ctypes releases the interpreter's lock.  Its two static variables are   *)
(* plain: the stores of one function become visible in either order.       *)
(* A message is three fprintf calls; what it says, and how the parts of    *)
(* messages of different threads mix on stderr, is left out.               *)
(***************************************************************************)
EXTENDS Integers, Sequences

CONSTANTS
  Threads,   \* threads that use the log
  Names,     \* values of PROCESS_BRIDGE_LOG_LEVEL that are tried
  MaxCalls   \* bound: calls that a thread makes

LOG_LEVEL_DEBUG == 0
LOG_LEVEL_INFO  == 1
LOG_LEVEL_WARN  == 2
LOG_LEVEL_ERROR == 3

Levels == {LOG_LEVEL_DEBUG, LOG_LEVEL_INFO, LOG_LEVEL_WARN, LOG_LEVEL_ERROR}

NoLevel == -1
NoName == "(not set)"   \* the variable is not in the environment; "" is set, but empty

parse_level(name) ==
  CASE name = "DEBUG" -> LOG_LEVEL_DEBUG
    [] name = "INFO" -> LOG_LEVEL_INFO
    [] name \in {"WARN", "WARNING"} -> LOG_LEVEL_WARN
    [] name = "ERROR" -> LOG_LEVEL_ERROR
    [] OTHER -> NoLevel

ASSUME LogAssumption == MaxCalls \in Nat /\ NoName \in Names

Parts == {"unknown level", "prefix", "text", "newline"}   \* of what is printed

Calls == [op : {"log_init"}, level : {NoLevel}]
           \cup [op : {"log_set_level", "log_log"}, level : Levels]
           \cup [op : {"LOG_FATAL"}, level : {LOG_LEVEL_ERROR}]

VARIABLES
  env,           \* PROCESS_BRIDGE_LOG_LEVEL
  g_min_level,
  g_initialized,
  pc,            \* pc[t]: where thread t is
  call,          \* call[t]: what it calls
  ncalls,        \* ncalls[t]: its calls so far
  stores,        \* stores[t]: static variables it has yet to assign
  err,           \* err[t]: what it wrote to stderr
  exited,        \* exit() was called
  lastSet,       \* history: the level of the last log_set_level
  raced          \* history: the last log_set_level had stores to do at the same
                 \* time as another thread

logVars == <<env, g_min_level, g_initialized, pc, call, ncalls, stores, err, exited,
             lastSet, raced>>

LogInit ==
  /\ env \in Names
  /\ g_min_level = LOG_LEVEL_INFO
  /\ g_initialized = FALSE
  /\ pc = [t \in Threads |-> "idle"]
  /\ call = [t \in Threads |-> [op |-> "log_init", level |-> NoLevel]]
  /\ ncalls = [t \in Threads |-> 0]
  /\ stores = [t \in Threads |-> {}]
  /\ err = [t \in Threads |-> <<>>]
  /\ exited = FALSE
  /\ lastSet = NoLevel
  /\ raced = FALSE

-----------------------------------------------------------------------------
\* The environment has a name that is no level.
UnknownName == env # NoName /\ parse_level(env) = NoLevel

Goto(t, to) == pc' = [pc EXCEPT ![t] = to]

Emit(t, what) == err' = [err EXCEPT ![t] = Append(@, what)]

\* Where log_init returns to: into log_log, or to its caller.
Back(t) == IF call[t].op \in {"log_log", "LOG_FATAL"} THEN "compare" ELSE "idle"

InSetLevel(t) == call[t].op = "log_set_level"

\* Thread t, in function op, has the variables of vs to assign.
MustStore(t, op, vs) ==
  /\ stores' = [stores EXCEPT ![t] = vs]
  /\ raced' = IF op = "log_set_level"
              THEN \E u \in Threads \ {t} : stores[u] # {}
              ELSE raced \/ \E u \in Threads \ {t} : stores[u] # {} /\ InSetLevel(u)

Enter(t, c, to) ==
  /\ ~exited
  /\ pc[t] = "idle"
  /\ ncalls[t] < MaxCalls
  /\ ncalls' = [ncalls EXCEPT ![t] = @ + 1]
  /\ call' = [call EXCEPT ![t] = c]
  /\ Goto(t, to)
  /\ UNCHANGED <<env, g_min_level, g_initialized, err, exited>>

Quiet == UNCHANGED <<stores, raced, lastSet>>

log_init(t) == \E c \in Calls : c.op = "log_init" /\ Enter(t, c, "init") /\ Quiet

log_log(t) ==
  \E c \in Calls : c.op \in {"log_log", "LOG_FATAL"} /\ Enter(t, c, "test") /\ Quiet

\* Mutant: the level is set, but the log does not count as initialised.
SetLevelOnly(t) ==
  \E c \in Calls :
    /\ c.op = "log_set_level"
    /\ Enter(t, c, "store")
    /\ MustStore(t, c.op, {"level"})
    /\ lastSet' = c.level

log_set_level(t) ==
  \E c \in Calls :
    /\ c.op = "log_set_level"
    /\ Enter(t, c, "store")
    /\ MustStore(t, c.op, {"flag", "level"})
    /\ lastSet' = c.level

-----------------------------------------------------------------------------
At(t, from) == ~exited /\ pc[t] = from

\* log_log: if (!g_initialized) log_init()
TestInitialized(t) ==
  /\ At(t, "test")
  /\ Goto(t, IF g_initialized THEN "compare" ELSE "init")
  /\ UNCHANGED <<env, g_min_level, g_initialized, call, ncalls, err, exited>>
  /\ Quiet

\* Mutant: whether the name could be parsed is not looked at.
AlwaysStoreLevel == {"flag", "level"}

\* What log_init has to assign: the level only when the name is one.
InitStores == {"flag"} \cup (IF parse_level(env) = NoLevel THEN {} ELSE {"level"})

\* Mutant: log_init does not look whether it was called before.
InitAgain(t) ==
  /\ At(t, "init")
  /\ Goto(t, "store")
  /\ MustStore(t, "log_init", InitStores)
  /\ UNCHANGED <<env, g_min_level, g_initialized, call, ncalls, err, exited, lastSet>>

InitOnce(t) ==
  /\ At(t, "init")
  /\ IF g_initialized
     THEN Goto(t, Back(t)) /\ UNCHANGED <<stores, raced>>
     ELSE /\ Goto(t, "store")
          /\ MustStore(t, "log_init", InitStores)
  /\ UNCHANGED <<env, g_min_level, g_initialized, call, ncalls, err, exited, lastSet>>

Store(t) ==
  /\ At(t, "store")
  /\ \E v \in stores[t] :
       /\ stores' = [stores EXCEPT ![t] = @ \ {v}]
       /\ g_initialized' = (g_initialized \/ v = "flag")
       /\ g_min_level' = IF v # "level" THEN g_min_level
                         ELSE IF InSetLevel(t) THEN call[t].level ELSE parse_level(env)
  /\ Goto(t, IF stores'[t] # {} THEN "store"
             ELSE IF ~InSetLevel(t) /\ UnknownName THEN "complain" ELSE Back(t))
  /\ UNCHANGED <<env, call, ncalls, err, exited, lastSet, raced>>

\* Mutant: the name is not reported.
SilentComplain(t) ==
  /\ At(t, "complain")
  /\ Goto(t, Back(t))
  /\ UNCHANGED <<env, g_min_level, g_initialized, call, ncalls, err, exited>>
  /\ Quiet

Complain(t) ==
  /\ At(t, "complain")
  /\ Emit(t, "unknown level")
  /\ Goto(t, Back(t))
  /\ UNCHANGED <<env, g_min_level, g_initialized, call, ncalls, exited>>
  /\ Quiet

-----------------------------------------------------------------------------
(* log_log and LOG_FATAL, once the log is initialised                      *)

\* Where log_log returns to.
Done(t) == IF call[t].op = "LOG_FATAL" THEN "exit" ELSE "idle"

\* Mutant: a message of the least level that is shown is dropped.
CompareStrictly(t) ==
  /\ At(t, "compare")
  /\ Goto(t, IF call[t].level <= g_min_level THEN Done(t) ELSE "prefix")
  /\ UNCHANGED <<env, g_min_level, g_initialized, call, ncalls, err, exited>>
  /\ Quiet

Compare(t) ==
  /\ At(t, "compare")
  /\ Goto(t, IF call[t].level < g_min_level THEN Done(t) ELSE "prefix")
  /\ UNCHANGED <<env, g_min_level, g_initialized, call, ncalls, err, exited>>
  /\ Quiet

WritePart(t) ==
  /\ \E from \in {"prefix", "text", "newline"} :
       /\ At(t, from)
       /\ Emit(t, from)
       /\ Goto(t, CASE from = "prefix" -> "text"
                    [] from = "text" -> "newline"
                    [] from = "newline" -> Done(t))
  /\ UNCHANGED <<env, g_min_level, g_initialized, call, ncalls, exited>>
  /\ Quiet

\* LOG_FATAL: exit(EXIT_FAILURE) ends every thread.
Exit(t) ==
  /\ At(t, "exit")
  /\ exited' = TRUE
  /\ UNCHANGED <<env, g_min_level, g_initialized, pc, call, ncalls, err>>
  /\ Quiet

LogNext ==
  \E t \in Threads :
    \/ log_init(t) \/ log_log(t) \/ log_set_level(t)
    \/ TestInitialized(t) \/ InitOnce(t) \/ Store(t) \/ Complain(t)
    \/ Compare(t) \/ WritePart(t) \/ Exit(t)

LogSpec == LogInit /\ [][LogNext]_logVars

-----------------------------------------------------------------------------
(* Properties                                                              *)

\* Every variable has its type.
LogTypeOK ==
  /\ env \in Names
  /\ g_min_level \in Levels
  /\ g_initialized \in BOOLEAN
  /\ pc \in [Threads -> {"idle", "test", "init", "store", "complain", "compare",
                         "prefix", "text", "newline", "exit"}]
  /\ call \in [Threads -> Calls]
  /\ ncalls \in [Threads -> 0 .. MaxCalls]
  /\ stores \in [Threads -> SUBSET {"flag", "level"}]
  /\ \A t \in Threads : stores[t] # {} <=> pc[t] = "store"
  /\ err \in [Threads -> Seq(Parts)]
  /\ exited \in BOOLEAN /\ raced \in BOOLEAN
  /\ lastSet \in Levels \cup {NoLevel}

\* The level that the environment asks for: INFO when it names none.
EnvLevel == IF parse_level(env) = NoLevel THEN LOG_LEVEL_INFO ELSE parse_level(env)

\* Once the stores have settled, the level is the one set last, or else the
\* environment's, whoever initialised the log: threads that initialise it at the same
\* time agree, and a level that log_set_level set before the first message is not
\* replaced by the initialisation that message brings (log.c: g_initialized = 1 in
\* log_set_level).  Only a log_init already past its test may overwrite it.
LevelSettles ==
  (g_initialized /\ ~raced /\ \A t \in Threads : stores[t] = {}) =>
    g_min_level = IF lastSet = NoLevel THEN EnvLevel ELSE lastSet

\* The thread reported the name of the level.
Reported(t) == \E i \in DOMAIN err[t] : err[t][i] = "unknown level"

\* A name that is no level, the empty one included, is reported, and nothing else is
\* (log.c:58-64).  Unless a level was set, the report is on stderr once no thread is
\* inside the initialisation, whichever thread did it: the flag that turns the others
\* away is set before the report is written, but not without its being written.  A
\* thread's report comes before its first message, so no thread reports twice; two
\* threads that find the flag not set report once each.
UnknownReported ==
  /\ \A t \in Threads : \A i \in DOMAIN err[t] :
       err[t][i] = "unknown level" => UnknownName /\ i = 1
  /\ (/\ UnknownName /\ g_initialized /\ lastSet = NoLevel
      /\ \A t \in Threads : pc[t] \notin {"store", "complain"})
       => \E t \in Threads : Reported(t)

\* The process never exits without a word: when LOG_FATAL calls exit, its message is
\* on stderr as a whole, at every level and whatever other threads do to the level.
FatalIsHeard ==
  exited =>
    \E t \in Threads :
      /\ pc[t] = "exit"
      /\ LET n == Len(err[t])
         IN  n >= 3 /\ SubSeq(err[t], n - 2, n) = <<"prefix", "text", "newline">>

=============================================================================
