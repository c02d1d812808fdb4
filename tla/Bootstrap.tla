----------------------------- MODULE Bootstrap -----------------------------
(***************************************************************************)
(* From the start of the API process to its first requests:                 *)
(*   rules/registry.py      register, as the check modules are imported     *)
(*   api/app.py             create_app, _lifespan                           *)
(*   api/observability.py   configure_logging                               *)
(*   db/session.py          get_engine, create_db_and_tables, get_session   *)
(*                                                                         *)
(* get_engine is lazy and has no lock.  The event loop's thread runs it in  *)
(* the lifespan hook, the worker threads in every request; each line that   *)
(* touches the module-level _engine is a step.  A process may die at any    *)
(* time: its memory is lost, the database stays.                           *)
(***************************************************************************)
EXTENDS Integers, Sequences

CONSTANTS
    Loop,       \* the event loop's thread
    Workers,    \* the worker threads
    Declarations, \* the rule ids a version of the check modules may declare, in
                \* import order
    MaxApps,    \* bound on calls of create_app in one process
    MaxBoots    \* bound on process starts

ASSUME ThreadsAssumption == Loop \notin Workers
ASSUME BootAssumption ==
    /\ Declarations \subseteq Seq(STRING)
    /\ MaxApps \in Nat \ {0}
    /\ MaxBoots \in Nat

Threads == Workers \cup {Loop}

VARIABLES
    stage,      \* "down", "import", "created", "startup" or "serving"
    declared,   \* the ids the deployed check modules declare
    rules,      \* _RULES: the ids registered, in order
    apps,       \* how often create_app was called
    handlers,   \* JSON handlers on the root logger
    root_level, \* its level
    engine,     \* the module-level _engine: NoEngine, or the number of an engine
    built,      \* engines (pools) this process has built
    line,       \* per thread, where it is in get_engine: "idle", "check", "make",
                \* "assign", "return" or "use"
    local,      \* per thread, the engine it has made or was returned
    tables,     \* the tables the database has
    starts

memory == <<rules, apps, handlers, root_level>>
session_module == <<engine, built, line, local>>
boot_vars == <<stage, declared, memory, session_module, tables, starts>>

NoEngine == 0

\* SQLModel.metadata: what models/ declares.
SCHEMA == {"scan", "finding"}

\* What a new process finds: nothing but the database.
NewProcess ==
    /\ rules' = << >>
    /\ apps' = 0
    /\ handlers' = 0
    /\ root_level' = "WARNING"
    /\ engine' = NoEngine
    /\ built' = 0
    /\ line' = [t \in Threads |-> "idle"]
    /\ local' = [t \in Threads |-> NoEngine]

BootInit ==
    /\ stage = "down"
    /\ declared \in Declarations
    /\ rules = << >>
    /\ apps = 0
    /\ handlers = 0
    /\ root_level = "WARNING"
    /\ engine = NoEngine
    /\ built = 0
    /\ line = [t \in Threads |-> "idle"]
    /\ local = [t \in Threads |-> NoEngine]
    /\ tables = {}
    /\ starts = 0

Boot ==
    /\ stage = "down"
    /\ starts < MaxBoots
    /\ starts' = starts + 1
    /\ NewProcess
    /\ stage' = "import"
    /\ UNCHANGED <<declared, tables>>

Die ==
    /\ stage # "down"
    /\ stage' = "down"
    /\ NewProcess
    /\ UNCHANGED <<declared, tables, starts>>

\* Mutated Register: nobody looks whether the id is there already.
RegisterQuietly ==
    /\ stage = "import"
    /\ Len(rules) < Len(declared)
    /\ rules' = Append(rules, declared[Len(rules) + 1])
    /\ UNCHANGED <<stage, declared, apps, handlers, root_level, session_module, tables, starts>>

\* The next class is registered; a duplicate id raises, and the import with it.
Register ==
    LET id == declared[Len(rules) + 1]
    IN  /\ stage = "import"
        /\ Len(rules) < Len(declared)
        /\ IF \E n \in 1..Len(rules) : rules[n] = id
           THEN stage' = "down" /\ NewProcess
           ELSE /\ rules' = Append(rules, id)
                /\ UNCHANGED <<stage, apps, handlers, root_level, session_module>>
        /\ UNCHANGED <<declared, tables, starts>>

\* Idempotent: the handler is found by its name.
configure_logging ==
    IF handlers > 0
    THEN UNCHANGED <<handlers, root_level>>
    ELSE /\ handlers' = 1
         /\ root_level' = IF root_level \in {"WARNING", "NOTSET"} THEN "INFO" ELSE root_level

\* create_app, for the module-level app and for whoever else calls it.
CreateApp ==
    /\ \/ stage = "import" /\ Len(rules) = Len(declared)
       \/ stage = "created" /\ apps < MaxApps
    /\ stage' = "created"
    /\ apps' = apps + 1
    /\ configure_logging
    /\ UNCHANGED <<declared, rules, session_module, tables, starts>>

\* Mutated Startup: the lifespan hook is gone, tables and engine come later.
StartupWithoutHook ==
    /\ stage = "created"
    /\ stage' = "serving"
    /\ UNCHANGED <<declared, memory, session_module, tables, starts>>

\* The server starts the lifespan: create_db_and_tables calls get_engine.
Startup ==
    /\ stage = "created"
    /\ stage' = "startup"
    /\ line' = [line EXCEPT ![Loop] = "check"]
    /\ UNCHANGED <<declared, memory, engine, built, local, tables, starts>>

\* A request on a worker thread needs a session.
Request(t) ==
    /\ stage = "serving"
    /\ t \in Workers
    /\ line[t] = "idle"
    /\ line' = [line EXCEPT ![t] = "check"]
    /\ UNCHANGED <<stage, declared, memory, engine, built, local, tables, starts>>

\* if _engine is None
Check(t) ==
    /\ line[t] = "check"
    /\ line' = [line EXCEPT ![t] = IF engine = NoEngine THEN "make" ELSE "return"]
    /\ UNCHANGED <<stage, declared, memory, engine, built, local, tables, starts>>

\* create_engine(...)
Make(t) ==
    /\ line[t] = "make"
    /\ built' = built + 1
    /\ local' = [local EXCEPT ![t] = built + 1]
    /\ line' = [line EXCEPT ![t] = "assign"]
    /\ UNCHANGED <<stage, declared, memory, engine, tables, starts>>

\* _engine = ...
Assign(t) ==
    /\ line[t] = "assign"
    /\ engine' = local[t]
    /\ line' = [line EXCEPT ![t] = "return"]
    /\ UNCHANGED <<stage, declared, memory, built, local, tables, starts>>

\* return _engine
Return(t) ==
    /\ line[t] = "return"
    /\ local' = [local EXCEPT ![t] = engine]
    /\ line' = [line EXCEPT ![t] = "use"]
    /\ UNCHANGED <<stage, declared, memory, engine, built, tables, starts>>

\* create_all: the tables that are missing, one CREATE TABLE after the other, in an
\* order left open, each in the database for good when it is done.  (Of a table that was created, an index
\* may stay missing for ever; no session sees the difference.)
CreateTable ==
    /\ stage = "startup"
    /\ line[Loop] = "use"
    /\ \E table \in SCHEMA \ tables : tables' = tables \cup {table}
    /\ UNCHANGED <<stage, declared, memory, session_module, starts>>

\* Mutated Serve: the hook has seen one table and takes the rest for granted.
ServeEarly ==
    /\ stage = "startup"
    /\ line[Loop] = "use"
    /\ tables # {}
    /\ line' = [line EXCEPT ![Loop] = "idle"]
    /\ stage' = "serving"
    /\ UNCHANGED <<declared, memory, engine, built, local, tables, starts>>

\* create_all returns, the hook yields, and the server takes requests.
Serve ==
    /\ stage = "startup"
    /\ line[Loop] = "use"
    /\ tables = SCHEMA
    /\ line' = [line EXCEPT ![Loop] = "idle"]
    /\ stage' = "serving"
    /\ UNCHANGED <<declared, memory, engine, built, local, tables, starts>>

\* The request is over, its session closed.
Close(t) ==
    /\ t \in Workers
    /\ line[t] = "use"
    /\ line' = [line EXCEPT ![t] = "idle"]
    /\ UNCHANGED <<stage, declared, memory, engine, built, local, tables, starts>>

GetEngine(t) == Check(t) \/ Make(t) \/ Assign(t) \/ Return(t)

BootNext ==
    \/ Boot \/ Die
    \/ Register \/ CreateApp
    \/ Startup \/ CreateTable \/ Serve
    \/ \E t \in Threads : Request(t) \/ GetEngine(t) \/ Close(t)

BootSpec == BootInit /\ [][BootNext]_boot_vars
-----------------------------------------------------------------------------
BootTypeOK ==
    /\ stage \in {"down", "import", "created", "startup", "serving"}
    /\ declared \in Declarations
    /\ rules \in Seq(STRING)
    /\ apps \in 0..MaxApps
    /\ handlers \in Nat
    /\ root_level \in {"WARNING", "INFO"}
    /\ engine \in Nat
    /\ built \in Nat
    /\ line \in [Threads -> {"idle", "check", "make", "assign", "return", "use"}]
    /\ local \in [Threads -> Nat]
    /\ tables \subseteq SCHEMA
    /\ starts \in 0..MaxBoots

\* session.py:3, "so production code shares one connection pool": although
\* get_engine checks and sets without a lock, no process ever builds a second
\* engine, and every session is on the one there is.
OnePool ==
    /\ built <= 1
    /\ \A t \in Threads : line[t] = "use" => local[t] = 1

\* app.py:27, "Ensure schema exists on the active engine before serving traffic",
\* the whole of it, also when earlier processes died between two of its tables.
SessionsSeeTables == \A t \in Workers : line[t] = "use" => tables = SCHEMA

\* registry.py:5, "a copy-paste mistake fails loudly": a process that serves has
\* every declared rule, each under an id of its own.
RulesAreAllThere ==
    stage = "serving" =>
        /\ rules = declared
        /\ \A m, n \in 1..Len(rules) : m # n => rules[m] # rules[n]

\* observability.py:123, "Idempotent": however often create_app is called, every
\* log record is written once.
OneHandler == apps > 0 => handlers = 1
=============================================================================
