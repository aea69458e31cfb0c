------------------------------ MODULE Startup ------------------------------
(***************************************************************************)
(* The life of a process of the program: main reads the environment, opens *)
(* the database, sets up telemetry, connects its clients, does the work    *)
(* RUN_ACTION asks for and cleans up, or ends anywhere on the way by a     *)
(* panic, by os.Exit or by a signal.                                       *)
(***************************************************************************)
EXTENDS Naturals, Sequences

VARIABLES
    env,            \* the environment variables, as far as they matter
    spicedbUp,      \* whether SpiceDB accepts connections
    pc, back,       \* next step; where Configure returns to
    configs,        \* PostgreSQLConfigs allocated, known by their number
    globalPgConfig, Db, pools,  \* pools are numbered, 0 is nil
    checked,        \* the last pool that answered a Ping
    AdvisoryTypes,  \* the pool the advisory types were loaded from
    started,        \* telemetry providers that were started
    shutdownFuncs,  \* the providers SetupOTelSDK's shutdown will shut down
    shutdowns,      \* how often each provider was shut down
    spiceDbClient, pgConn,
    deferred,       \* deferred calls of main and initServer, innermost last
    outcome         \* how the process ended

environment == <<env, spicedbUp>>
database == <<configs, globalPgConfig, Db, pools, checked, AdvisoryTypes>>
telemetry == <<started, shutdownFuncs, shutdowns>>
clients == <<spiceDbClient, pgConn>>
control == <<pc, back, deferred, outcome>>
startVars == <<environment, database, telemetry, clients, control>>

\* RUN_ACTION; anything else starts the server.
Actions == {"refresh", "hosts", "packages", "move", "serve"}

Providers == {"tracer", "meter"}

Environments ==
    [RUN_ACTION : Actions,
     CONTENT_POSTGRES_URI : {"good", "malformed"},
     SPICEDB_URL : {"good", "malformed"}]

-----------------------------------------------------------------------------
(* Ways on and out                                                         *)

Goto(l) == pc' = l /\ UNCHANGED <<back, deferred, outcome>>

\* Both run the deferred calls.
Leave(how) ==
    /\ pc' = "unwind"
    /\ outcome' = how
    /\ UNCHANGED <<back, deferred>>

Panic == Leave("panic")

Return == Leave("return")

\* os.Exit(1) and signals do not.
End(how) ==
    /\ pc' = "over"
    /\ outcome' = how
    /\ UNCHANGED <<back, deferred>>

-----------------------------------------------------------------------------
(* Configure: called by main, and once more by RefreshPackagesCaches       *)

(***************************************************************************)
(* The URI is parsed into Cfg; a port that is no number or an sslmode      *)
(* other than disable and require panics.  loadEnvPostgreSQLConfig         *)
(* allocates a new PostgreSQLConfig.                                       *)
(***************************************************************************)
initDBFromEnv ==
    /\ pc = "configure"
    /\ \/ /\ env.CONTENT_POSTGRES_URI = "good"
          /\ configs' = configs + 1
          /\ Goto("open")
       \/ /\ env.CONTENT_POSTGRES_URI = "malformed"
          /\ Panic
          /\ UNCHANGED configs
    /\ UNCHANGED <<environment, globalPgConfig, Db, pools, checked,
                   AdvisoryTypes, telemetry, clients>>

(***************************************************************************)
(* The pool is reused if the configuration is the global one.  What is     *)
(* compared are pointers, so that it never is: the second call opens a     *)
(* second pool, and nothing closes the first.                              *)
(***************************************************************************)
InitDB ==
    /\ pc = "open"
    /\ LET pgConfig == configs
           reuse == Db # 0 /\ pgConfig = globalPgConfig
       IN  /\ globalPgConfig' = pgConfig
           /\ \/ /\ pools' = IF reuse THEN pools ELSE pools + 1
                 /\ Db' = IF reuse THEN Db ELSE pools'
                 /\ Goto("check")
              \/ ~reuse /\ Panic /\ UNCHANGED <<Db, pools>>
    /\ UNCHANGED <<environment, configs, checked, AdvisoryTypes, telemetry,
                   clients>>

CheckIgnored ==
    /\ pc = "check"
    /\ Goto("load")
    /\ checked' \in {checked, Db}
    /\ UNCHANGED <<environment, configs, globalPgConfig, Db, pools,
                   AdvisoryTypes, telemetry, clients>>

check ==
    /\ pc = "check"
    /\ \/ Goto("load") /\ checked' = Db
       \/ Panic /\ UNCHANGED checked
    /\ UNCHANGED <<environment, configs, globalPgConfig, Db, pools,
                   AdvisoryTypes, telemetry, clients>>

loadAdditionalParamsFromDB ==
    /\ pc = "load"
    /\ \/ Goto(back) /\ AdvisoryTypes' = Db
       \/ Panic /\ UNCHANGED AdvisoryTypes
    /\ UNCHANGED <<environment, configs, globalPgConfig, Db, pools, checked,
                   telemetry, clients>>

-----------------------------------------------------------------------------
(* SetupOTelSDK                                                            *)

\* Shuts down what is registered, whatever errors come back.
shutdownKeeping ==
    /\ shutdowns' = [p \in Providers |->
                       IF p \in shutdownFuncs THEN shutdowns[p] + 1
                                              ELSE shutdowns[p]]
    /\ UNCHANGED <<started, shutdownFuncs>>

shutdown ==
    /\ shutdowns' = [p \in Providers |->
                       IF p \in shutdownFuncs THEN shutdowns[p] + 1
                                              ELSE shutdowns[p]]
    /\ shutdownFuncs' = {}
    /\ UNCHANGED started

Register(p) ==
    /\ started' = started \cup {p}
    /\ shutdownFuncs' = shutdownFuncs \cup {p}
    /\ UNCHANGED shutdowns

SetUpTwice ==
    /\ pc' = "action"
    /\ deferred' = deferred \o <<"otelShutdown", "otelShutdown">>
    /\ UNCHANGED <<back, outcome>>

\* main defers shutdown whatever SetupOTelSDK returned, and goes on.
SetUp ==
    /\ pc' = "action"
    /\ deferred' = Append(deferred, "otelShutdown")
    /\ UNCHANGED <<back, outcome>>

\* The resource, or the trace provider, or the meter provider may fail.
newResource ==
    /\ pc = "resource"
    /\ \/ Goto("trace") /\ UNCHANGED telemetry
       \/ SetUp /\ shutdown
    /\ UNCHANGED <<environment, database, clients>>

newTraceProvider ==
    /\ pc = "trace"
    /\ \/ Goto("meter") /\ Register("tracer")
       \/ SetUp /\ shutdown
    /\ UNCHANGED <<environment, database, clients>>

newMeterProvider ==
    /\ pc = "meter"
    /\ SetUp
    /\ Register("meter") \/ shutdown
    /\ UNCHANGED <<environment, database, clients>>

-----------------------------------------------------------------------------
(* main and initServer                                                     *)

ServerFirst ==
    /\ pc = "action"
    /\ Goto("spicedb")
    /\ UNCHANGED <<environment, database, telemetry, clients>>

chooseAction ==
    /\ pc = "action"
    /\ \/ /\ env.RUN_ACTION = "refresh"
          /\ pc' = "configure" /\ back' = "work"
          /\ UNCHANGED <<deferred, outcome>>
       \/ env.RUN_ACTION # "refresh" /\ Goto("spicedb")
    /\ UNCHANGED <<environment, database, telemetry, clients>>

\* grpc.WithBlock, without a deadline: waits for SpiceDB for ever.
GetSpiceDbClient ==
    /\ pc = "spicedb"
    /\ \/ env.SPICEDB_URL = "malformed" /\ End("exit") /\ UNCHANGED clients
       \/ /\ env.SPICEDB_URL = "good" /\ spicedbUp
          /\ spiceDbClient' = TRUE
          /\ Goto("postgres")
          /\ UNCHANGED pgConn
    /\ UNCHANGED <<environment, database, telemetry>>

\* A Ping that fails is printed, and the connection returned all the same.
GetPostgresConnection ==
    /\ pc = "postgres"
    /\ \/ /\ pgConn' \in {"open", "dead"}
          /\ pc' = "work"
          /\ deferred' = Append(deferred, "pgConn.Close")
          /\ UNCHANGED <<back, outcome>>
       \/ End("exit") /\ UNCHANGED pgConn
    /\ UNCHANGED <<environment, database, telemetry, spiceDbClient>>

(***************************************************************************)
(* An action that ends: the refresh always returns, a migration panics     *)
(* with its error, and so does one whose accounts are no numbers.          *)
(***************************************************************************)
work ==
    /\ pc = "work"
    /\ env.RUN_ACTION # "serve"
    /\ \/ (env.RUN_ACTION = "refresh" \/ pgConn = "open") /\ Return
       \/ env.RUN_ACTION # "refresh" /\ Panic
    /\ UNCHANGED <<environment, database, telemetry, clients>>

\* http.ListenAndServe never returns without an error.
ListenAndServeFails ==
    /\ pc = "work"
    /\ env.RUN_ACTION = "serve"
    /\ End("exit")
    /\ UNCHANGED <<environment, database, telemetry, clients>>

\* The deferred calls, the last one first.
unwind ==
    /\ pc = "unwind"
    /\ \/ deferred = <<>> /\ Goto("over") /\ UNCHANGED <<telemetry, clients>>
       \/ /\ deferred # <<>>
          /\ deferred' = SubSeq(deferred, 1, Len(deferred) - 1)
          /\ UNCHANGED <<pc, back, outcome, spiceDbClient>>
          /\ \/ /\ deferred[Len(deferred)] = "otelShutdown"
                /\ shutdown /\ UNCHANGED pgConn
             \/ /\ deferred[Len(deferred)] = "pgConn.Close"
                /\ pgConn' = "closed"
                /\ UNCHANGED telemetry
    /\ UNCHANGED <<environment, database>>

-----------------------------------------------------------------------------
(* The world outside                                                       *)

\* A signal ends the process by its default action, without any deferred call:
\* HandleSignals, which would cancel Context instead, has no caller.
Kill ==
    /\ pc # "over"
    /\ End("killed")
    /\ UNCHANGED <<environment, database, telemetry, clients>>

SpiceDBUpOrDown ==
    /\ spicedbUp' = ~spicedbUp
    /\ UNCHANGED <<env, database, telemetry, clients, control>>

-----------------------------------------------------------------------------
Init ==
    /\ env \in Environments
    /\ spicedbUp \in BOOLEAN
    /\ pc = "configure" /\ back = "resource"
    /\ configs = 0 /\ globalPgConfig = 0 /\ Db = 0 /\ pools = 0
    /\ checked = 0 /\ AdvisoryTypes = 0
    /\ started = {} /\ shutdownFuncs = {}
    /\ shutdowns = [p \in Providers |-> 0]
    /\ spiceDbClient = FALSE /\ pgConn = "none"
    /\ deferred = <<>> /\ outcome = "none"

Step ==
    \/ initDBFromEnv
    \/ InitDB
    \/ check
    \/ loadAdditionalParamsFromDB
    \/ newResource
    \/ newTraceProvider
    \/ newMeterProvider
    \/ chooseAction
    \/ GetSpiceDbClient
    \/ GetPostgresConnection
    \/ work
    \/ unwind

Next == Step \/ ListenAndServeFails \/ Kill \/ SpiceDBUpOrDown

Spec == Init /\ [][Next]_startVars

-----------------------------------------------------------------------------
(* Properties                                                              *)

\* Types of the variables; what is to be shut down was started.
TypeOK ==
    /\ env \in Environments
    /\ spicedbUp \in BOOLEAN
    /\ pc \in {"configure", "open", "check", "load", "resource", "trace",
               "meter", "action", "spicedb", "postgres", "work", "unwind",
               "over"}
    /\ back \in {"resource", "work"}
    /\ {configs, globalPgConfig, Db, pools, checked, AdvisoryTypes} \subseteq 0..2
    /\ shutdownFuncs \subseteq started
    /\ shutdowns \in [Providers -> Nat]
    /\ started \subseteq Providers
    /\ spiceDbClient \in BOOLEAN
    /\ pgConn \in {"none", "open", "dead", "closed"}
    /\ deferred \in {<<>>, <<"otelShutdown">>,
                     <<"otelShutdown", "pgConn.Close">>}
    /\ outcome \in {"none", "return", "panic", "exit", "killed"}

(***************************************************************************)
(* "Each registered cleanup will be invoked once": no telemetry provider   *)
(* is shut down twice, although both the failing setup and main's deferred *)
(* call ask for it; and a process that returns or panics has shut down     *)
(* every provider it had started, and has closed its connection.           *)
(* (A process that calls os.Exit or is killed has not: the last second of  *)
(* spans of a server whose port is taken is lost.)                         *)
(***************************************************************************)
CleanedUp ==
    /\ \A p \in Providers : shutdowns[p] <= IF p \in started THEN 1 ELSE 0
    /\ pc = "over" /\ outcome \in {"return", "panic"} =>
         /\ \A p \in started : shutdowns[p] = 1
         /\ pgConn \in {"none", "closed"}

(***************************************************************************)
(* A process never starts over: every step of main leaves fewer to go,     *)
(* through the second Configure of a refresh, which is the last, whatever  *)
(* fails, and while the deferred calls run.                                *)
(***************************************************************************)
Ahead ==
    [configure |-> 14, open |-> 13, check |-> 12, load |-> 11, resource |-> 10,
     trace |-> 9, meter |-> 8, action |-> 7, spicedb |-> 6, postgres |-> 5,
     work |-> 4, unwind |-> 1, over |-> 0]

Remaining ==
    Ahead[pc] + (IF back = "resource" THEN 8 ELSE 0)
              + (IF pc = "unwind" THEN Len(deferred) ELSE 0)

StartAdvances == [][Step => Remaining' < Remaining]_startVars

(***************************************************************************)
(* An action begins with a database that has answered, through the pool    *)
(* that is used from then on, also after the second Configure has replaced *)
(* it, and with the advisory types read from it; and what needs SpiceDB    *)
(* begins only with a client that is connected.                            *)
(***************************************************************************)
ReadyForWork ==
    pc = "work" =>
        /\ Db # 0 /\ checked = Db /\ AdvisoryTypes = Db
        /\ env.RUN_ACTION # "refresh" => spiceDbClient /\ pgConn # "none"

=============================================================================
