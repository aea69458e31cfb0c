--------------------------- MODULE ProcessProofs ---------------------------
(***************************************************************************)
(* Theorems about Process: its start and end, and its pool for any number  *)
(* of goroutines and connections.                                          *)
(***************************************************************************)
EXTENDS Process, FiniteSetTheorems, SequenceTheorems, TLAPS

Stages == {"out", "waiting", "do", "commit", "rollback", "panic"}

-----------------------------------------------------------------------------
(* The workers that hold a connection                                      *)

\* A worker that enters another stage changes the holders by itself alone.
LEMMA HoldersFinite ==
    IsFiniteSet(Pool!Holding) /\ Cardinality(Pool!Holding) \in Nat
<1>1. Pool!Holding \in SUBSET Workers
  BY DEF Pool!Holding
<1>2. IsFiniteSet(Pool!Holding)
  BY <1>1, PoolAssumption, FS_Subset
<1> QED
  BY <1>2, FS_CardinalityType

\* Between stages that hold a connection, or do not, nothing changes.
LEMMA HoldersSame ==
    ASSUME stage \in [Workers -> Stages], NEW w \in Workers, NEW s \in Stages,
           Pool!Enter(w, s),
           stage[w] \in {"out", "waiting"} <=> s \in {"out", "waiting"}
    PROVE  Pool!Holding' = Pool!Holding
BY DEF Pool!Holding, Pool!Enter, Stages

\* A worker that gets its connection is one holder more.
LEMMA HolderAdded ==
    ASSUME stage \in [Workers -> Stages], NEW w \in Workers,
           stage[w] = "waiting", Pool!Enter(w, "do")
    PROVE  Cardinality(Pool!Holding') = Cardinality(Pool!Holding) + 1
<1>1. w \notin Pool!Holding /\ Pool!Holding' = Pool!Holding \cup {w}
  BY DEF Pool!Holding, Pool!Enter, Stages
<1> QED
  BY <1>1, HoldersFinite, FS_AddElement

\* A worker that leaves withTx is one holder less.
LEMMA HolderRemoved ==
    ASSUME stage \in [Workers -> Stages], NEW w \in Workers,
           stage[w] \in {"commit", "rollback", "panic"}, Pool!Enter(w, "out")
    PROVE  Cardinality(Pool!Holding') = Cardinality(Pool!Holding) - 1
<1>1. w \in Pool!Holding /\ Pool!Holding' = Pool!Holding \ {w}
  BY DEF Pool!Holding, Pool!Enter, Stages
<1> QED
  BY <1>1, HoldersFinite, FS_RemoveElement

-----------------------------------------------------------------------------
(* The pool                                                                *)

\* Only a do that returned nil leads to a commit.
CommitApproved == \A w \in Workers : stage[w] = "commit" => w \in approved

\* What every step preserves; NoneLost is what bounds free from above, and
\* CommitApproved what makes AllOrNothing inductive.
AtomicInv == Pool!AllOrNothing /\ CommitApproved

PoolInv == Pool!TypeOK /\ NoneLost /\ AtomicInv

LEMMA PoolInit == Pool!Init => PoolInv
<1> SUFFICES ASSUME Pool!Init PROVE PoolInv
  OBVIOUS
<1>1. Pool!Holding = {}
  BY DEF Pool!Init, Pool!Holding
<1>2. Pool!TypeOK /\ AtomicInv
  BY PoolAssumption DEF Pool!Init, Pool!TypeOK, Pool!AllOrNothing, AtomicInv,
                        CommitApproved
<1>3. NoneLost
  BY <1>1, PoolAssumption, FS_EmptySet DEF Pool!Init, NoneLost
<1> QED
  BY <1>2, <1>3 DEF PoolInv

\* Asking for a connection changes no holder.
LEMMA BeginKeeps ==
    ASSUME PoolInv, NEW w \in Workers, Pool!Begin(w)
    PROVE  PoolInv'
<1> USE DEF PoolInv, Pool!TypeOK, Pool!Begin
<1>1. Pool!TypeOK'
  BY DEF Pool!Enter
<1>2. Pool!Holding' = Pool!Holding
  BY HoldersSame DEF Stages
<1>3. AtomicInv'
  BY DEF AtomicInv, CommitApproved, Pool!AllOrNothing, Pool!Enter
<1> QED
  BY <1>1, <1>2, <1>3 DEF NoneLost

\* The pool has one connection less and the worker one more, or neither.
LEMMA AcquireKeeps ==
    ASSUME PoolInv, NEW w \in Workers, Pool!Acquire(w)
    PROVE  PoolInv'
<1> USE DEF PoolInv, Pool!TypeOK
<1>1. Pool!TypeOK'
  BY PoolAssumption DEF Pool!Acquire, Pool!Enter
<1>2. AtomicInv'
  BY DEF AtomicInv, CommitApproved, Pool!AllOrNothing, Pool!Acquire, Pool!Enter
<1>3. CASE Pool!Enter(w, "do") /\ free' = free - 1
  <2>1. Cardinality(Pool!Holding') = Cardinality(Pool!Holding) + 1
    BY <1>3, HolderAdded DEF Pool!Acquire, Stages
  <2>2. NoneLost'
    BY <1>3, <2>1, HoldersFinite, PoolAssumption DEF NoneLost
  <2> QED
    BY <1>1, <1>2, <2>2
<1>4. CASE Pool!Enter(w, "out") /\ free' = free
  <2>1. Pool!Holding' = Pool!Holding
    BY <1>4, HoldersSame DEF Pool!Acquire, Stages
  <2> QED
    BY <1>1, <1>2, <1>4, <2>1 DEF NoneLost
<1> QED
  BY <1>3, <1>4 DEF Pool!Acquire

\* do moves on inside the transaction.
LEMMA DoKeeps ==
    ASSUME PoolInv, NEW w \in Workers, Pool!do(w)
    PROVE  PoolInv'
<1> USE DEF PoolInv, Pool!TypeOK, Pool!do
<1>1. Pool!TypeOK'
  BY DEF Pool!Enter
<1>2. PICK s \in {"commit", "rollback", "panic"} : Pool!Enter(w, s)
  OBVIOUS
<1>3. Pool!Holding' = Pool!Holding
  BY <1>2, HoldersSame DEF Stages
<1>4. AtomicInv'
  BY DEF AtomicInv, CommitApproved, Pool!AllOrNothing, Pool!Enter
<1> QED
  BY <1>1, <1>3, <1>4 DEF NoneLost

\* However withTx ends, one connection goes back and one holder is gone.
LEMMA ReleaseKeeps ==
    ASSUME Pool!TypeOK, NoneLost, NEW w \in Workers,
           stage[w] \in {"commit", "rollback", "panic"},
           NEW res \in {"nil", "error", "panic"}, Pool!Release(w, res),
           done' \subseteq Workers, approved' \subseteq Workers
    PROVE  Pool!TypeOK' /\ NoneLost'
<1> USE DEF Pool!TypeOK
<1>1. Cardinality(Pool!Holding') = Cardinality(Pool!Holding) - 1
  BY HolderRemoved DEF Pool!Release, Stages
<1>2. NoneLost'
  BY <1>1, HoldersFinite, PoolAssumption DEF NoneLost, Pool!Release
<1>3. IsFiniteSet(Pool!Holding') /\ Cardinality(Pool!Holding') \in Nat
  <2>1. Pool!Holding' \in SUBSET Workers
    BY DEF Pool!Holding
  <2> QED
    BY <2>1, PoolAssumption, FS_Subset, FS_CardinalityType
<1>4. free' \in 0..DBMaxConnections
  BY <1>2, <1>3, PoolAssumption DEF NoneLost, Pool!Release
<1> QED
  BY <1>2, <1>4 DEF Pool!Release, Pool!Enter

\* The three ways out of do: commit, error and panic.
LEMMA EndKeeps ==
    ASSUME PoolInv, NEW w \in Workers, Pool!Commit(w) \/ Pool!Rollback(w)
    PROVE  PoolInv'
<1> USE DEF PoolInv
<1>1. PICK res \in {"nil", "error", "panic"} : Pool!Release(w, res)
  BY DEF Pool!Commit, Pool!Rollback
<1>2. /\ stage[w] \in {"commit", "rollback", "panic"}
      /\ done' \subseteq Workers /\ approved' \subseteq Workers
  BY DEF Pool!Commit, Pool!Rollback, Pool!TypeOK
<1>3. Pool!TypeOK' /\ NoneLost'
  BY <1>1, <1>2, ReleaseKeeps
<1>4. AtomicInv'
  BY DEF Pool!Commit, Pool!Rollback, Pool!AllOrNothing, Pool!Release,
         Pool!Enter, Pool!TypeOK, AtomicInv, CommitApproved
<1> QED
  BY <1>3, <1>4

\* The steps of the start and of the world outside leave the pool alone.
LEMMA PoolKept == PoolInv /\ [ProcessNext]_allVars => PoolInv'
<1> SUFFICES ASSUME PoolInv, [ProcessNext]_allVars PROVE PoolInv'
  OBVIOUS
<1>1. CASE UNCHANGED poolVars
  BY <1>1 DEF PoolInv, Pool!TypeOK, NoneLost, AtomicInv, CommitApproved,
              Pool!AllOrNothing, Pool!Holding, poolVars
<1>2. CASE \E w \in Workers : BeginTx(w) \/ AcquireConn(w) \/ RunTx(w)
  <2>1. PICK w \in Workers : BeginTx(w) \/ AcquireConn(w) \/ RunTx(w)
    BY <1>2
  <2>2. CASE BeginTx(w)
    BY <2>2, BeginKeeps DEF BeginTx
  <2>3. CASE AcquireConn(w)
    BY <2>3, AcquireKeeps DEF AcquireConn
  <2>4. CASE RunTx(w)
    BY <2>4, DoKeeps, EndKeeps DEF RunTx, Pool!Work
  <2> QED
    BY <2>1, <2>2, <2>3, <2>4
<1> QED
  BY <1>1, <1>2 DEF ProcessNext, Live, allVars

-----------------------------------------------------------------------------
(* The start                                                               *)

Configuring == {"configure", "open", "check", "load"}

SettingUp == {"resource", "trace", "meter"}

Ending == {"unwind", "over"}

Early == pc \in SettingUp \/ (pc \in Configuring /\ back = "resource")

\* A process has an outcome once it ends, and deferred calls run before it has
\* returned or panicked.
OutcomeInv ==
    /\ pc \notin Ending <=> outcome = "none"
    /\ pc = "unwind" => outcome \in {"return", "panic"}
    /\ pc = "over" /\ outcome \in {"return", "panic"} => deferred = <<>>
    /\ back = "work" => env.RUN_ACTION = "refresh"

\* What is deferred where.
DeferredInv ==
    /\ Early => deferred = <<>>
    /\ pc \in {"action", "spicedb", "postgres"}
         \/ (pc \in Configuring /\ back = "work")
       => deferred = <<"otelShutdown">>
    /\ pc = "work" => deferred # <<>>
    /\ deferred # <<"otelShutdown", "pgConn.Close">> /\ outcome # "killed"
         => pgConn \in {"none", "closed"}

\* Providers are started one after the other, and shut down at most once: when
\* they are no longer registered.
TelemetryInv ==
    /\ Early /\ pc # "meter" => started = {}
    /\ pc = "meter" => started \subseteq {"tracer"}
    /\ \A p \in Providers :
         shutdowns[p] = IF p \in started \ shutdownFuncs THEN 1 ELSE 0
    /\ deferred = <<>> /\ pc # "meter" /\ outcome # "killed"
         => shutdownFuncs = {}

\* Configure runs twice at most, and each time opens one pool at most.
Round == IF back = "work" THEN 2 ELSE 1

ConfigInv ==
    /\ pools <= configs
    /\ pc = "open" => pools < configs
    /\ configs <= Round
    /\ pc = "configure" => configs = Round - 1
    /\ pc \in Configuring \ {"configure"} => configs = Round
    /\ pc \in SettingUp \cup {"action"} => back = "resource" /\ configs = 1

\* How far the database and the clients are.
ReadyInv ==
    /\ pc \in {"check", "load"} => Db # 0
    /\ pc = "load" => checked = Db
    /\ pc \in SettingUp \cup {"action", "spicedb", "postgres", "work"} =>
         Db # 0 /\ checked = Db /\ AdvisoryTypes = Db
    /\ pc = "postgres" => spiceDbClient
    /\ pc = "work" /\ env.RUN_ACTION # "refresh" =>
         spiceDbClient /\ pgConn # "none"

StartInv ==
    /\ TypeOK
    /\ OutcomeInv
    /\ DeferredInv
    /\ TelemetryInv
    /\ ConfigInv
    /\ ReadyInv

Calls == {"otelShutdown", "pgConn.Close"}

\* The three sequences of deferred calls there are.
LEMMA DeferredCalls ==
    /\ <<>> # <<"otelShutdown">>
    /\ <<"otelShutdown">> # <<"otelShutdown", "pgConn.Close">>
    /\ <<>> # <<"otelShutdown", "pgConn.Close">>
    /\ Append(<<>>, "otelShutdown") = <<"otelShutdown">>
    /\ Append(<<"otelShutdown">>, "pgConn.Close")
         = <<"otelShutdown", "pgConn.Close">>
<1>1. /\ Len(<<>>) = 0
      /\ Len(<<"otelShutdown">>) = 1
      /\ Len(<<"otelShutdown", "pgConn.Close">>) = 2
  OBVIOUS
<1>2. Append(<<>>, "otelShutdown") = <<"otelShutdown">>
  OBVIOUS
<1>3. Append(<<"otelShutdown">>, "pgConn.Close")
        = <<"otelShutdown", "pgConn.Close">>
  <2> DEFINE s == Append(<<"otelShutdown">>, "pgConn.Close")
             t == <<"otelShutdown", "pgConn.Close">>
  <2>1. s \in Seq(Calls) /\ t \in Seq(Calls)
    BY DEF Calls
  <2>2. Len(s) = 2 /\ s[1] = "otelShutdown" /\ s[2] = "pgConn.Close"
    OBVIOUS
  <2>3. Len(t) = 2 /\ t[1] = "otelShutdown" /\ t[2] = "pgConn.Close"
    OBVIOUS
  <2> HIDE DEF s, t
  <2>4. \A i \in 1..Len(s) : s[i] = t[i]
    BY <2>2, <2>3
  <2>5. s = t
    BY <2>1, <2>2, <2>3, <2>4, SeqEqual
  <2> QED
    BY <2>5 DEF s, t
<1> QED
  BY <1>1, <1>2, <1>3

LEMMA LastCall ==
    \A d :
      /\ d = <<"otelShutdown">> =>
           /\ d[Len(d)] = "otelShutdown"
           /\ SubSeq(d, 1, Len(d) - 1) = <<>>
      /\ d = <<"otelShutdown", "pgConn.Close">> =>
           /\ d[Len(d)] = "pgConn.Close"
           /\ SubSeq(d, 1, Len(d) - 1) = <<"otelShutdown">>
<1>1. <<"otelShutdown">>[1] = "otelShutdown" /\ Len(<<"otelShutdown">>) = 1
  OBVIOUS
<1>2. /\ <<"otelShutdown", "pgConn.Close">>[2] = "pgConn.Close"
      /\ Len(<<"otelShutdown", "pgConn.Close">>) = 2
  OBVIOUS
<1>3. SubSeq(<<"otelShutdown">>, 1, 0) = <<>>
  OBVIOUS
<1>4. SubSeq(<<"otelShutdown", "pgConn.Close">>, 1, 1) = <<"otelShutdown">>
  <2> DEFINE s == <<"otelShutdown", "pgConn.Close">>
  <2>1. s \in Seq(Calls) /\ Len(s) = 2 /\ s[1] = "otelShutdown"
    BY DEF Calls
  <2> HIDE DEF s
  <2>2. /\ SubSeq(s, 1, 1) \in Seq(Calls)
        /\ Len(SubSeq(s, 1, 1)) = 1 /\ SubSeq(s, 1, 1)[1] = s[1]
    BY <2>1
  <2>3. <<"otelShutdown">> \in Seq(Calls)
    BY DEF Calls
  <2>4. SubSeq(s, 1, 1) = <<"otelShutdown">>
    <3>1. \A i \in 1..1 : SubSeq(s, 1, 1)[i] = <<"otelShutdown">>[i]
      BY <1>1, <2>1, <2>2
    <3> QED
      BY <1>1, <2>2, <2>3, <3>1, SeqEqual
  <2> QED
    BY <2>4 DEF s
<1>5. /\ Len(<<"otelShutdown">>) - 1 = 0
      /\ Len(<<"otelShutdown", "pgConn.Close">>) - 1 = 1
  BY <1>1, <1>2
<1> QED
  BY <1>1, <1>2, <1>3, <1>4, <1>5

LEMMA StartInit == Init => StartInv
<1> SUFFICES ASSUME Init PROVE StartInv
  OBVIOUS
<1> USE DEF Init, Early, Round, Configuring, SettingUp, Ending, Providers
<1>1. TypeOK
  <2>1. /\ env \in Environments /\ spicedbUp \in BOOLEAN
        /\ deferred = <<>>
    OBVIOUS
  <2>2. {configs, globalPgConfig, Db, pools, checked, AdvisoryTypes}
          \subseteq 0..2
    OBVIOUS
  <2>3. shutdowns \in [Providers -> Nat]
    OBVIOUS
  <2> QED
    BY <2>1, <2>2, <2>3 DEF TypeOK
<1>2. OutcomeInv /\ DeferredInv /\ ConfigInv /\ ReadyInv
  BY DEF OutcomeInv, DeferredInv, ConfigInv, ReadyInv
<1>3. TelemetryInv
  BY DEF TelemetryInv
<1> QED
  BY <1>1, <1>2, <1>3 DEF StartInv

\* What telemetry is after a step of its setup or shutdown.
TelemetryTyped ==
    /\ shutdowns \in [Providers -> Nat]
    /\ shutdownFuncs \subseteq started /\ started \subseteq Providers

LEMMA TelemetryKept ==
    ASSUME TypeOK,
           \/ UNCHANGED telemetry \/ shutdown
           \/ \E p \in Providers : Register(p)
    PROVE  TelemetryTyped'
<1>1. CASE shutdown
  <2>1. \A p \in Providers : shutdowns[p] \in Nat /\ shutdowns[p] + 1 \in Nat
    BY DEF TypeOK
  <2> QED
    BY <1>1, <2>1 DEF TypeOK, shutdown, TelemetryTyped
<1>2. CASE \E p \in Providers : Register(p)
  BY <1>2 DEF TypeOK, Register, TelemetryTyped
<1>3. CASE UNCHANGED telemetry
  BY <1>3 DEF TypeOK, telemetry, TelemetryTyped
<1> QED
  BY <1>1, <1>2, <1>3

LEMMA ConfigureKeeps ==
    ASSUME StartInv,
           initDBFromEnv \/ InitDB \/ check \/ loadAdditionalParamsFromDB
    PROVE  StartInv'
<1> USE DeferredCalls, LastCall
    DEF StartInv, Early, Round, Configuring, SettingUp, Ending, Goto, Leave,
        Panic, Return, End, environment, database, telemetry, clients,
        control, Providers, Environments, Actions, shutdown, Register, SetUp
<1>1. CASE initDBFromEnv
  <2>1. TypeOK'
    BY <1>1
    DEF initDBFromEnv, TypeOK, OutcomeInv, DeferredInv, TelemetryInv,
        ConfigInv, ReadyInv
  <2>2. OutcomeInv'
    BY <1>1
    DEF initDBFromEnv, TypeOK, OutcomeInv, DeferredInv, TelemetryInv,
        ConfigInv, ReadyInv
  <2>3. DeferredInv'
    BY <1>1
    DEF initDBFromEnv, TypeOK, OutcomeInv, DeferredInv, TelemetryInv,
        ConfigInv, ReadyInv
  <2>4. TelemetryInv'
    BY <1>1
    DEF initDBFromEnv, TypeOK, OutcomeInv, DeferredInv, TelemetryInv,
        ConfigInv, ReadyInv
  <2>5. ConfigInv'
    BY <1>1
    DEF initDBFromEnv, TypeOK, OutcomeInv, DeferredInv, TelemetryInv,
        ConfigInv, ReadyInv
  <2>6. ReadyInv'
    BY <1>1
    DEF initDBFromEnv, TypeOK, OutcomeInv, DeferredInv, TelemetryInv,
        ConfigInv, ReadyInv
  <2> QED
    BY <2>1, <2>2, <2>3, <2>4, <2>5, <2>6
<1>2. CASE InitDB
  <2>1. TypeOK'
    BY <1>2
    DEF InitDB, TypeOK, OutcomeInv, DeferredInv, TelemetryInv, ConfigInv,
        ReadyInv
  <2>2. OutcomeInv'
    BY <1>2
    DEF InitDB, TypeOK, OutcomeInv, DeferredInv, TelemetryInv, ConfigInv,
        ReadyInv
  <2>3. DeferredInv'
    BY <1>2
    DEF InitDB, TypeOK, OutcomeInv, DeferredInv, TelemetryInv, ConfigInv,
        ReadyInv
  <2>4. TelemetryInv'
    BY <1>2
    DEF InitDB, TypeOK, OutcomeInv, DeferredInv, TelemetryInv, ConfigInv,
        ReadyInv
  <2>5. ConfigInv'
    BY <1>2
    DEF InitDB, TypeOK, OutcomeInv, DeferredInv, TelemetryInv, ConfigInv,
        ReadyInv
  <2>6. ReadyInv'
    BY <1>2
    DEF InitDB, TypeOK, OutcomeInv, DeferredInv, TelemetryInv, ConfigInv,
        ReadyInv
  <2> QED
    BY <2>1, <2>2, <2>3, <2>4, <2>5, <2>6
<1>3. CASE check
  <2>1. TypeOK'
    BY <1>3
    DEF check, TypeOK, OutcomeInv, DeferredInv, TelemetryInv, ConfigInv,
        ReadyInv
  <2>2. OutcomeInv'
    BY <1>3
    DEF check, TypeOK, OutcomeInv, DeferredInv, TelemetryInv, ConfigInv,
        ReadyInv
  <2>3. DeferredInv'
    BY <1>3
    DEF check, TypeOK, OutcomeInv, DeferredInv, TelemetryInv, ConfigInv,
        ReadyInv
  <2>4. TelemetryInv'
    BY <1>3
    DEF check, TypeOK, OutcomeInv, DeferredInv, TelemetryInv, ConfigInv,
        ReadyInv
  <2>5. ConfigInv'
    BY <1>3
    DEF check, TypeOK, OutcomeInv, DeferredInv, TelemetryInv, ConfigInv,
        ReadyInv
  <2>6. ReadyInv'
    BY <1>3
    DEF check, TypeOK, OutcomeInv, DeferredInv, TelemetryInv, ConfigInv,
        ReadyInv
  <2> QED
    BY <2>1, <2>2, <2>3, <2>4, <2>5, <2>6
<1>4. CASE loadAdditionalParamsFromDB
  <2>1. TypeOK'
    BY <1>4
    DEF loadAdditionalParamsFromDB, TypeOK, OutcomeInv, DeferredInv,
        TelemetryInv, ConfigInv, ReadyInv
  <2>2. OutcomeInv'
    BY <1>4
    DEF loadAdditionalParamsFromDB, TypeOK, OutcomeInv, DeferredInv,
        TelemetryInv, ConfigInv, ReadyInv
  <2>3. DeferredInv'
    BY <1>4
    DEF loadAdditionalParamsFromDB, TypeOK, OutcomeInv, DeferredInv,
        TelemetryInv, ConfigInv, ReadyInv
  <2>4. TelemetryInv'
    BY <1>4
    DEF loadAdditionalParamsFromDB, TypeOK, OutcomeInv, DeferredInv,
        TelemetryInv, ConfigInv, ReadyInv
  <2>5. ConfigInv'
    BY <1>4
    DEF loadAdditionalParamsFromDB, TypeOK, OutcomeInv, DeferredInv,
        TelemetryInv, ConfigInv, ReadyInv
  <2>6. ReadyInv'
    BY <1>4
    DEF loadAdditionalParamsFromDB, TypeOK, OutcomeInv, DeferredInv,
        TelemetryInv, ConfigInv, ReadyInv
  <2> QED
    BY <2>1, <2>2, <2>3, <2>4, <2>5, <2>6
<1> QED
  BY <1>1, <1>2, <1>3, <1>4

\* main defers the shutdown of telemetry first.
LEMMA SetUpDefers ==
    ASSUME StartInv, pc \in SettingUp, SetUp
    PROVE  deferred' = <<"otelShutdown">>
<1>1. deferred = <<>>
  BY DEF StartInv, DeferredInv, Early
<1> QED
  BY <1>1, DeferredCalls DEF SetUp

LEMMA TelemetryKeeps ==
    ASSUME StartInv, newResource \/ newTraceProvider \/ newMeterProvider
    PROVE  StartInv'
<1> USE DeferredCalls, LastCall
    DEF StartInv, Early, Round, Configuring, SettingUp, Ending, Goto, Leave,
        Panic, Return, End, environment, database, telemetry, clients,
        control, Providers, Environments, Actions, shutdown, Register, SetUp
<1>1. CASE newResource
  <2>0. SetUp => deferred' = <<"otelShutdown">>
    BY <1>1, SetUpDefers DEF newResource
  <2>1. TypeOK'
    <3>1. TelemetryTyped'
      BY <1>1, TelemetryKept DEF newResource
    <3> QED
      BY ONLY <1>1, <2>0, <3>1, StartInv, DeferredCalls, LastCall
      DEF newResource, TelemetryTyped, StartInv, TypeOK,
          OutcomeInv, DeferredInv,
          Early, Configuring, SettingUp, Ending, Goto, Leave, Panic,
          environment, database, telemetry, clients, SetUp
  <2>2. OutcomeInv'
    BY <1>1, <2>0
    DEF newResource, TypeOK, OutcomeInv, DeferredInv, TelemetryInv, ConfigInv,
        ReadyInv
  <2>3. DeferredInv'
    BY <1>1, <2>0
    DEF newResource, TypeOK, OutcomeInv, DeferredInv, TelemetryInv, ConfigInv,
        ReadyInv
  <2>4. TelemetryInv'
    BY <1>1, <2>0
    DEF newResource, TypeOK, OutcomeInv, DeferredInv, TelemetryInv, ConfigInv,
        ReadyInv
  <2>5. ConfigInv'
    BY <1>1, <2>0
    DEF newResource, TypeOK, OutcomeInv, DeferredInv, TelemetryInv, ConfigInv,
        ReadyInv
  <2>6. ReadyInv'
    BY <1>1, <2>0
    DEF newResource, TypeOK, OutcomeInv, DeferredInv, TelemetryInv, ConfigInv,
        ReadyInv
  <2> QED
    BY <2>1, <2>2, <2>3, <2>4, <2>5, <2>6
<1>2. CASE newTraceProvider
  <2>0. SetUp => deferred' = <<"otelShutdown">>
    BY <1>2, SetUpDefers DEF newTraceProvider
  <2>1. TypeOK'
    <3>1. TelemetryTyped'
      BY <1>2, TelemetryKept DEF newTraceProvider
    <3> QED
      BY ONLY <1>2, <2>0, <3>1, StartInv, DeferredCalls, LastCall
      DEF newTraceProvider, TelemetryTyped, StartInv, TypeOK,
          OutcomeInv, DeferredInv,
          Early, Configuring, SettingUp, Ending, Goto, Leave, Panic,
          environment, database, telemetry, clients, SetUp
  <2>2. OutcomeInv'
    BY <1>2, <2>0
    DEF newTraceProvider, TypeOK, OutcomeInv, DeferredInv, TelemetryInv,
        ConfigInv, ReadyInv
  <2>3. DeferredInv'
    BY <1>2, <2>0
    DEF newTraceProvider, TypeOK, OutcomeInv, DeferredInv, TelemetryInv,
        ConfigInv, ReadyInv
  <2>4. TelemetryInv'
    BY <1>2, <2>0
    DEF newTraceProvider, TypeOK, OutcomeInv, DeferredInv, TelemetryInv,
        ConfigInv, ReadyInv
  <2>5. ConfigInv'
    BY <1>2, <2>0
    DEF newTraceProvider, TypeOK, OutcomeInv, DeferredInv, TelemetryInv,
        ConfigInv, ReadyInv
  <2>6. ReadyInv'
    BY <1>2, <2>0
    DEF newTraceProvider, TypeOK, OutcomeInv, DeferredInv, TelemetryInv,
        ConfigInv, ReadyInv
  <2> QED
    BY <2>1, <2>2, <2>3, <2>4, <2>5, <2>6
<1>3. CASE newMeterProvider
  <2>0. SetUp => deferred' = <<"otelShutdown">>
    BY <1>3, SetUpDefers DEF newMeterProvider
  <2>1. TypeOK'
    <3>1. TelemetryTyped'
      BY <1>3, TelemetryKept DEF newMeterProvider
    <3> QED
      BY ONLY <1>3, <2>0, <3>1, StartInv, DeferredCalls, LastCall
      DEF newMeterProvider, TelemetryTyped, StartInv, TypeOK,
          OutcomeInv, DeferredInv,
          Early, Configuring, SettingUp, Ending, Goto, Leave, Panic,
          environment, database, telemetry, clients, SetUp
  <2>2. OutcomeInv'
    BY <1>3, <2>0
    DEF newMeterProvider, TypeOK, OutcomeInv, DeferredInv, TelemetryInv,
        ConfigInv, ReadyInv
  <2>3. DeferredInv'
    BY <1>3, <2>0
    DEF newMeterProvider, TypeOK, OutcomeInv, DeferredInv, TelemetryInv,
        ConfigInv, ReadyInv
  <2>4. TelemetryInv'
    BY <1>3, <2>0
    DEF newMeterProvider, TypeOK, OutcomeInv, DeferredInv, TelemetryInv,
        ConfigInv, ReadyInv
  <2>5. ConfigInv'
    BY <1>3, <2>0
    DEF newMeterProvider, TypeOK, OutcomeInv, DeferredInv, TelemetryInv,
        ConfigInv, ReadyInv
  <2>6. ReadyInv'
    BY <1>3, <2>0
    DEF newMeterProvider, TypeOK, OutcomeInv, DeferredInv, TelemetryInv,
        ConfigInv, ReadyInv
  <2> QED
    BY <2>1, <2>2, <2>3, <2>4, <2>5, <2>6
<1> QED
  BY <1>1, <1>2, <1>3

LEMMA MainKeeps ==
    ASSUME StartInv,
           \/ chooseAction \/ GetSpiceDbClient \/ GetPostgresConnection
           \/ work \/ ListenAndServeFails
    PROVE  StartInv'
<1> USE DeferredCalls, LastCall
    DEF StartInv, Early, Round, Configuring, SettingUp, Ending, Goto, Leave,
        Panic, Return, End, environment, database, telemetry, clients,
        control, Providers, Environments, Actions, shutdown, Register, SetUp
<1>1. CASE chooseAction
  <2>1. TypeOK'
    BY <1>1
    DEF chooseAction, TypeOK, OutcomeInv, DeferredInv, TelemetryInv, ConfigInv,
        ReadyInv
  <2>2. OutcomeInv'
    BY <1>1
    DEF chooseAction, TypeOK, OutcomeInv, DeferredInv, TelemetryInv, ConfigInv,
        ReadyInv
  <2>3. DeferredInv'
    BY <1>1
    DEF chooseAction, TypeOK, OutcomeInv, DeferredInv, TelemetryInv, ConfigInv,
        ReadyInv
  <2>4. TelemetryInv'
    BY <1>1
    DEF chooseAction, TypeOK, OutcomeInv, DeferredInv, TelemetryInv, ConfigInv,
        ReadyInv
  <2>5. ConfigInv'
    BY <1>1
    DEF chooseAction, TypeOK, OutcomeInv, DeferredInv, TelemetryInv, ConfigInv,
        ReadyInv
  <2>6. ReadyInv'
    BY <1>1
    DEF chooseAction, TypeOK, OutcomeInv, DeferredInv, TelemetryInv, ConfigInv,
        ReadyInv
  <2> QED
    BY <2>1, <2>2, <2>3, <2>4, <2>5, <2>6
<1>2. CASE GetSpiceDbClient
  <2>1. TypeOK'
    BY <1>2
    DEF GetSpiceDbClient, TypeOK, OutcomeInv, DeferredInv, TelemetryInv,
        ConfigInv, ReadyInv
  <2>2. OutcomeInv'
    BY <1>2
    DEF GetSpiceDbClient, TypeOK, OutcomeInv, DeferredInv, TelemetryInv,
        ConfigInv, ReadyInv
  <2>3. DeferredInv'
    BY <1>2
    DEF GetSpiceDbClient, TypeOK, OutcomeInv, DeferredInv, TelemetryInv,
        ConfigInv, ReadyInv
  <2>4. TelemetryInv'
    BY <1>2
    DEF GetSpiceDbClient, TypeOK, OutcomeInv, DeferredInv, TelemetryInv,
        ConfigInv, ReadyInv
  <2>5. ConfigInv'
    BY <1>2
    DEF GetSpiceDbClient, TypeOK, OutcomeInv, DeferredInv, TelemetryInv,
        ConfigInv, ReadyInv
  <2>6. ReadyInv'
    BY <1>2
    DEF GetSpiceDbClient, TypeOK, OutcomeInv, DeferredInv, TelemetryInv,
        ConfigInv, ReadyInv
  <2> QED
    BY <2>1, <2>2, <2>3, <2>4, <2>5, <2>6
<1>3. CASE GetPostgresConnection
  <2>1. TypeOK'
    BY <1>3
    DEF GetPostgresConnection, TypeOK, OutcomeInv, DeferredInv, TelemetryInv,
        ConfigInv, ReadyInv
  <2>2. OutcomeInv'
    BY <1>3
    DEF GetPostgresConnection, TypeOK, OutcomeInv, DeferredInv, TelemetryInv,
        ConfigInv, ReadyInv
  <2>3. DeferredInv'
    BY <1>3
    DEF GetPostgresConnection, TypeOK, OutcomeInv, DeferredInv, TelemetryInv,
        ConfigInv, ReadyInv
  <2>4. TelemetryInv'
    BY <1>3
    DEF GetPostgresConnection, TypeOK, OutcomeInv, DeferredInv, TelemetryInv,
        ConfigInv, ReadyInv
  <2>5. ConfigInv'
    BY <1>3
    DEF GetPostgresConnection, TypeOK, OutcomeInv, DeferredInv, TelemetryInv,
        ConfigInv, ReadyInv
  <2>6. ReadyInv'
    BY <1>3
    DEF GetPostgresConnection, TypeOK, OutcomeInv, DeferredInv, TelemetryInv,
        ConfigInv, ReadyInv
  <2> QED
    BY <2>1, <2>2, <2>3, <2>4, <2>5, <2>6
<1>4. CASE work
  <2>1. TypeOK'
    BY <1>4
    DEF work, TypeOK, OutcomeInv, DeferredInv, TelemetryInv, ConfigInv,
        ReadyInv
  <2>2. OutcomeInv'
    BY <1>4
    DEF work, TypeOK, OutcomeInv, DeferredInv, TelemetryInv, ConfigInv,
        ReadyInv
  <2>3. DeferredInv'
    BY <1>4
    DEF work, TypeOK, OutcomeInv, DeferredInv, TelemetryInv, ConfigInv,
        ReadyInv
  <2>4. TelemetryInv'
    BY <1>4
    DEF work, TypeOK, OutcomeInv, DeferredInv, TelemetryInv, ConfigInv,
        ReadyInv
  <2>5. ConfigInv'
    BY <1>4
    DEF work, TypeOK, OutcomeInv, DeferredInv, TelemetryInv, ConfigInv,
        ReadyInv
  <2>6. ReadyInv'
    BY <1>4
    DEF work, TypeOK, OutcomeInv, DeferredInv, TelemetryInv, ConfigInv,
        ReadyInv
  <2> QED
    BY <2>1, <2>2, <2>3, <2>4, <2>5, <2>6
<1>5. CASE ListenAndServeFails
  <2>1. TypeOK'
    BY <1>5
    DEF ListenAndServeFails, TypeOK, OutcomeInv, DeferredInv, TelemetryInv,
        ConfigInv, ReadyInv
  <2>2. OutcomeInv'
    BY <1>5
    DEF ListenAndServeFails, TypeOK, OutcomeInv, DeferredInv, TelemetryInv,
        ConfigInv, ReadyInv
  <2>3. DeferredInv'
    BY <1>5
    DEF ListenAndServeFails, TypeOK, OutcomeInv, DeferredInv, TelemetryInv,
        ConfigInv, ReadyInv
  <2>4. TelemetryInv'
    BY <1>5
    DEF ListenAndServeFails, TypeOK, OutcomeInv, DeferredInv, TelemetryInv,
        ConfigInv, ReadyInv
  <2>5. ConfigInv'
    BY <1>5
    DEF ListenAndServeFails, TypeOK, OutcomeInv, DeferredInv, TelemetryInv,
        ConfigInv, ReadyInv
  <2>6. ReadyInv'
    BY <1>5
    DEF ListenAndServeFails, TypeOK, OutcomeInv, DeferredInv, TelemetryInv,
        ConfigInv, ReadyInv
  <2> QED
    BY <2>1, <2>2, <2>3, <2>4, <2>5, <2>6
<1> QED
  BY <1>1, <1>2, <1>3, <1>4, <1>5

LEMMA UnwindKeeps ==
    ASSUME StartInv, unwind
    PROVE  StartInv'
<1> USE DeferredCalls, LastCall
    DEF StartInv, Early, Round, Configuring, SettingUp, Ending, Goto, Leave,
        Panic, Return, End, environment, database, telemetry, clients,
        control, Providers, Environments, Actions, shutdown, Register, SetUp
<1>1. CASE unwind
  <2>1. TypeOK'
    <3>1. TelemetryTyped'
      BY <1>1, TelemetryKept DEF unwind
    <3> QED
      BY ONLY <1>1, <3>1, StartInv, DeferredCalls, LastCall
      DEF unwind, TelemetryTyped, StartInv, TypeOK, OutcomeInv, DeferredInv,
          Early, Configuring, SettingUp, Ending, Goto, Leave, Panic,
          environment, database, telemetry, clients, SetUp
  <2>2. OutcomeInv'
    BY <1>1
    DEF unwind, TypeOK, OutcomeInv, DeferredInv, TelemetryInv, ConfigInv,
        ReadyInv
  <2>3. DeferredInv'
    BY <1>1
    DEF unwind, TypeOK, OutcomeInv, DeferredInv, TelemetryInv, ConfigInv,
        ReadyInv
  <2>4. TelemetryInv'
    <3>1. \A p \in Providers :
            shutdowns[p] = IF p \in started \ shutdownFuncs THEN 1 ELSE 0
      BY DEF TelemetryInv
    <3>2. pc' \in Ending /\ started' = started
          /\ (outcome' # "killed" => outcome # "killed")
      BY <1>1 DEF unwind
    <3>3. CASE shutdown
      <4>1. \A p \in Providers :
              shutdowns'[p] = IF p \in started THEN 1 ELSE 0
        BY <3>1, <3>3 DEF TypeOK
      <4> QED
        BY <3>2, <3>3, <4>1 DEF TelemetryInv
    <3>4. CASE ~shutdown /\ UNCHANGED telemetry
      <4>1. deferred' = <<>> => deferred = <<>>
        BY <1>1, <3>4 DEF unwind, TypeOK
      <4> QED
        BY <1>1, <3>2, <3>4, <4>1 DEF TelemetryInv, unwind
    <3> QED
      BY <1>1, <3>3, <3>4 DEF unwind
  <2>5. ConfigInv'
    BY <1>1
    DEF unwind, TypeOK, OutcomeInv, DeferredInv, TelemetryInv, ConfigInv,
        ReadyInv
  <2>6. ReadyInv'
    BY <1>1
    DEF unwind, TypeOK, OutcomeInv, DeferredInv, TelemetryInv, ConfigInv,
        ReadyInv
  <2> QED
    BY <2>1, <2>2, <2>3, <2>4, <2>5, <2>6
<1> QED
  BY <1>1

LEMMA WorldKeeps ==
    ASSUME StartInv, Kill \/ SpiceDBUpOrDown
    PROVE  StartInv'
<1> USE DeferredCalls, LastCall
    DEF StartInv, Early, Round, Configuring, SettingUp, Ending, Goto, Leave,
        Panic, Return, End, environment, database, telemetry, clients,
        control, Providers, Environments, Actions, shutdown, Register, SetUp
<1>1. CASE Kill
  <2>1. TypeOK'
    BY <1>1
    DEF Kill, TypeOK, OutcomeInv, DeferredInv, TelemetryInv, ConfigInv,
        ReadyInv
  <2>2. OutcomeInv'
    BY <1>1
    DEF Kill, TypeOK, OutcomeInv, DeferredInv, TelemetryInv, ConfigInv,
        ReadyInv
  <2>3. DeferredInv'
    BY <1>1
    DEF Kill, TypeOK, OutcomeInv, DeferredInv, TelemetryInv, ConfigInv,
        ReadyInv
  <2>4. TelemetryInv'
    BY <1>1
    DEF Kill, TypeOK, OutcomeInv, DeferredInv, TelemetryInv, ConfigInv,
        ReadyInv
  <2>5. ConfigInv'
    BY <1>1
    DEF Kill, TypeOK, OutcomeInv, DeferredInv, TelemetryInv, ConfigInv,
        ReadyInv
  <2>6. ReadyInv'
    BY <1>1
    DEF Kill, TypeOK, OutcomeInv, DeferredInv, TelemetryInv, ConfigInv,
        ReadyInv
  <2> QED
    BY <2>1, <2>2, <2>3, <2>4, <2>5, <2>6
<1>2. CASE SpiceDBUpOrDown
  <2>1. TypeOK'
    BY <1>2
    DEF SpiceDBUpOrDown, TypeOK, OutcomeInv, DeferredInv, TelemetryInv,
        ConfigInv, ReadyInv
  <2>2. OutcomeInv'
    BY <1>2
    DEF SpiceDBUpOrDown, TypeOK, OutcomeInv, DeferredInv, TelemetryInv,
        ConfigInv, ReadyInv
  <2>3. DeferredInv'
    BY <1>2
    DEF SpiceDBUpOrDown, TypeOK, OutcomeInv, DeferredInv, TelemetryInv,
        ConfigInv, ReadyInv
  <2>4. TelemetryInv'
    BY <1>2
    DEF SpiceDBUpOrDown, TypeOK, OutcomeInv, DeferredInv, TelemetryInv,
        ConfigInv, ReadyInv
  <2>5. ConfigInv'
    BY <1>2
    DEF SpiceDBUpOrDown, TypeOK, OutcomeInv, DeferredInv, TelemetryInv,
        ConfigInv, ReadyInv
  <2>6. ReadyInv'
    BY <1>2
    DEF SpiceDBUpOrDown, TypeOK, OutcomeInv, DeferredInv, TelemetryInv,
        ConfigInv, ReadyInv
  <2> QED
    BY <2>1, <2>2, <2>3, <2>4, <2>5, <2>6
<1> QED
  BY <1>1, <1>2

\* Requests leave what the start has set up alone.
LEMMA StartKept == StartInv /\ [ProcessNext]_allVars => StartInv'
<1> SUFFICES ASSUME StartInv, [ProcessNext]_allVars PROVE StartInv'
  OBVIOUS
<1>1. CASE UNCHANGED startVars
  BY <1>1 DEF startVars, environment, database, telemetry, clients, control,
              StartInv, TypeOK, OutcomeInv, DeferredInv, TelemetryInv,
              ConfigInv, ReadyInv, Early, Round
<1>2. CASE Next
  BY <1>2, ConfigureKeeps, TelemetryKeeps, MainKeeps, UnwindKeeps, WorldKeeps
  DEF Next, Step
<1> QED
  BY <1>1, <1>2
  DEF ProcessNext, Live, BeginTx, AcquireConn, RunTx, allVars

LEMMA StartCorrect == ProcessSpec => []StartInv
<1>1. ProcessInit => StartInv
  BY StartInit DEF ProcessInit
<1> QED
  BY <1>1, StartKept, PTL DEF ProcessSpec

-----------------------------------------------------------------------------
(* Steps of main                                                           *)

\* A step goes from one place of main to a later one, or runs a deferred call.
LEMMA Places ==
    ASSUME StartInv, Step
    PROVE  \/ /\ back' = back
              /\ \/ /\ <<pc, pc'>> \in
                         {<<"configure", "open">>, <<"open", "check">>,
                          <<"check", "load">>, <<"load", "resource">>,
                          <<"load", "work">>, <<"resource", "trace">>,
                          <<"resource", "action">>, <<"trace", "meter">>,
                          <<"trace", "action">>, <<"meter", "action">>,
                          <<"action", "spicedb">>, <<"spicedb", "postgres">>,
                          <<"postgres", "work">>, <<"unwind", "over">>}
                 \/ pc \notin Ending /\ pc' = "over"
                 \/ /\ pc \in Configuring \cup {"work"} /\ pc' = "unwind"
                    /\ deferred' = deferred
           \/ pc = "action" /\ pc' = "configure" /\ back = "resource"
                /\ back' = "work"
           \/ /\ pc = "unwind" /\ pc' = "unwind" /\ back' = back
              /\ deferred # <<>>
              /\ deferred' = SubSeq(deferred, 1, Len(deferred) - 1)
<1> USE DEF Goto, Leave, Panic, Return, End, SetUp, Configuring, Ending
<1>1. CASE initDBFromEnv
  BY <1>1 DEF initDBFromEnv
<1>2. CASE InitDB
  BY <1>2 DEF InitDB
<1>3. CASE check
  BY <1>3 DEF check
<1>4. CASE loadAdditionalParamsFromDB
  BY <1>4 DEF loadAdditionalParamsFromDB, StartInv, TypeOK
<1>5. CASE newResource
  BY <1>5 DEF newResource
<1>6. CASE newTraceProvider
  BY <1>6 DEF newTraceProvider
<1>7. CASE newMeterProvider
  BY <1>7 DEF newMeterProvider
<1>8. CASE chooseAction
  BY <1>8 DEF chooseAction, StartInv, ConfigInv, SettingUp
<1>9. CASE GetSpiceDbClient
  BY <1>9 DEF GetSpiceDbClient
<1>10. CASE GetPostgresConnection
  BY <1>10 DEF GetPostgresConnection
<1>11. CASE work
  BY <1>11 DEF work
<1>12. CASE unwind
  BY <1>12 DEF unwind
<1> QED
  BY <1>1, <1>2, <1>3, <1>4, <1>5, <1>6, <1>7, <1>8, <1>9, <1>10, <1>11,
     <1>12 DEF Step

\* At most two calls are deferred, and a call that is run is one less.
LEMMA CallsLeft ==
    ASSUME TypeOK
    PROVE  /\ Len(deferred) \in 0..2
           /\ deferred # <<>> =>
                Len(SubSeq(deferred, 1, Len(deferred) - 1)) = Len(deferred) - 1
<1>1. /\ Len(<<>>) = 0
      /\ Len(<<"otelShutdown">>) = 1
      /\ Len(<<"otelShutdown", "pgConn.Close">>) = 2
  OBVIOUS
<1>2. deferred \in {<<>>, <<"otelShutdown">>,
                    <<"otelShutdown", "pgConn.Close">>}
  BY DEF TypeOK
<1> QED
  BY <1>1, <1>2, LastCall

LEMMA StepAdvances ==
    ASSUME StartInv, StartInv', Step
    PROVE  Remaining' < Remaining
<1> DEFINE ahead(l) == Ahead[l]
           round(b) == IF b = "resource" THEN 8 ELSE 0
           calls(l, d) == IF l = "unwind" THEN Len(d) ELSE 0
<1>1. /\ ahead("configure") = 14 /\ ahead("open") = 13
      /\ ahead("check") = 12 /\ ahead("load") = 11
      /\ ahead("resource") = 10 /\ ahead("trace") = 9
      /\ ahead("meter") = 8 /\ ahead("action") = 7
      /\ ahead("spicedb") = 6 /\ ahead("postgres") = 5
      /\ ahead("work") = 4 /\ ahead("unwind") = 1 /\ ahead("over") = 0
  BY DEF Ahead
<1>2. /\ Remaining = ahead(pc) + round(back) + calls(pc, deferred)
      /\ Remaining' = ahead(pc') + round(back') + calls(pc', deferred')
  BY DEF Remaining
<1>3. round("resource") = 8 /\ round("work") = 0
  OBVIOUS
<1>4. /\ \A l, d : l # "unwind" => calls(l, d) = 0
      /\ \A d : calls("unwind", d) = Len(d)
  OBVIOUS
<1> HIDE DEF ahead, round, calls
<1>5. pc \in {"configure", "open", "check", "load", "resource", "trace",
             "meter", "action", "spicedb", "postgres", "work", "unwind",
             "over"}
      /\ back \in {"resource", "work"}
  BY DEF StartInv, TypeOK
<1>6. /\ Len(deferred) \in 0..2 /\ Len(deferred') \in 0..2
      /\ deferred # <<>> =>
           Len(SubSeq(deferred, 1, Len(deferred) - 1)) = Len(deferred) - 1
  <2>1. Len(deferred) \in 0..2
        /\ (deferred # <<>> =>
             Len(SubSeq(deferred, 1, Len(deferred) - 1)) = Len(deferred) - 1)
    BY CallsLeft DEF StartInv
  <2>2. deferred' \in {<<>>, <<"otelShutdown">>,
                       <<"otelShutdown", "pgConn.Close">>}
    BY DEF StartInv, TypeOK
  <2>3. /\ Len(<<>>) = 0
        /\ Len(<<"otelShutdown">>) = 1
        /\ Len(<<"otelShutdown", "pgConn.Close">>) = 2
    OBVIOUS
  <2> QED
    BY <2>1, <2>2, <2>3
<1>7. CASE back' = back /\ <<pc, pc'>> \in
             {<<"configure", "open">>, <<"open", "check">>,
              <<"check", "load">>, <<"load", "resource">>,
              <<"load", "work">>, <<"resource", "trace">>,
              <<"resource", "action">>, <<"trace", "meter">>,
              <<"trace", "action">>, <<"meter", "action">>,
              <<"action", "spicedb">>, <<"spicedb", "postgres">>,
              <<"postgres", "work">>}
  BY <1>1, <1>2, <1>3, <1>4, <1>5, <1>7
<1>8. CASE back' = back /\ pc = "unwind" /\ pc' = "over"
  BY <1>1, <1>2, <1>3, <1>4, <1>5, <1>6, <1>8
<1>9. CASE back' = back /\ pc \notin Ending /\ pc' = "over"
  BY <1>1, <1>2, <1>3, <1>4, <1>5, <1>9 DEF Ending
<1>10. CASE /\ back' = back /\ pc \in Configuring \cup {"work"}
            /\ pc' = "unwind"
  <2>1. calls(pc, deferred) = 0 /\ calls(pc', deferred') \in 0..2
    BY <1>4, <1>6, <1>10 DEF Configuring
  <2>2. /\ ahead(pc) \in 4..14 /\ ahead(pc') = 1
        /\ round(back') = round(back) /\ round(back) \in {0, 8}
    BY <1>1, <1>3, <1>5, <1>10 DEF Configuring
  <2> QED
    BY <1>2, <2>1, <2>2
<1>11. CASE pc = "action" /\ pc' = "configure" /\ back = "resource"
             /\ back' = "work"
  BY <1>1, <1>2, <1>3, <1>4, <1>11
<1>12. CASE /\ pc = "unwind" /\ pc' = "unwind" /\ back' = back
            /\ deferred # <<>>
            /\ deferred' = SubSeq(deferred, 1, Len(deferred) - 1)
  <2>1. /\ calls(pc, deferred) = Len(deferred) /\ Len(deferred) \in 0..2
        /\ calls(pc', deferred') = Len(deferred) - 1
    BY <1>4, <1>6, <1>12
  <2>2. /\ ahead(pc) = 1 /\ ahead(pc') = 1
        /\ round(back') = round(back) /\ round(back) \in {0, 8}
    BY <1>1, <1>3, <1>5, <1>12
  <2> QED
    BY <1>2, <2>1, <2>2
<1> QED
  BY <1>7, <1>8, <1>9, <1>10, <1>11, <1>12, Places

-----------------------------------------------------------------------------
(* Theorems                                                                *)

(***************************************************************************)
(* No handler, whether it commits, fails or panics, costs the pool of      *)
(* openPostgreSQL a connection, for any number of goroutines.              *)
(***************************************************************************)
THEOREM ConnectionsCorrect == ProcessSpec => []ConnectionsReturned
<1>1. ProcessInit => PoolInv
  BY PoolInit DEF ProcessInit
<1>2. PoolInv => ConnectionsReturned
  BY DEF PoolInv, ConnectionsReturned
<1> QED
  BY <1>1, <1>2, PoolKept, PTL DEF ProcessSpec

(***************************************************************************)
(* withTx is all or nothing for every one of them: nil means that it took  *)
(* effect, and an effect means that its do returned nil and its commit was *)
(* sent.                                                                   *)
(***************************************************************************)
THEOREM TransactionsCorrect == ProcessSpec => []AllOrNothing
<1>1. ProcessInit => PoolInv
  BY PoolInit DEF ProcessInit
<1>2. PoolInv => AllOrNothing
  BY DEF PoolInv, AtomicInv, AllOrNothing
<1> QED
  BY <1>1, <1>2, PoolKept, PTL DEF ProcessSpec

(***************************************************************************)
(* The variables of a process keep their types through its start, its work *)
(* and its end; in particular no third pool is ever opened.                *)
(***************************************************************************)
THEOREM StartTypeCorrect == ProcessSpec => []TypeOK
<1>1. StartInv => TypeOK
  BY DEF StartInv
<1> QED
  BY <1>1, StartCorrect, PTL

(***************************************************************************)
(* "Each registered cleanup will be invoked once": what main has deferred  *)
(* is all that is left to do, and a provider is registered exactly until   *)
(* it has been shut down.                                                  *)
(***************************************************************************)
THEOREM CleanupCorrect == ProcessSpec => []CleanedUp
<1>1. StartInv => CleanedUp
  <2> SUFFICES ASSUME StartInv PROVE CleanedUp
    OBVIOUS
  <2>1. \A p \in Providers : shutdowns[p] <= IF p \in started THEN 1 ELSE 0
    BY DEF StartInv, TelemetryInv
  <2>2. ASSUME pc = "over", outcome \in {"return", "panic"}
        PROVE  /\ \A p \in started : shutdowns[p] = 1
               /\ pgConn \in {"none", "closed"}
    <3>1. deferred = <<>> /\ shutdownFuncs = {}
      BY <2>2 DEF StartInv, OutcomeInv, TelemetryInv
    <3> QED
      BY <2>2, <3>1, DeferredCalls
      DEF StartInv, TypeOK, TelemetryInv, DeferredInv
  <2> QED
    BY <2>1, <2>2 DEF CleanedUp
<1> QED
  BY <1>1, StartCorrect, PTL

(***************************************************************************)
(* Whatever RUN_ACTION asks for begins with the pool that answered last,   *)
(* with the advisory types read from it, and with the clients it needs.    *)
(***************************************************************************)
THEOREM ReadyCorrect == ProcessSpec => []ReadyForWork
<1>1. StartInv => ReadyForWork
  BY DEF StartInv, ReadyInv, ReadyForWork
<1> QED
  BY <1>1, StartCorrect, PTL

(***************************************************************************)
(* No step of main leads back: whatever fails, each one leaves fewer to    *)
(* go, so that a process that is scheduled ends its start, unless it waits *)
(* for SpiceDB.                                                            *)
(***************************************************************************)
THEOREM AdvancesCorrect == ProcessSpec => StartAdvances
<1>1. StartInv /\ StartInv' /\ [ProcessNext]_allVars
        => [Step => Remaining' < Remaining]_startVars
  BY StepAdvances
<1> QED
  BY <1>1, StartCorrect, PTL DEF ProcessSpec, StartAdvances

=============================================================================
