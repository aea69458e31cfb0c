------------------------------ MODULE Process ------------------------------
(***************************************************************************)
(* A process that serves: once it has started, each request runs in a      *)
(* goroutine of its own and takes its connections from the pool Configure  *)
(* has opened.  A handler that panics is recovered by net/http.            *)
(***************************************************************************)
EXTENDS Startup, FiniteSets

CONSTANTS Workers, DBMaxConnections

ASSUME PoolAssumption ==
    /\ DBMaxConnections \in Nat \ {0}
    /\ IsFiniteSet(Workers)

VARIABLES free, stage, done, answer, approved

Pool == INSTANCE Database

poolVars == <<free, stage, done, answer, approved>>

allVars == <<startVars, poolVars>>

Serving == pc = "work" /\ env.RUN_ACTION = "serve"

Live == Next /\ UNCHANGED poolVars

BeginTx(w) == Serving /\ Pool!Begin(w) /\ UNCHANGED startVars

AcquireConn(w) == Serving /\ Pool!Acquire(w) /\ UNCHANGED startVars

RunTx(w) == Serving /\ Pool!Work(w) /\ UNCHANGED startVars

ProcessInit == Init /\ Pool!Init

ProcessNext ==
    \/ Live
    \/ \E w \in Workers : BeginTx(w) \/ AcquireConn(w) \/ RunTx(w)

(***************************************************************************)
(* The process keeps executing, except where it waits for SpiceDB; calls   *)
(* to PostgreSQL return; and the pool, which picks one of the waiting      *)
(* goroutines when a connection comes back, does not pass over the same    *)
(* one for ever.                                                           *)
(***************************************************************************)
Fairness ==
    /\ WF_startVars(Step)
    /\ \A w \in Workers :
         WF_allVars(RunTx(w)) /\ SF_allVars(AcquireConn(w))

ProcessSpec == ProcessInit /\ [][ProcessNext]_allVars /\ Fairness

-----------------------------------------------------------------------------
(* Properties                                                              *)

NoneLost == free + Cardinality(Pool!Holding) = DBMaxConnections

(***************************************************************************)
(* Whichever way a transaction ends, its connection is back in the pool:   *)
(* never lost, which would let the pool run dry after DBMaxConnections     *)
(* failed requests, and never given back twice.                            *)
(***************************************************************************)
ConnectionsReturned == Pool!TypeOK /\ NoneLost

(***************************************************************************)
(* A request whose withTx returned nil has had its effect; one that is not *)
(* at its commit yet has had none, and neither has one, whatever withTx    *)
(* returned, whose do failed, panicked or never ran.                       *)
(***************************************************************************)
AllOrNothing == Pool!AllOrNothing

(***************************************************************************)
(* A process gets to its work, or ends, once SpiceDB stays up; the refresh *)
(* of the package caches gets through whether SpiceDB is up or not, for it *)
(* does not need it.                                                       *)
(***************************************************************************)
GetsToWork ==
    (env.RUN_ACTION = "refresh" \/ <>[]spicedbUp) => <>(pc \in {"work", "over"})

(***************************************************************************)
(* A request that waits for a connection comes to its end, however many    *)
(* others have failed or panicked before it, unless the process does.      *)
(***************************************************************************)
RequestsEnd ==
    \A w \in Workers : stage[w] = "waiting" ~> (stage[w] = "out" \/ pc = "over")

=============================================================================
