------------------------------ MODULE Database ------------------------------
(***************************************************************************)
(* Transactions on the connection pool: withTx of the package cachecontent *)
(* as the goroutines of a process use it.  The pool (database/sql) hands   *)
(* out a bounded number of connections and lets the others wait.           *)
(***************************************************************************)
EXTENDS Naturals

CONSTANTS
    Workers,            \* goroutines that run transactions
    DBMaxConnections    \* 250 in the code

VARIABLES
    free,       \* connections the pool may still hand out
    stage,      \* where a worker is in withTx
    done,       \* workers whose last transaction took effect
    answer,     \* what the last withTx of a worker returned
    approved    \* history: workers whose last do returned nil

dbVars == <<free, stage, done, answer, approved>>

-----------------------------------------------------------------------------
(* withTx                                                                  *)

Enter(w, s) == stage' = [stage EXCEPT ![w] = s]

\* cancelableDB().Begin(): asks the pool for a connection.
Begin(w) ==
    /\ stage[w] = "out"
    /\ Enter(w, "waiting")
    /\ answer' = [answer EXCEPT ![w] = "none"]
    /\ done' = done \ {w}
    /\ approved' = approved \ {w}
    /\ UNCHANGED free

(***************************************************************************)
(* The pool has a connection, new or used before, or cannot make one.  An  *)
(* error of Begin sticks to tx: do and Rollback do nothing with it.        *)
(***************************************************************************)
Acquire(w) ==
    /\ stage[w] = "waiting"
    /\ free > 0
    /\ \/ Enter(w, "do") /\ free' = free - 1 /\ UNCHANGED answer
       \/ /\ Enter(w, "out") /\ answer' = [answer EXCEPT ![w] = "error"]
          /\ UNCHANGED free
    /\ UNCHANGED <<done, approved>>

\* do(tx) returns nil, or an error, or panics.
do(w) ==
    /\ stage[w] = "do"
    /\ \/ Enter(w, "commit") /\ approved' = approved \cup {w}
       \/ (Enter(w, "rollback") \/ Enter(w, "panic")) /\ UNCHANGED approved
    /\ UNCHANGED <<free, done, answer>>

(***************************************************************************)
(* The connection goes back to the pool and withTx is over.  (The deferred *)
(* Rollback after a Commit finds the transaction done.)                    *)
(***************************************************************************)
Release(w, res) ==
    /\ Enter(w, "out")
    /\ free' = free + 1
    /\ answer' = [answer EXCEPT ![w] = res]

\* A commit that fails may have taken effect.
Commit(w) ==
    /\ stage[w] = "commit"
    /\ \/ done' = done \cup {w} /\ Release(w, "nil")
       \/ done' \in {done, done \cup {w}} /\ Release(w, "error")
    /\ UNCHANGED approved

RollbackOnErrorOnly(w) ==
    /\ \/ stage[w] = "rollback" /\ Release(w, "error")
       \/ /\ stage[w] = "panic" /\ Enter(w, "out")
          /\ answer' = [answer EXCEPT ![w] = "panic"]
          /\ UNCHANGED free
    /\ UNCHANGED <<done, approved>>

CommitOnError(w) ==
    /\ \/ /\ stage[w] = "rollback" /\ Release(w, "error")
          /\ done' = done \cup {w}
       \/ stage[w] = "panic" /\ Release(w, "panic") /\ UNCHANGED done
    /\ UNCHANGED approved

\* defer tx.Rollback(), also while a panic is on its way to the caller.
Rollback(w) ==
    /\ \/ stage[w] = "rollback" /\ Release(w, "error")
       \/ stage[w] = "panic" /\ Release(w, "panic")
    /\ UNCHANGED <<done, approved>>

-----------------------------------------------------------------------------
Init ==
    /\ free = DBMaxConnections
    /\ stage = [w \in Workers |-> "out"]
    /\ done = {}
    /\ answer = [w \in Workers |-> "none"]
    /\ approved = {}

Work(w) == do(w) \/ Commit(w) \/ Rollback(w)

Next == \E w \in Workers : Begin(w) \/ Acquire(w) \/ Work(w)

Spec == Init /\ [][Next]_dbVars

-----------------------------------------------------------------------------
(* Properties                                                              *)

\* Types of the variables; the pool never holds more than it may.
TypeOK ==
    /\ free \in 0..DBMaxConnections
    /\ stage \in [Workers -> {"out", "waiting", "do", "commit", "rollback",
                              "panic"}]
    /\ done \subseteq Workers
    /\ answer \in [Workers -> {"none", "nil", "error", "panic"}]
    /\ approved \subseteq Workers

Holding == { w \in Workers : stage[w] \notin {"out", "waiting"} }

(***************************************************************************)
(* withTx is all or nothing: what it reports as nil has taken effect;      *)
(* nothing has an effect before its commit, nor, whatever withTx returns,  *)
(* if its do has failed or panicked or was never called.  So an answer     *)
(* "error" leaves one doubt alone: a commit that failed after it was sent. *)
(***************************************************************************)
AllOrNothing ==
    \A w \in Workers :
        /\ answer[w] = "nil" => w \in done
        /\ stage[w] # "out" => w \notin done
        /\ w \in done => w \in approved

=============================================================================
