--------------------------- MODULE AtomicContent ---------------------------
(***************************************************************************)
(* What a client of the content service may assume: every request is       *)
(* answered, or refused with an error, from the content at one moment and  *)
(* from one state of the permissions, one that SpiceDB could answer from   *)
(* at some moment between the question and the answer.                     *)
(***************************************************************************)
EXTENDS ContentDB

CONSTANTS Requests, Experiments, NoQuestion, NoData

VARIABLES
    system_platform, system_package, hosts, groups,     \* the content
    servable,       \* states of the permissions SpiceDB may answer from: each
                    \* gives the hosts every user may read
    question,       \* what a request in progress has asked
    seen,           \* what its user could read in a servable state so far
    answer          \* what it was answered last

tables == <<system_platform, system_package, hosts, groups>>
vars == <<tables, servable, question, seen, answer>>

Joined(q) == PackageJoin(system_platform, system_package, hosts, q.accountId)

Data(q, readable) ==
    GroupCounts(q.accountId,
        { row \in Joined(q) :
            \/ /\ q.experiment = "pre-filter"
               /\ row[1].InventoryID \in readable
            \/ /\ q.experiment = "baseline"
               /\ groups[row[1].InventoryID] = "[]" })

Servable(q) == { view[q.user] : view \in servable }

Ask(r, q) ==
    /\ question[r] = NoQuestion
    /\ question' = [question EXCEPT ![r] = q]
    /\ seen' = [seen EXCEPT ![r] = Servable(q)]
    /\ answer' = [answer EXCEPT ![r] = NoData]
    /\ UNCHANGED <<tables, servable>>

\* A question nobody is there to answer.
Ignore(r) ==
    /\ question[r] = NoQuestion
    /\ answer' = [answer EXCEPT ![r] = NoData]
    /\ UNCHANGED <<tables, servable, question, seen>>

Answer(r) ==
    /\ question[r] # NoQuestion
    /\ question' = [question EXCEPT ![r] = NoQuestion]
    /\ seen' = [seen EXCEPT ![r] = {}]
    /\ \/ \E readable \in seen[r] :
            answer' = [answer EXCEPT ![r] =
                         [status |-> "ok", data |-> Data(question[r], readable)]]
       \/ answer' = [answer EXCEPT ![r] = [status |-> "error", data |-> {}]]
    /\ UNCHANGED <<tables, servable>>

\* The content changes at any time, and so do the permissions.
Change ==
    /\ UNCHANGED <<question, answer>>
    /\ seen' = [r \in Requests |->
                  IF question[r] = NoQuestion THEN {}
                  ELSE seen[r] \cup Servable(question[r])']

Init ==
    /\ question = [r \in Requests |-> NoQuestion]
    /\ seen = [r \in Requests |-> {}]
    /\ answer = [r \in Requests |-> NoData]

Next ==
    \/ Change
    \/ \E r \in Requests :
         Answer(r) \/ Ignore(r) \/ \E q \in Experiments : Ask(r, q)

Spec == Init /\ [][Next]_vars

=============================================================================
