--------------------------- MODULE ContentServer ---------------------------
(***************************************************************************)
(* The content service: GET /content/packages answered by one of two       *)
(* experiments.  The pre-filter asks SpiceDB for the hosts the user may    *)
(* read and then counts their packages in PostgreSQL; the baseline counts  *)
(* the ungrouped hosts of the account.  Requests run concurrently, and     *)
(* while one is between its two calls, grants, workspaces, accounts and    *)
(* packages change.                                                        *)
(***************************************************************************)
EXTENDS SpiceDB

CONSTANTS
    Requests,       \* requests that may be in progress at a time
    Users, NoUser,  \* user ids requests come with; NoUser is the id ""
    NoAccount,      \* account 0, of a request without identity
    BadHosts,       \* ids of inventory/host objects that are no uuid
    MaxHostIDs,     \* PostgreSQL's limit on the parameters of a statement
    SeedPlatform, SeedPackages, SeedHosts, SeedGroups,  \* the tables at start
    SeedRelations,  \* the relationships at start
    SeedGrants,     \* users and workspaces they may read the hosts of
    MaxSpiceChanges, MaxTableChanges    \* bounds on changes by others

VARIABLES
    system_platform, system_package, hosts,     \* PostgreSQL
    groups,         \* inventory.hosts.groups
    spicedb,        \* stored relationships
    grants,         \* role bindings, as pairs of a user and a workspace
    revision,       \* the state of SpiceDB a lookup is answered from
    pc, experiment, user, accountId, hostIDs, response, \* per request
    views,          \* history: the sets of hosts the user of a request could
                    \* read in the states SpiceDB may have answered from
    changed,        \* history: something changed since the request
    spiceChanges, tableChanges      \* number of changes made by others

tables == <<system_platform, system_package, hosts, groups>>
spice == <<spicedb, grants, revision>>
local == <<pc, experiment, user, accountId, hostIDs, response>>
history == <<views, changed>>
counters == <<spiceChanges, tableChanges>>
vars == <<tables, spice, local, history, counters>>

-----------------------------------------------------------------------------
(* Permissions, as far as inventory/host#read depends on what the program  *)
(* writes.                                                                 *)

HostObjects == Hosts \cup BadHosts

Workspaces == { Root(org) : org \in Accounts }
                \cup { Ungrouped(org) : org \in Accounts }

\* A workspace and the one it inherits from; an organization grants nothing.
Above(rels, w) ==
    {w} \cup { v \in Workspaces : Rel(w, "parent", v) \in rels }

Readable(rels, gr, u) ==
    { h \in HostObjects :
        \E w \in Workspaces :
            /\ Rel(Host(h), "workspace", w) \in rels
            /\ \E v \in Above(rels, w) : <<u, v>> \in gr }

ReadableNow(u) == Readable(spicedb, grants, u)

ReadableThen(u) == Readable(revision.rels, revision.grants, u)

Current == [rels |-> spicedb, grants |-> grants]

-----------------------------------------------------------------------------
(* The two queries                                                         *)

Groups == {"NULL", "[]", "some"}

\* The tables and role bindings at start.
ASSUME SeedAssumption ==
    /\ SeedPlatform \subseteq SystemPlatform /\ IsFiniteSet(SeedPlatform)
    /\ SeedPackages \subseteq SystemPackage /\ IsFiniteSet(SeedPackages)
    /\ SeedHosts \subseteq Hosts
    /\ SeedGroups \in [Hosts -> Groups]
    /\ SeedGrants \subseteq Users \X Workspaces

AccountRows(accID) ==
    PackageJoin(system_platform, system_package, hosts, accID)

\* WHERE ih.groups = '[]', which a NULL is not.
CountedByRefresh(accID) ==
    GroupCounts(accID,
                { row \in AccountRows(accID) :
                    /\ groups[row[1].InventoryID] = "[]"
                    /\ row[1].PackagesInstalled /\ ~row[1].Stale })

packagesByAccount(accID) ==
    GroupCounts(accID,
                { row \in AccountRows(accID) :
                    groups[row[1].InventoryID] = "[]" })

AnyAccountByHostIDs(accID, ids) ==
    UNION { GroupCounts(a, { row \in AccountRows(a) :
                               row[1].InventoryID \in ids }) : a \in Accounts }

\* WHERE ih.id IN ?; an empty list selects nothing.
packagesByHostIDs(accID, ids) ==
    GroupCounts(accID,
                { row \in AccountRows(accID) : row[1].InventoryID \in ids })

\* A statement with too many ids or one that is no uuid is refused.
Bindable(ids) == Cardinality(ids) < MaxHostIDs /\ ids \cap BadHosts = {}

-----------------------------------------------------------------------------
(* A request                                                               *)

Goto(r, l) == pc' = [pc EXCEPT ![r] = l]

NoData == [status |-> "none", data |-> {}]

Respond(r, res) ==
    /\ Goto(r, "idle")
    /\ response' = [response EXCEPT ![r] = res]
    /\ views' = [views EXCEPT ![r] = {}]
    /\ UNCHANGED changed

Ok(data) == [status |-> "ok", data |-> data]

\* An error becomes a 500 without data.
Fail(r) == Respond(r, [status |-> "error", data |-> {}])

(***************************************************************************)
(* What getIdentityFromContext can return.  A header "user;account" gives  *)
(* both, also when the user is empty or no such account exists; anything   *)
(* else gives "" and account 0, and the request goes on.                   *)
(***************************************************************************)
Identities == (Users \cup {NoUser}) \X (Accounts \cup {NoAccount})

\* The Experiment header, pre-filter if there is none, selects a handler.
Receive(r) ==
    /\ pc[r] = "idle"
    /\ \E id \in Identities, x \in {"pre-filter", "baseline"} :
         /\ user' = [user EXCEPT ![r] = id[1]]
         /\ accountId' = [accountId EXCEPT ![r] = id[2]]
         /\ experiment' = [experiment EXCEPT ![r] = x]
         /\ views' = [views EXCEPT ![r] =
                         {ReadableNow(id[1]), ReadableThen(id[1])}]
         /\ \/ x = "pre-filter" /\ Goto(r, "lookup")
            \/ x = "baseline" /\ Goto(r, "query")
    /\ response' = [response EXCEPT ![r] = NoData]
    /\ changed' = [changed EXCEPT ![r] = FALSE]
    /\ UNCHANGED <<tables, spice, hostIDs, counters>>

\* For any other value of the header nothing is written at all.
ReceiveUnknown(r) ==
    /\ pc[r] = "idle"
    /\ experiment' = [experiment EXCEPT ![r] = "unknown"]
    /\ user' = [user EXCEPT ![r] = NoUser]
    /\ accountId' = [accountId EXCEPT ![r] = NoAccount]
    /\ response' = [response EXCEPT ![r] = NoData]
    /\ UNCHANGED <<tables, spice, pc, hostIDs, history, counters>>

(***************************************************************************)
(* LookupResources, with its stream read to the end.  No consistency is    *)
(* asked for, so SpiceDB may answer from an earlier state; it refuses a    *)
(* subject without an id.  An error, also in the middle of the stream,     *)
(* ends the request.                                                       *)
(***************************************************************************)
LookupShort(r) ==
    /\ pc[r] = "lookup"
    /\ \E ids \in SUBSET ReadableThen(user[r]) :
         hostIDs' = [hostIDs EXCEPT ![r] = ids]
    /\ Goto(r, "query")
    /\ UNCHANGED <<tables, spice, experiment, user, accountId, response,
                   history, counters>>

Lookup(r) ==
    /\ pc[r] = "lookup"
    /\ \/ /\ user[r] # NoUser
          /\ hostIDs' = [hostIDs EXCEPT ![r] = ReadableThen(user[r])]
          /\ Goto(r, "query")
          /\ UNCHANGED <<response, history>>
       \/ Fail(r) /\ UNCHANGED hostIDs
    /\ UNCHANGED <<tables, spice, experiment, user, accountId, counters>>

Query(r) ==
    /\ pc[r] = "query"
    /\ \/ /\ experiment[r] = "pre-filter"
          /\ Bindable(hostIDs[r])
          /\ Respond(r, Ok(packagesByHostIDs(accountId[r], hostIDs[r])))
       \/ /\ experiment[r] = "baseline"
          /\ Respond(r, Ok(packagesByAccount(accountId[r])))
       \/ Fail(r)
    /\ hostIDs' = [hostIDs EXCEPT ![r] = {}]
    /\ UNCHANGED <<tables, spice, experiment, user, accountId, counters>>

-----------------------------------------------------------------------------
(* What others do to SpiceDB.  Every change is recorded for the requests   *)
(* in progress.                                                            *)

SpiceChange ==
    /\ spiceChanges < MaxSpiceChanges
    /\ spiceChanges' = spiceChanges + 1
    /\ views' = [r \in Requests |->
                   IF pc[r] = "idle" THEN {}
                   ELSE views[r] \cup {Readable(spicedb', grants', user[r])}]
    /\ changed' = [r \in Requests |-> TRUE]
    /\ UNCHANGED <<tables, local, tableChanges>>

\* External: a role binding is created or deleted.
Grant ==
    /\ \E u \in Users \ {NoUser}, w \in Workspaces :
         grants' = IF <<u, w>> \in grants THEN grants \ {<<u, w>>}
                                          ELSE grants \cup {<<u, w>>}
    /\ UNCHANGED <<spicedb, revision>>
    /\ SpiceChange

\* A migration puts a host into its workspace ...
PlaceHost ==
    /\ \E sp \in system_platform :
         spicedb' = Applied(spicedb, {},
                            {HostWorkspace(sp.InventoryID, sp.RhAccountID)})
    /\ UNCHANGED <<grants, revision>>
    /\ SpiceChange

\* ... and MoveSystems takes the hosts of an account to another one.
SwapHosts ==
    /\ \E from, to \in Accounts :
         LET moved == { h \in Hosts : HostWorkspace(h, from) \in spicedb }
         IN  /\ from # to
             /\ spicedb' = Applied(spicedb,
                              { HostWorkspace(h, from) : h \in moved },
                              { HostWorkspace(h, to) : h \in moved })
    /\ UNCHANGED <<grants, revision>>
    /\ SpiceChange

\* SpiceDB starts to answer from its current state.
Refresh ==
    /\ revision' = Current
    /\ changed' = [r \in Requests |-> TRUE]
    /\ UNCHANGED <<tables, spicedb, grants, local, views, counters>>

-----------------------------------------------------------------------------
(* What others do to the tables                                            *)

TableChange ==
    /\ tableChanges < MaxTableChanges
    /\ tableChanges' = tableChanges + 1
    /\ changed' = [r \in Requests |-> TRUE]
    /\ UNCHANGED <<spice, local, views, spiceChanges>>

\* MoveSystems commits: the platform rows change accounts.
MoveRows ==
    /\ \E from, to \in Accounts :
         LET moved == { sp \in system_platform : sp.RhAccountID = from }
         IN  system_platform' = (system_platform \ moved)
               \cup { [sp EXCEPT !.RhAccountID = to] : sp \in moved }
    /\ UNCHANGED <<system_package, hosts, groups>>
    /\ TableChange

\* External: a package is installed on a system, or removed from it.
Evaluate ==
    /\ \E sp \in system_platform, p \in Packages :
         LET row == [RhAccountID |-> sp.RhAccountID, SystemID |-> sp.ID,
                     PackageID |-> p, UpdateData |-> {"Applicable"}]
         IN  system_package' =
               IF \E spkg \in system_package : PackageKey(spkg) = PackageKey(row)
               THEN { spkg \in system_package :
                        PackageKey(spkg) # PackageKey(row) }
               ELSE system_package \cup {row}
    /\ UNCHANGED <<system_platform, hosts, groups>>
    /\ TableChange

\* External: the inventory adds, removes or regroups a host.
SyncHosts ==
    /\ \E h \in Hosts :
         \/ hosts' = hosts \ {h} /\ UNCHANGED groups
         \/ /\ hosts' = hosts \cup {h}
            /\ \E g \in Groups : groups' = [groups EXCEPT ![h] = g]
    /\ UNCHANGED <<system_platform, system_package>>
    /\ TableChange

-----------------------------------------------------------------------------
Init ==
    /\ system_platform = SeedPlatform
    /\ system_package = SeedPackages
    /\ hosts = SeedHosts
    /\ groups = SeedGroups
    /\ spicedb = SeedRelations
    /\ grants = SeedGrants
    /\ revision = Current
    /\ pc = [r \in Requests |-> "idle"]
    /\ experiment = [r \in Requests |-> "unknown"]
    /\ user = [r \in Requests |-> NoUser]
    /\ accountId = [r \in Requests |-> NoAccount]
    /\ hostIDs = [r \in Requests |-> {}]
    /\ response = [r \in Requests |-> NoData]
    /\ views = [r \in Requests |-> {}]
    /\ changed = [r \in Requests |-> TRUE]
    /\ spiceChanges = 0
    /\ tableChanges = 0

Step(r) == Receive(r) \/ ReceiveUnknown(r) \/ Lookup(r) \/ Query(r)

Others ==
    \/ Grant
    \/ PlaceHost
    \/ SwapHosts
    \/ Refresh
    \/ MoveRows
    \/ Evaluate
    \/ SyncHosts

Next == (\E r \in Requests : Step(r)) \/ Others

Spec == Init /\ [][Next]_vars

-----------------------------------------------------------------------------
(* Properties                                                              *)

Responses ==
    [status : {"none", "error"}, data : {{}}]
    \cup [status : {"ok"}, data : SUBSET PackageAccountData]

(***************************************************************************)
(* Types; in particular ids are held only between the two calls of a       *)
(* pre-filter request, and an answer has no data but statistics of the     *)
(* account it was asked for.                                               *)
(***************************************************************************)
TypeOK ==
    /\ system_platform \subseteq SystemPlatform
    /\ system_package \subseteq SystemPackage
    /\ hosts \subseteq Hosts
    /\ groups \in [Hosts -> Groups]
    /\ grants \subseteq Users \X Workspaces
    /\ pc \in [Requests -> {"idle", "lookup", "query"}]
    /\ experiment \in [Requests -> {"pre-filter", "baseline", "unknown"}]
    /\ user \in [Requests -> Users \cup {NoUser}]
    /\ accountId \in [Requests -> Accounts \cup {NoAccount}]
    /\ hostIDs \in [Requests -> SUBSET HostObjects]
    /\ \A r \in Requests :
         hostIDs[r] # {} => pc[r] = "query" /\ experiment[r] = "pre-filter"
    /\ response \in [Requests -> Responses]
    /\ \A r \in Requests : \A c \in response[r].data : c.AccID = accountId[r]

(***************************************************************************)
(* "For the experiments to be valid, the host groups would need to be      *)
(* exactly the same as what would be returned from SpiceDB": an answer     *)
(* since which nothing has changed is the one the other experiment gives,  *)
(* when SpiceDB answers from its current state, every host of the account  *)
(* is in the account's workspace and the user may read that, as long as    *)
(* the inventory has all hosts of the account ungrouped.                   *)
(***************************************************************************)
FullView(u, accID) ==
    /\ revision = Current
    /\ \A sp \in system_platform :
         sp.RhAccountID = accID /\ sp.InventoryID \in hosts =>
            /\ HostWorkspace(sp.InventoryID, accID) \in spicedb
            /\ sp.InventoryID \in ReadableNow(u)

AllUngrouped(accID) ==
    \A sp \in system_platform :
        sp.RhAccountID = accID => groups[sp.InventoryID] = "[]"

OtherAnswer(r) ==
    CASE experiment[r] = "pre-filter" -> packagesByAccount(accountId[r])
      [] experiment[r] = "baseline" ->
            packagesByHostIDs(accountId[r], ReadableNow(user[r]))

SameAnswers(accID) ==
    \A r \in Requests :
        /\ response[r].status = "ok" /\ ~changed[r]
        /\ accountId[r] = accID /\ FullView(user[r], accID)
        => response[r].data = OtherAnswer(r)

ExperimentsAgree ==
    \A accID \in Accounts : AllUngrouped(accID) => SameAnswers(accID)

(***************************************************************************)
(* The claim without that provision, as the code makes it: "each account   *)
(* only has ungrouped hosts".                                              *)
(***************************************************************************)
AccountMimicsGroups == \A accID \in Accounts : SameAnswers(accID)

(***************************************************************************)
(* Every request is answered as if from one state of the permissions that  *)
(* SpiceDB had during the request, and from the content at the moment of   *)
(* the second call: a partial list of hosts is never counted, nor one that *)
(* mixes two states or is left over from another request, whatever happens *)
(* to both stores before, between and after the calls.                     *)
(***************************************************************************)
NoQuestion == [none |-> TRUE]

\* What every user may read in a state of SpiceDB.
ViewOf(rels, gr) == [u \in Users \cup {NoUser} |-> Readable(rels, gr, u)]

Atomic == INSTANCE AtomicContent WITH
    Experiments <- [user : Users \cup {NoUser},
                    accountId : Accounts \cup {NoAccount},
                    experiment : {"pre-filter", "baseline"}],
    servable <- {ViewOf(spicedb, grants),
                 ViewOf(revision.rels, revision.grants)},
    question <- [r \in Requests |->
                   IF pc[r] = "idle" THEN NoQuestion
                   ELSE [user |-> user[r], accountId |-> accountId[r],
                         experiment |-> experiment[r]]],
    seen <- views,
    answer <- response

AnswersAtomically == Atomic!Spec

=============================================================================
