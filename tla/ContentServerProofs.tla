------------------------ MODULE ContentServerProofs ------------------------
(***************************************************************************)
(* Theorems about ContentServer, for any number of requests and users, any *)
(* tables, relationships and role bindings at start and any number of      *)
(* changes by others: an answer is typed and of its account, both          *)
(* experiments give the same answer under the premises of the comment on   *)
(* them, every answer is that of one moment and one view, and the variants *)
(* of the query, of QueryVariants, count what it counts.                   *)
(***************************************************************************)
EXTENDS QueryVariants, ContentDBProofs

-----------------------------------------------------------------------------
(* The inductive invariants                                                *)

\* The tables stay finite.
TablesFinite == IsFiniteSet(system_platform) /\ IsFiniteSet(system_package)

\* What keeps the types: only a pre-filter request looks up hosts.
Typed ==
    /\ TypeOK
    /\ TablesFinite
    /\ \A r \in Requests : pc[r] = "lookup" => experiment[r] = "pre-filter"

\* A request in progress has recorded what its user can read in every state
\* SpiceDB may answer from, and the hosts it holds are what one of them gave.
ViewsInv ==
    /\ views \in [Requests -> SUBSET SUBSET HostObjects]
    /\ \A r \in Requests :
         /\ pc[r] = "idle" => views[r] = {}
         /\ pc[r] # "idle" =>
              /\ {ReadableNow(user[r]), ReadableThen(user[r])} \subseteq views[r]
              /\ experiment[r] # "unknown"
         /\ pc[r] = "query" /\ experiment[r] = "pre-filter" =>
              hostIDs[r] \in views[r]

\* What a request was or will be answered, as long as nothing has changed
\* since it came.
AnswerOf(r) ==
    IF experiment[r] = "baseline" THEN packagesByAccount(accountId[r])
    ELSE packagesByHostIDs(accountId[r], ReadableThen(user[r]))

UnchangedInv ==
    /\ changed \in [Requests -> BOOLEAN]
    /\ \A r \in Requests : ~changed[r] =>
         /\ pc[r] = "query" /\ experiment[r] = "pre-filter" =>
              hostIDs[r] = ReadableThen(user[r])
         /\ response[r].status = "ok" =>
              /\ pc[r] = "idle" /\ experiment[r] # "unknown"
              /\ response[r].data = AnswerOf(r)

-----------------------------------------------------------------------------
(* The operators                                                           *)

LEMMA ReadableTyped ==
    \A rels, gr, u : Readable(rels, gr, u) \in SUBSET HostObjects
BY DEF Readable

\* Both queries return statistics of the account they are asked about, also
\* when there is no such account.
LEMMA AnswersTyped ==
    ASSUME Typed, NEW a, NEW ids
    PROVE  /\ packagesByHostIDs(a, ids) \in SUBSET PackageAccountData
           /\ \A c \in packagesByHostIDs(a, ids) : c.AccID = a
           /\ packagesByAccount(a) \in SUBSET PackageAccountData
           /\ \A c \in packagesByAccount(a) : c.AccID = a
<1> DEFINE join == PackageJoin(system_platform, system_package, hosts, a)
<1>1. IsFiniteSet(join)
  BY JoinFinite DEF Typed, TablesFinite
<1>2. \A row \in join : a \in Accounts /\ NameOfRow(row) \in Names
  BY JoinTyped DEF Typed, TypeOK
<1> HIDE DEF join
<1>3. ASSUME NEW rows \in SUBSET join
      PROVE  \A c \in GroupCounts(a, rows) :
               c \in PackageAccountData /\ c.AccID = a
  <2>1. IsFiniteSet(rows)
    BY <1>1, FS_Subset
  <2> QED
    BY <1>2, <2>1, GroupCountsTyped
<1>4. /\ packagesByHostIDs(a, ids) =
           GroupCounts(a, { row \in join : row[1].InventoryID \in ids })
      /\ packagesByAccount(a) =
           GroupCounts(a, { row \in join : groups[row[1].InventoryID] = "[]" })
  BY DEF packagesByHostIDs, packagesByAccount, AccountRows, join
<1> QED
  BY <1>3, <1>4

-----------------------------------------------------------------------------
(* Type correctness                                                        *)

LEMMA TypedInit == Init => Typed
<1> SUFFICES ASSUME Init PROVE Typed
  OBVIOUS
<1>1. response \in [Requests -> Responses]
  BY DEF Init, Responses, NoData
<1>2. \A r \in Requests : response[r].data = {}
  BY DEF Init, NoData
<1>3. /\ pc = [r \in Requests |-> "idle"]
      /\ experiment = [r \in Requests |-> "unknown"]
      /\ user = [r \in Requests |-> NoUser]
      /\ accountId = [r \in Requests |-> NoAccount]
      /\ hostIDs = [r \in Requests |-> {}]
  BY DEF Init
<1>4. /\ system_platform \subseteq SystemPlatform /\ IsFiniteSet(system_platform)
      /\ system_package \subseteq SystemPackage /\ IsFiniteSet(system_package)
      /\ hosts \subseteq Hosts
      /\ groups \in [Hosts -> Groups]
      /\ grants \subseteq Users \X Workspaces
  BY SeedAssumption DEF Init
<1>5. TypeOK
  BY <1>1, <1>2, <1>3, <1>4 DEF TypeOK
<1> QED
  BY <1>3, <1>4, <1>5 DEF Typed, TablesFinite

\* A step of a request that writes these values to its variables, all typed.
Writes(r, l, x, u, a, ids, res) ==
    /\ UNCHANGED <<tables, spice>>
    /\ l \in {"idle", "lookup", "query"}
    /\ pc' = [pc EXCEPT ![r] = l]
    /\ x \in {"pre-filter", "baseline", "unknown"}
    /\ experiment' = [experiment EXCEPT ![r] = x]
    /\ u \in Users \cup {NoUser}
    /\ user' = [user EXCEPT ![r] = u]
    /\ a \in Accounts \cup {NoAccount}
    /\ accountId' = [accountId EXCEPT ![r] = a]
    /\ ids \in SUBSET HostObjects
    /\ hostIDs' = [hostIDs EXCEPT ![r] = ids]
    /\ res \in Responses
    /\ response' = [response EXCEPT ![r] = res]
    /\ ids # {} => l = "query" /\ x = "pre-filter"
    /\ l = "lookup" => x = "pre-filter"
    /\ \A c \in res.data : c.AccID = a

LEMMA WritesTyped ==
    ASSUME Typed, NEW r \in Requests,
           NEW l, NEW x, NEW u, NEW a, NEW ids, NEW res,
           Writes(r, l, x, u, a, ids, res)
    PROVE  Typed'
<1>1. TablesFinite'
  BY DEF Writes, Typed, TablesFinite, tables
<1>2. (/\ system_platform \subseteq SystemPlatform
       /\ system_package \subseteq SystemPackage
       /\ hosts \subseteq Hosts
       /\ groups \in [Hosts -> Groups]
       /\ grants \subseteq Users \X Workspaces)'
  BY DEF Writes, Typed, TypeOK, tables, spice
<1>3. (/\ pc \in [Requests -> {"idle", "lookup", "query"}]
       /\ experiment \in [Requests -> {"pre-filter", "baseline", "unknown"}]
       /\ user \in [Requests -> Users \cup {NoUser}]
       /\ accountId \in [Requests -> Accounts \cup {NoAccount}]
       /\ hostIDs \in [Requests -> SUBSET HostObjects]
       /\ response \in [Requests -> Responses])'
  BY DEF Writes, Typed, TypeOK
<1>4. (\A q \in Requests :
         hostIDs[q] # {} => pc[q] = "query" /\ experiment[q] = "pre-filter")'
  BY DEF Writes, Typed, TypeOK
<1>5. (\A q \in Requests : \A c \in response[q].data : c.AccID = accountId[q])'
  BY DEF Writes, Typed, TypeOK
<1>6. (\A q \in Requests : pc[q] = "lookup" => experiment[q] = "pre-filter")'
  BY DEF Writes, Typed, TypeOK
<1> QED
  BY <1>1, <1>2, <1>3, <1>4, <1>5, <1>6 DEF Typed, TypeOK

LEMMA IdentitiesTyped ==
    \A id \in Identities :
        id[1] \in Users \cup {NoUser} /\ id[2] \in Accounts \cup {NoAccount}
BY DEF Identities

LEMMA ReceiveTyped ==
    ASSUME Typed, NEW r \in Requests, Receive(r)
    PROVE  Typed'
<1>1. PICK id \in Identities, x \in {"pre-filter", "baseline"} :
        /\ user' = [user EXCEPT ![r] = id[1]]
        /\ accountId' = [accountId EXCEPT ![r] = id[2]]
        /\ experiment' = [experiment EXCEPT ![r] = x]
        /\ \/ x = "pre-filter" /\ Goto(r, "lookup")
           \/ x = "baseline" /\ Goto(r, "query")
  BY DEF Receive
<1>2. PICK l \in {"lookup", "query"} :
        pc' = [pc EXCEPT ![r] = l] /\ (l = "lookup" => x = "pre-filter")
  BY <1>1 DEF Goto
<1>3. hostIDs' = [hostIDs EXCEPT ![r] = {}]
  BY DEF Receive, Typed, TypeOK
<1>4. NoData \in Responses /\ NoData.data = {}
  BY DEF NoData, Responses
<1>5. response' = [response EXCEPT ![r] = NoData] /\ UNCHANGED <<tables, spice>>
  BY DEF Receive
<1>6. PICK u, a : u = id[1] /\ a = id[2]
  OBVIOUS
<1>7. Writes(r, l, x, u, a, {}, NoData)
  BY <1>1, <1>2, <1>3, <1>4, <1>5, <1>6, IdentitiesTyped DEF Writes
<1> QED
  BY <1>7, WritesTyped

LEMMA ReceiveUnknownTyped ==
    ASSUME Typed, NEW r \in Requests, ReceiveUnknown(r)
    PROVE  Typed'
<1>1. /\ hostIDs' = [hostIDs EXCEPT ![r] = {}]
      /\ pc' = [pc EXCEPT ![r] = "idle"]
  BY DEF ReceiveUnknown, Typed, TypeOK
<1>2. NoData \in Responses /\ NoData.data = {}
  BY DEF NoData, Responses
<1>3. /\ experiment' = [experiment EXCEPT ![r] = "unknown"]
      /\ user' = [user EXCEPT ![r] = NoUser]
      /\ accountId' = [accountId EXCEPT ![r] = NoAccount]
      /\ response' = [response EXCEPT ![r] = NoData]
      /\ UNCHANGED <<tables, spice>>
  BY DEF ReceiveUnknown
<1>4. Writes(r, "idle", "unknown", NoUser, NoAccount, {}, NoData)
  BY <1>1, <1>2, <1>3 DEF Writes
<1> QED
  BY <1>4, WritesTyped

\* A request that has come keeps its question.
LEMMA SameQuestion ==
    ASSUME Typed, NEW r \in Requests, UNCHANGED <<experiment, user, accountId>>
    PROVE  /\ experiment[r] \in {"pre-filter", "baseline", "unknown"}
           /\ user[r] \in Users \cup {NoUser}
           /\ accountId[r] \in Accounts \cup {NoAccount}
           /\ experiment' = [experiment EXCEPT ![r] = experiment[r]]
           /\ user' = [user EXCEPT ![r] = user[r]]
           /\ accountId' = [accountId EXCEPT ![r] = accountId[r]]
BY DEF Typed, TypeOK

LEMMA FailureTyped ==
    LET res == [status |-> "error", data |-> {}]
    IN  res \in Responses /\ res.data = {}
BY DEF Responses

LEMMA LookupTyped ==
    ASSUME Typed, NEW r \in Requests, Lookup(r)
    PROVE  Typed'
<1>1. UNCHANGED <<tables, spice, experiment, user, accountId>>
  BY DEF Lookup
<1>2. experiment[r] = "pre-filter" /\ hostIDs[r] = {}
  BY DEF Lookup, Typed, TypeOK
<1>3. CASE /\ hostIDs' = [hostIDs EXCEPT ![r] = ReadableThen(user[r])]
           /\ Goto(r, "query")
           /\ UNCHANGED response
  <2>1. ReadableThen(user[r]) \in SUBSET HostObjects
    BY ReadableTyped DEF ReadableThen
  <2>2. /\ response[r] \in Responses
        /\ response' = [response EXCEPT ![r] = response[r]]
        /\ \A c \in response[r].data : c.AccID = accountId[r]
    BY <1>3 DEF Typed, TypeOK
  <2>3. PICK x, u, a, ids, res :
          /\ x = experiment[r] /\ u = user[r] /\ a = accountId[r]
          /\ ids = ReadableThen(user[r]) /\ res = response[r]
    OBVIOUS
  <2>4. Writes(r, "query", x, u, a, ids, res)
    BY <1>1, <1>2, <1>3, <2>1, <2>2, <2>3, SameQuestion DEF Goto, Writes
  <2> QED
    BY <2>4, WritesTyped
<1>4. CASE Fail(r) /\ UNCHANGED hostIDs
  <2>1. PICK x, u, a, res :
          /\ x = experiment[r] /\ u = user[r] /\ a = accountId[r]
          /\ res = [status |-> "error", data |-> {}]
    OBVIOUS
  <2>2. /\ hostIDs' = [hostIDs EXCEPT ![r] = {}]
        /\ pc' = [pc EXCEPT ![r] = "idle"]
        /\ response' = [response EXCEPT ![r] = res]
    BY <1>2, <1>4, <2>1 DEF Fail, Respond, Goto, Typed, TypeOK
  <2>3. Writes(r, "idle", x, u, a, {}, res)
    BY <1>1, <2>1, <2>2, SameQuestion, FailureTyped DEF Writes
  <2> QED
    BY <2>3, WritesTyped
<1> QED
  BY <1>3, <1>4 DEF Lookup

LEMMA QueryTyped ==
    ASSUME Typed, NEW r \in Requests, Query(r)
    PROVE  Typed'
<1>1. /\ UNCHANGED <<tables, spice, experiment, user, accountId>>
      /\ hostIDs' = [hostIDs EXCEPT ![r] = {}]
  BY DEF Query
<1>2. PICK res \in Responses :
        /\ Respond(r, res)
        /\ \A c \in res.data : c.AccID = accountId[r]
  <2>1. CASE Respond(r, Ok(packagesByHostIDs(accountId[r], hostIDs[r])))
    <3> DEFINE data == packagesByHostIDs(accountId[r], hostIDs[r])
    <3>1. data \in SUBSET PackageAccountData /\ \A c \in data : c.AccID = accountId[r]
      BY AnswersTyped
    <3> HIDE DEF data
    <3>2. Ok(data) \in Responses /\ Ok(data).data = data
      BY <3>1 DEF Ok, Responses
    <3> QED
      BY <2>1, <3>1, <3>2 DEF data
  <2>2. CASE Respond(r, Ok(packagesByAccount(accountId[r])))
    <3> DEFINE data == packagesByAccount(accountId[r])
    <3>1. data \in SUBSET PackageAccountData /\ \A c \in data : c.AccID = accountId[r]
      BY AnswersTyped
    <3> HIDE DEF data
    <3>2. Ok(data) \in Responses /\ Ok(data).data = data
      BY <3>1 DEF Ok, Responses
    <3> QED
      BY <2>2, <3>1, <3>2 DEF data
  <2>3. CASE Fail(r)
    BY <2>3, FailureTyped DEF Fail
  <2> QED
    BY <2>1, <2>2, <2>3 DEF Query
<1>3. PICK x, u, a : x = experiment[r] /\ u = user[r] /\ a = accountId[r]
  OBVIOUS
<1>4. pc' = [pc EXCEPT ![r] = "idle"] /\ response' = [response EXCEPT ![r] = res]
  BY <1>2 DEF Respond, Goto
<1>5. Writes(r, "idle", x, u, a, {}, res)
  BY <1>1, <1>2, <1>3, <1>4, SameQuestion DEF Writes
<1> QED
  BY <1>5, WritesTyped

\* Others leave the requests alone, and change tables and role bindings within
\* their types.
LEMMA LocalTyped ==
    ASSUME Typed, UNCHANGED local,
           (/\ system_platform \subseteq SystemPlatform
            /\ system_package \subseteq SystemPackage
            /\ hosts \subseteq Hosts
            /\ groups \in [Hosts -> Groups]
            /\ grants \subseteq Users \X Workspaces
            /\ TablesFinite)'
    PROVE  Typed'
BY DEF Typed, TypeOK, local

LEMMA SpiceChangeTyped ==
    ASSUME Typed, SpiceChange, (grants \subseteq Users \X Workspaces)'
    PROVE  Typed'
<1>1. UNCHANGED local /\ UNCHANGED tables
  BY DEF SpiceChange
<1>2. (/\ system_platform \subseteq SystemPlatform
       /\ system_package \subseteq SystemPackage
       /\ hosts \subseteq Hosts
       /\ groups \in [Hosts -> Groups]
       /\ TablesFinite)'
  BY <1>1 DEF tables, Typed, TypeOK, TablesFinite
<1> QED
  BY <1>1, <1>2, LocalTyped

LEMMA TableChangeTyped ==
    ASSUME Typed, TableChange,
           (/\ system_platform \subseteq SystemPlatform
            /\ system_package \subseteq SystemPackage
            /\ hosts \subseteq Hosts
            /\ groups \in [Hosts -> Groups]
            /\ TablesFinite)'
    PROVE  Typed'
<1>1. UNCHANGED local /\ grants' = grants
  BY DEF TableChange, spice
<1>2. (grants \subseteq Users \X Workspaces)'
  BY <1>1 DEF Typed, TypeOK
<1> QED
  BY <1>1, <1>2, LocalTyped

LEMMA MoveRowsTyped ==
    ASSUME Typed, MoveRows
    PROVE  Typed'
<1>1. PICK from, to \in Accounts :
        LET moved == { sp \in system_platform : sp.RhAccountID = from }
        IN  system_platform' = (system_platform \ moved)
              \cup { [sp EXCEPT !.RhAccountID = to] : sp \in moved }
  BY DEF MoveRows
<1> DEFINE moved == { sp \in system_platform : sp.RhAccountID = from }
           f == [sp \in moved |-> [sp EXCEPT !.RhAccountID = to]]
           image == { f[sp] : sp \in moved }
<1>2. system_platform' = (system_platform \ moved) \cup image
  BY <1>1
<1>3. (system_platform \subseteq SystemPlatform)'
  <2>1. \A sp \in SystemPlatform :
          [sp EXCEPT !.RhAccountID = to] \in SystemPlatform
    BY DEF SystemPlatform
  <2>2. \A sp \in moved : sp \in SystemPlatform
    BY DEF Typed, TypeOK
  <2>3. \A sp \in moved : f[sp] = [sp EXCEPT !.RhAccountID = to]
    OBVIOUS
  <2> HIDE DEF moved, f
  <2>4. image \in SUBSET SystemPlatform
    BY <2>1, <2>2, <2>3
  <2> QED
    BY <1>2, <2>4 DEF Typed, TypeOK
<1>4. IsFiniteSet(system_platform)'
  <2>1. moved \in SUBSET system_platform /\ system_platform \ moved \in SUBSET system_platform
    OBVIOUS
  <2> HIDE DEF moved, f
  <2>2. IsFiniteSet(moved) /\ IsFiniteSet(system_platform \ moved)
    BY <2>1, FS_Subset DEF Typed, TablesFinite
  <2>3. IsFiniteSet(image)
    BY <2>2, ImageFinite
  <2> HIDE DEF image
  <2>4. IsFiniteSet((system_platform \ moved) \cup image)
    BY <2>2, <2>3, FS_Union
  <2> QED
    BY <1>2, <2>4
<1>5. UNCHANGED <<system_package, hosts, groups>> /\ TableChange
  BY DEF MoveRows
<1> QED
  BY <1>3, <1>4, <1>5, TableChangeTyped DEF Typed, TypeOK, TablesFinite

LEMMA EvaluateTyped ==
    ASSUME Typed, Evaluate
    PROVE  Typed'
<1>1. PICK row \in SystemPackage :
        \/ system_package' \in SUBSET system_package
        \/ system_package' = system_package \cup {row}
  <2>1. PICK sp \in system_platform, p \in Packages :
          LET row == [RhAccountID |-> sp.RhAccountID, SystemID |-> sp.ID,
                      PackageID |-> p, UpdateData |-> {"Applicable"}]
          IN  system_package' =
                IF \E spkg \in system_package : PackageKey(spkg) = PackageKey(row)
                THEN { spkg \in system_package :
                         PackageKey(spkg) # PackageKey(row) }
                ELSE system_package \cup {row}
    BY DEF Evaluate
  <2> DEFINE row == [RhAccountID |-> sp.RhAccountID, SystemID |-> sp.ID,
                     PackageID |-> p, UpdateData |-> {"Applicable"}]
  <2>2. row \in SystemPackage
    BY DEF Typed, TypeOK, SystemPlatform, SystemPackage, UpdateStatuses
  <2> HIDE DEF row
  <2>3. \/ system_package' = { spkg \in system_package :
                                 PackageKey(spkg) # PackageKey(row) }
        \/ system_package' = system_package \cup {row}
    BY <2>1 DEF row
  <2> QED
    BY <2>2, <2>3
<1>2. (system_package \subseteq SystemPackage)'
  BY <1>1 DEF Typed, TypeOK
<1>3. IsFiniteSet(system_package)'
  BY <1>1, FS_Subset, FS_AddElement DEF Typed, TablesFinite
<1>4. UNCHANGED <<system_platform, hosts, groups>> /\ TableChange
  BY DEF Evaluate
<1> QED
  BY <1>2, <1>3, <1>4, TableChangeTyped DEF Typed, TypeOK, TablesFinite

LEMMA SyncHostsTyped ==
    ASSUME Typed, SyncHosts
    PROVE  Typed'
<1>1. UNCHANGED <<system_platform, system_package>> /\ TableChange
  BY DEF SyncHosts
<1>2. (hosts \subseteq Hosts)' /\ (groups \in [Hosts -> Groups])'
  BY DEF SyncHosts, Typed, TypeOK
<1> QED
  BY <1>1, <1>2, TableChangeTyped DEF Typed, TypeOK, TablesFinite

LEMMA OthersTyped ==
    ASSUME Typed, Others
    PROVE  Typed'
<1>1. CASE Grant
  <2>1. (grants \subseteq Users \X Workspaces)' /\ SpiceChange
    BY <1>1 DEF Grant, Typed, TypeOK
  <2> QED
    BY <2>1, SpiceChangeTyped
<1>2. CASE PlaceHost \/ SwapHosts
  <2>1. (grants \subseteq Users \X Workspaces)' /\ SpiceChange
    BY <1>2 DEF PlaceHost, SwapHosts, Typed, TypeOK
  <2> QED
    BY <2>1, SpiceChangeTyped
<1>3. CASE Refresh
  BY <1>3, LocalTyped DEF Refresh, tables, Typed, TypeOK, TablesFinite
<1> QED
  BY <1>1, <1>2, <1>3, MoveRowsTyped, EvaluateTyped, SyncHostsTyped DEF Others

LEMMA TypedNext == Typed /\ [Next]_vars => Typed'
<1> SUFFICES ASSUME Typed, [Next]_vars PROVE Typed'
  OBVIOUS
<1>1. CASE \E r \in Requests : Step(r)
  BY <1>1, ReceiveTyped, ReceiveUnknownTyped, LookupTyped, QueryTyped DEF Step
<1>2. CASE UNCHANGED vars
  BY <1>2, LocalTyped DEF vars, tables, spice, Typed, TypeOK, TablesFinite
<1> QED
  BY <1>1, <1>2, OthersTyped DEF Next

\* In every behaviour a request holds hosts only between its two calls, and an
\* answer has no data but statistics of the account it was asked for, whatever
\* header the request came with.
THEOREM TypeCorrect == Spec => []TypeOK
<1>1. Typed => TypeOK
  BY DEF Typed
<1> QED
  BY <1>1, TypedInit, TypedNext, PTL DEF Spec

-----------------------------------------------------------------------------
(* The views of the requests in progress                                   *)

\* What ViewsInv says of one request.
ViewsOf(r) ==
    /\ pc[r] = "idle" => views[r] = {}
    /\ pc[r] # "idle" =>
         /\ ReadableNow(user[r]) \in views[r]
         /\ ReadableThen(user[r]) \in views[r]
         /\ experiment[r] # "unknown"
    /\ pc[r] = "query" /\ experiment[r] = "pre-filter" =>
         hostIDs[r] \in views[r]

LEMMA ViewsSplit ==
    ViewsInv <=> /\ views \in [Requests -> SUBSET SUBSET HostObjects]
                 /\ \A r \in Requests : ViewsOf(r)
BY DEF ViewsInv, ViewsOf

LEMMA ViewsInit == Init => ViewsInv
BY DEF Init, ViewsInv

\* A step of a request reads SpiceDB, and leaves the other requests alone.
LEMMA ViewsOther ==
    ASSUME Typed, ViewsInv, NEW r \in Requests, Step(r),
           NEW q \in Requests \ {r}
    PROVE  ViewsOf(q)'
<1>1. /\ pc'[q] = pc[q] /\ views'[q] = views[q] /\ user'[q] = user[q]
      /\ experiment'[q] = experiment[q] /\ hostIDs'[q] = hostIDs[q]
  BY DEF Step, Receive, ReceiveUnknown, Lookup, Query, Fail, Respond, Goto,
         history, ViewsInv, Typed, TypeOK
<1>2. spicedb' = spicedb /\ grants' = grants /\ revision' = revision
  BY DEF Step, Receive, ReceiveUnknown, Lookup, Query, spice
<1>3. ViewsOf(q)
  BY ViewsSplit
<1> QED
  BY <1>1, <1>2, <1>3 DEF ViewsOf, ReadableNow, ReadableThen

LEMMA ViewsOwn ==
    ASSUME Typed, ViewsInv, NEW r \in Requests, Step(r)
    PROVE  /\ ViewsOf(r)'
           /\ (views \in [Requests -> SUBSET SUBSET HostObjects])'
<1>1. views \in [Requests -> SUBSET SUBSET HostObjects] /\ ViewsOf(r)
  BY ViewsSplit
<1>2. spicedb' = spicedb /\ grants' = grants /\ revision' = revision
  BY DEF Step, Receive, ReceiveUnknown, Lookup, Query, spice
<1>3. CASE Receive(r)
  <2>1. PICK id \in Identities, x \in {"pre-filter", "baseline"} :
          /\ user' = [user EXCEPT ![r] = id[1]]
          /\ experiment' = [experiment EXCEPT ![r] = x]
          /\ views' = [views EXCEPT ![r] =
                          {ReadableNow(id[1]), ReadableThen(id[1])}]
          /\ \/ x = "pre-filter" /\ Goto(r, "lookup")
             \/ x = "baseline" /\ Goto(r, "query")
    BY <1>3 DEF Receive
  <2>2. /\ ReadableNow(id[1]) \in SUBSET HostObjects
        /\ ReadableThen(id[1]) \in SUBSET HostObjects
    BY ReadableTyped DEF ReadableNow, ReadableThen
  <2>3. user'[r] = id[1] /\ experiment'[r] = x
    BY <2>1 DEF Typed, TypeOK
  <2>4. /\ views' \in [Requests -> SUBSET SUBSET HostObjects]
        /\ views'[r] = {ReadableNow(id[1]), ReadableThen(id[1])}
    BY <1>1, <2>1, <2>2
  <2>5. (ReadableNow(user[r]))' \in views'[r] /\ (ReadableThen(user[r]))' \in views'[r]
    BY <1>2, <2>3, <2>4 DEF ReadableNow, ReadableThen
  <2>6. pc'[r] # "idle" /\ (pc'[r] = "query" => experiment'[r] = "baseline")
    BY <2>1, <2>3 DEF Goto, Typed, TypeOK
  <2>7. experiment'[r] # "unknown"
    BY <2>3
  <2> QED
    BY <2>4, <2>5, <2>6, <2>7 DEF ViewsOf
<1>4. CASE ReceiveUnknown(r)
  BY <1>1, <1>4 DEF ReceiveUnknown, ViewsOf, history
<1>5. CASE Lookup(r) /\ ~Fail(r)
  <2>1. /\ hostIDs'[r] = ReadableThen(user[r])
        /\ pc'[r] = "query"
        /\ UNCHANGED <<user, experiment, views>>
    BY <1>5 DEF Lookup, Goto, history, Typed, TypeOK
  <2>2. /\ ReadableNow(user[r]) \in views[r]
        /\ ReadableThen(user[r]) \in views[r]
        /\ experiment[r] # "unknown"
    BY <1>1, <1>5 DEF Lookup, ViewsOf
  <2> QED
    BY <1>1, <1>2, <2>1, <2>2 DEF ViewsOf, ReadableNow, ReadableThen
<1>6. CASE Query(r) \/ Fail(r)
  <2>1. pc' = [pc EXCEPT ![r] = "idle"] /\ views' = [views EXCEPT ![r] = {}]
    BY <1>6 DEF Query, Fail, Respond, Goto
  <2> QED
    BY <1>1, <2>1 DEF ViewsOf, Typed, TypeOK
<1> QED
  BY <1>3, <1>4, <1>5, <1>6 DEF Step

\* A change to SpiceDB is recorded for every request in progress, ...
LEMMA ViewsSpice ==
    ASSUME Typed, ViewsInv, SpiceChange, revision' = revision
    PROVE  ViewsInv'
<1>1. /\ views \in [Requests -> SUBSET SUBSET HostObjects]
      /\ \A r \in Requests : ViewsOf(r)
  BY ViewsSplit
<1>2. /\ UNCHANGED <<pc, user, experiment, hostIDs>>
      /\ views' = [r \in Requests |->
                     IF pc[r] = "idle" THEN {}
                     ELSE views[r] \cup {Readable(spicedb', grants', user[r])}]
  BY DEF SpiceChange, local
<1>3. ASSUME NEW r \in Requests
      PROVE  ViewsOf(r)' /\ views'[r] \in SUBSET SUBSET HostObjects
  <2>1. (ReadableNow(user[r]))' = Readable(spicedb', grants', user[r])
    BY <1>2 DEF ReadableNow
  <2>2. (ReadableThen(user[r]))' = ReadableThen(user[r])
    BY <1>2 DEF ReadableThen
  <2>3. (ReadableNow(user[r]))' \in SUBSET HostObjects
    BY <2>1, ReadableTyped
  <2>4. CASE pc[r] = "idle"
    BY <1>2, <2>4 DEF ViewsOf
  <2>5. CASE pc[r] # "idle"
    <3>1. views'[r] = views[r] \cup {(ReadableNow(user[r]))'}
      BY <1>2, <2>1, <2>5
    <3>2. ViewsOf(r)
      BY <1>1
    <3> QED
      BY <1>1, <1>2, <2>2, <2>3, <2>5, <3>1, <3>2 DEF ViewsOf
  <2> QED
    BY <2>4, <2>5
<1>4. (views \in [Requests -> SUBSET SUBSET HostObjects])'
  BY <1>2, <1>3
<1> QED
  BY <1>3, <1>4 DEF ViewsInv, ViewsOf

\* ... so that SpiceDB catching up shows a request nothing it has not seen.
LEMMA ViewsRefresh ==
    ASSUME ViewsInv, Refresh
    PROVE  ViewsInv'
<1>1. /\ UNCHANGED <<spicedb, grants, pc, user, experiment, hostIDs, views>>
      /\ revision'.rels = spicedb /\ revision'.grants = grants
  BY DEF Refresh, Current, local
<1> QED
  BY <1>1 DEF ViewsInv, ReadableNow, ReadableThen

LEMMA ViewsNext == Typed /\ ViewsInv /\ [Next]_vars => ViewsInv'
<1> SUFFICES ASSUME Typed, ViewsInv, [Next]_vars PROVE ViewsInv'
  OBVIOUS
<1>1. CASE \E r \in Requests : Step(r)
  <2>1. PICK r \in Requests : Step(r)
    BY <1>1
  <2>2. ViewsOf(r)' /\ (views \in [Requests -> SUBSET SUBSET HostObjects])'
    BY <2>1, ViewsOwn
  <2>3. \A q \in Requests \ {r} : ViewsOf(q)'
    BY <2>1, ViewsOther
  <2>4. (\A q \in Requests : ViewsOf(q))'
    BY <2>2, <2>3
  <2> QED
    BY <2>2, <2>4 DEF ViewsInv, ViewsOf
<1>2. CASE Grant \/ PlaceHost \/ SwapHosts
  BY <1>2, ViewsSpice DEF Grant, PlaceHost, SwapHosts
<1>3. CASE TableChange
  BY <1>3 DEF TableChange, local, spice, ViewsInv, ReadableNow, ReadableThen
<1>4. CASE MoveRows \/ Evaluate \/ SyncHosts
  BY <1>3, <1>4 DEF MoveRows, Evaluate, SyncHosts
<1>5. CASE UNCHANGED vars
  BY <1>5 DEF vars, local, spice, history, ViewsInv, ReadableNow, ReadableThen
<1> QED
  BY <1>1, <1>2, <1>4, <1>5, ViewsRefresh DEF Next, Others

-----------------------------------------------------------------------------
(* Every request is answered atomically: the steps of ContentServer are    *)
(* steps of AtomicContent.                                                 *)

\* What a request in progress has asked, as the refinement has it.
Asked(r) ==
    [user |-> user[r], accountId |-> accountId[r], experiment |-> experiment[r]]

Questions ==
    [user : Users \cup {NoUser}, accountId : Accounts \cup {NoAccount},
     experiment : {"pre-filter", "baseline"}]

question ==
    [r \in Requests |-> IF pc[r] = "idle" THEN NoQuestion ELSE Asked(r)]

LEMMA QuestionsAsk ==
    ASSUME NEW q \in Questions
    PROVE  q # NoQuestion
<1>1. "none" \notin DOMAIN q
  BY DEF Questions
<1>2. "none" \in DOMAIN NoQuestion
  BY DEF NoQuestion
<1> QED
  BY <1>1, <1>2

\* The states SpiceDB may answer from, in terms of what the user can read.
LEMMA ServableViews ==
    ASSUME NEW q, q.user \in Users \cup {NoUser}
    PROVE  Atomic!Servable(q) = {ReadableNow(q.user), ReadableThen(q.user)}
BY DEF Atomic!Servable, ViewOf, ReadableNow, ReadableThen

\* The two handlers' queries are the two alternatives of the atomic answer.
LEMMA DataOfQueries ==
    ASSUME NEW q, NEW readable
    PROVE  /\ q.experiment = "pre-filter" =>
                Atomic!Data(q, readable) =
                    packagesByHostIDs(q.accountId, readable)
           /\ q.experiment = "baseline" =>
                Atomic!Data(q, readable) = packagesByAccount(q.accountId)
<1> DEFINE rows == AccountRows(q.accountId)
<1>1. Atomic!Joined(q) = rows
  BY DEF Atomic!Joined, Atomic!PackageJoin, AccountRows, PackageJoin
<1> HIDE DEF rows
<1>2. ASSUME NEW a, NEW R
      PROVE  Atomic!GroupCounts(a, R) = GroupCounts(a, R)
  <2>1. ASSUME NEW rs, NEW n, NEW st
        PROVE  /\ Atomic!InGroup(rs, n) = InGroup(rs, n)
               /\ Atomic!WithStatus(rs, st) = WithStatus(rs, st)
    BY DEF Atomic!InGroup, Atomic!NameOfRow, Atomic!WithStatus,
           Atomic!update_status, InGroup, NameOfRow, WithStatus, update_status
  <2>2. ASSUME NEW n, NEW rs
        PROVE  Atomic!CountsOf(a, n, rs) = CountsOf(a, n, rs)
    <3>1. /\ Atomic!WithStatus(rs, {"Installable"})
              = WithStatus(rs, {"Installable"})
          /\ Atomic!WithStatus(rs, {"Installable", "Applicable"})
              = WithStatus(rs, {"Installable", "Applicable"})
      BY <2>1
    <3>2. ASSUME NEW S
          PROVE  Atomic!Cardinality(S) = Cardinality(S)
      BY DEF Atomic!Cardinality, Cardinality
    <3> QED
      BY <3>1, <3>2 DEF Atomic!CountsOf, CountsOf
  <2> QED
    BY <2>1, <2>2
    DEF Atomic!GroupCounts, GroupCounts, Atomic!NameOfRow, NameOfRow
<1> DEFINE chosen == { row \in rows :
                         \/ /\ q.experiment = "pre-filter"
                            /\ row[1].InventoryID \in readable
                         \/ /\ q.experiment = "baseline"
                            /\ groups[row[1].InventoryID] = "[]" }
<1>3. Atomic!Data(q, readable) = GroupCounts(q.accountId, chosen)
  BY <1>1, <1>2 DEF Atomic!Data
<1>4. q.experiment = "pre-filter" =>
        chosen = { row \in rows : row[1].InventoryID \in readable }
  OBVIOUS
<1>5. q.experiment = "baseline" =>
        chosen = { row \in rows : groups[row[1].InventoryID] = "[]" }
  OBVIOUS
<1> HIDE DEF chosen
<1> QED
  BY <1>3, <1>4, <1>5 DEF packagesByHostIDs, packagesByAccount, rows

LEMMA AtomicInit == Init => Atomic!Init
BY DEF Init, Atomic!Init

LEMMA ReceiveAsks ==
    ASSUME Typed, ViewsInv, NEW r \in Requests, Receive(r)
    PROVE  \E q \in Questions : Atomic!Ask(r, q)
<1>1. PICK id \in Identities, x \in {"pre-filter", "baseline"} :
        /\ user' = [user EXCEPT ![r] = id[1]]
        /\ accountId' = [accountId EXCEPT ![r] = id[2]]
        /\ experiment' = [experiment EXCEPT ![r] = x]
        /\ views' = [views EXCEPT ![r] =
                        {ReadableNow(id[1]), ReadableThen(id[1])}]
        /\ \/ x = "pre-filter" /\ Goto(r, "lookup")
           \/ x = "baseline" /\ Goto(r, "query")
  BY DEF Receive
<1>2. PICK q : q = [user |-> id[1], accountId |-> id[2], experiment |-> x]
  OBVIOUS
<1>3. q \in Questions
  BY <1>2, IdentitiesTyped DEF Questions
<1>4. /\ pc[r] = "idle"
      /\ response' = [response EXCEPT ![r] = NoData]
      /\ UNCHANGED tables /\ UNCHANGED spice
  BY DEF Receive
<1>5. question[r] = NoQuestion
  BY <1>4 DEF question
<1>6. question' = [question EXCEPT ![r] = q]
  <2>1. (question[r])' = q
    BY <1>1, <1>2 DEF question, Asked, Goto, Typed, TypeOK
  <2>2. ASSUME NEW p \in Requests \ {r}
        PROVE  (question[p])' = question[p]
    BY <1>1 DEF question, Asked, Goto, Typed, TypeOK
  <2> QED
    BY <2>1, <2>2 DEF question
<1>7. views' = [views EXCEPT ![r] = Atomic!Servable(q)]
  BY <1>1, <1>2, IdentitiesTyped, ServableViews
<1>8. Atomic!Ask(r, q)
  BY <1>4, <1>5, <1>6, <1>7
  DEF Atomic!Ask, Atomic!tables, tables, spice, question, Asked
<1> QED
  BY <1>3, <1>8

LEMMA UnknownIgnored ==
    ASSUME Typed, NEW r \in Requests, ReceiveUnknown(r)
    PROVE  Atomic!Ignore(r)
<1>1. /\ pc[r] = "idle" /\ UNCHANGED <<pc, views>>
      /\ response' = [response EXCEPT ![r] = NoData]
      /\ UNCHANGED tables /\ UNCHANGED spice
  BY DEF ReceiveUnknown, history
<1>2. question[r] = NoQuestion
  BY <1>1 DEF question
<1>3. question' = question
  <2>1. ASSUME NEW p \in Requests
        PROVE  (question[p])' = question[p]
    BY <1>1 DEF question, Asked, ReceiveUnknown, Typed, TypeOK
  <2> QED
    BY <2>1 DEF question
<1> QED
  BY <1>1, <1>2, <1>3
  DEF Atomic!Ignore, Atomic!tables, tables, spice, question, Asked

\* A request answered with res was answered from one view.
LEMMA RespondAnswers ==
    ASSUME Typed, ViewsInv, NEW r \in Requests, NEW res, Respond(r, res),
           UNCHANGED <<tables, spice, experiment, user, accountId>>,
           pc[r] # "idle",
           \/ \E readable \in views[r] :
                res = [status |-> "ok", data |-> Atomic!Data(Asked(r), readable)]
           \/ res = [status |-> "error", data |-> {}]
    PROVE  Atomic!Answer(r)
<1>1. question[r] = Asked(r)
  BY DEF question
<1>2. Asked(r) \in Questions
  BY DEF Asked, Questions, Typed, TypeOK, ViewsInv
<1>3. question[r] # NoQuestion
  BY <1>1, <1>2, QuestionsAsk
<1>4. /\ pc' = [pc EXCEPT ![r] = "idle"]
      /\ response' = [response EXCEPT ![r] = res]
      /\ views' = [views EXCEPT ![r] = {}]
  BY DEF Respond, Goto
<1>5. question' = [question EXCEPT ![r] = NoQuestion]
  BY <1>4 DEF question, Asked, Typed, TypeOK
<1>6. \/ \E readable \in views[r] :
           response' = [response EXCEPT ![r] =
                          [status |-> "ok",
                           data |-> Atomic!Data(question[r], readable)]]
      \/ response' = [response EXCEPT ![r] = [status |-> "error", data |-> {}]]
  BY <1>1, <1>4
<1>7. UNCHANGED <<tables, spice>>
  OBVIOUS
<1> QED
  BY <1>3, <1>4, <1>5, <1>6, <1>7
  DEF Atomic!Answer, Atomic!tables, tables, spice, question, Asked

LEMMA QueryAnswers ==
    ASSUME Typed, ViewsInv, NEW r \in Requests, Query(r)
    PROVE  Atomic!Answer(r)
<1>1. /\ pc[r] = "query"
      /\ UNCHANGED <<tables, spice, experiment, user, accountId>>
  BY DEF Query
<1>2. PICK a, ids, q : a = accountId[r] /\ ids = hostIDs[r] /\ q = Asked(r)
  OBVIOUS
<1>3. CASE /\ experiment[r] = "pre-filter"
           /\ Respond(r, Ok(packagesByHostIDs(accountId[r], hostIDs[r])))
  <2>1. hostIDs[r] \in views[r]
    BY <1>1, <1>3 DEF ViewsInv
  <2>2. PICK res : res = Ok(packagesByHostIDs(accountId[r], hostIDs[r]))
    OBVIOUS
  <2>3. res = [status |-> "ok", data |-> Atomic!Data(Asked(r), hostIDs[r])]
    BY <1>3, <2>2, DataOfQueries DEF Asked, Ok
  <2> QED
    BY <1>1, <1>3, <2>1, <2>2, <2>3, RespondAnswers
<1>4. CASE /\ experiment[r] = "baseline"
           /\ Respond(r, Ok(packagesByAccount(accountId[r])))
  <2>1. ReadableNow(user[r]) \in views[r]
    BY <1>1 DEF ViewsInv
  <2>2. PICK res : res = Ok(packagesByAccount(accountId[r]))
    OBVIOUS
  <2>3. res = [status |-> "ok",
               data |-> Atomic!Data(Asked(r), ReadableNow(user[r]))]
    BY <1>4, <2>2, DataOfQueries DEF Asked, Ok
  <2> QED
    BY <1>1, <1>4, <2>1, <2>2, <2>3, RespondAnswers
<1>5. CASE Fail(r)
  BY <1>1, <1>5, RespondAnswers DEF Fail
<1> QED
  BY <1>3, <1>4, <1>5 DEF Query

\* A lookup that succeeds changes nothing a client can see.
LEMMA LookupStutters ==
    ASSUME Typed, ViewsInv, NEW r \in Requests, Lookup(r)
    PROVE  Atomic!Answer(r) \/ UNCHANGED Atomic!vars
<1>1. /\ pc[r] = "lookup"
      /\ UNCHANGED <<tables, spice, experiment, user, accountId>>
  BY DEF Lookup
<1>2. CASE Fail(r)
  BY <1>1, <1>2, RespondAnswers DEF Fail
<1>3. CASE Goto(r, "query") /\ UNCHANGED <<response, history>>
  <2>1. question' = question
    <3>1. ASSUME NEW p \in Requests
          PROVE  (question[p])' = question[p]
      BY <1>1, <1>3 DEF question, Asked, Goto, Typed, TypeOK
    <3> QED
      BY <3>1 DEF question
  <2> QED
    BY <1>1, <1>3, <2>1
    DEF Atomic!vars, Atomic!tables, tables, spice, history, question, Asked
<1> QED
  BY <1>2, <1>3 DEF Lookup

\* Others change the content and the permissions, and the requests in progress
\* have seen what there is to see.
LEMMA OthersChange ==
    ASSUME Typed, ViewsInv, UNCHANGED local,
           views' = [r \in Requests |->
                       IF pc[r] = "idle" THEN {}
                       ELSE views[r] \cup {(ReadableNow(user[r]))',
                                           (ReadableThen(user[r]))'}]
    PROVE  Atomic!Change
<1>1. UNCHANGED <<pc, user, accountId, experiment, response>>
  BY DEF local
<1>2. question' = question
  BY <1>1 DEF question, Asked
<1>3. ASSUME NEW r \in Requests
      PROVE  views'[r] = IF question[r] = NoQuestion THEN {}
                         ELSE views[r] \cup Atomic!Servable(question[r])'
  <2>1. CASE pc[r] = "idle"
    BY <2>1 DEF question
  <2>2. CASE pc[r] # "idle"
    <3>1. question[r] = Asked(r) /\ Asked(r) \in Questions
      BY <2>2 DEF question, Asked, Questions, Typed, TypeOK, ViewsInv
    <3>2. PICK q : q = Asked(r)
      OBVIOUS
    <3>3. q.user = user[r] /\ q.user \in Users \cup {NoUser}
      BY <3>2 DEF Asked, Typed, TypeOK
    <3>4. Atomic!Servable(q) = {ReadableNow(q.user), ReadableThen(q.user)}
      BY <3>3, ServableViews
    <3>5. (Atomic!Servable(q) = {ReadableNow(q.user), ReadableThen(q.user)})'
      BY <3>3 DEF Atomic!Servable, ViewOf, ReadableNow, ReadableThen
    <3>6. views'[r] = views[r] \cup (Atomic!Servable(q))'
      BY <1>1, <2>2, <3>3, <3>5 DEF ReadableNow, ReadableThen
    <3>7. (question[r])' = q
      BY <1>2, <3>1, <3>2
    <3>8. question[r] # NoQuestion
      BY <3>1, QuestionsAsk
    <3>9. (Atomic!Servable(question[r]))' = (Atomic!Servable(q))'
      BY <3>7 DEF Atomic!Servable
    <3> QED
      BY <3>6, <3>8, <3>9
  <2> QED
    BY <2>1, <2>2
<1>4. views' = [r \in Requests |->
                  IF question[r] = NoQuestion THEN {}
                  ELSE views[r] \cup Atomic!Servable(question[r])']
  BY <1>3
<1> QED
  BY <1>1, <1>2, <1>4 DEF Atomic!Change, question, Asked

LEMMA SpiceChangeChange ==
    ASSUME Typed, ViewsInv, SpiceChange, revision' = revision
    PROVE  Atomic!Change
<1>1. /\ UNCHANGED local /\ UNCHANGED <<pc, user>>
      /\ views' = [r \in Requests |->
                     IF pc[r] = "idle" THEN {}
                     ELSE views[r] \cup {Readable(spicedb', grants', user[r])}]
  BY DEF SpiceChange, local
<1>2. ASSUME NEW r \in Requests, pc[r] # "idle"
      PROVE  views'[r] = views[r] \cup {(ReadableNow(user[r]))',
                                        (ReadableThen(user[r]))'}
  <2>1. (ReadableThen(user[r]))' \in views[r]
    BY <1>1, <1>2 DEF ReadableThen, ViewsInv
  <2>2. views'[r] = views[r] \cup {(ReadableNow(user[r]))'}
    BY <1>1, <1>2 DEF ReadableNow
  <2> QED
    BY <2>1, <2>2
<1>3. views' = [r \in Requests |->
                  IF pc[r] = "idle" THEN {}
                  ELSE views[r] \cup {(ReadableNow(user[r]))',
                                      (ReadableThen(user[r]))'}]
  BY <1>1, <1>2
<1> QED
  BY <1>1, <1>3, OthersChange

\* A change that adds nothing to what was seen.
LEMMA NothingNew ==
    ASSUME Typed, ViewsInv, UNCHANGED local, UNCHANGED views,
           \A r \in Requests : pc[r] # "idle" =>
             /\ (ReadableNow(user[r]))' \in views[r]
             /\ (ReadableThen(user[r]))' \in views[r]
    PROVE  Atomic!Change
<1>1. ASSUME NEW r \in Requests
      PROVE  views[r] = IF pc[r] = "idle" THEN {}
                        ELSE views[r] \cup {(ReadableNow(user[r]))',
                                            (ReadableThen(user[r]))'}
  BY DEF ViewsInv
<1>2. views' = [r \in Requests |->
                  IF pc[r] = "idle" THEN {}
                  ELSE views[r] \cup {(ReadableNow(user[r]))',
                                      (ReadableThen(user[r]))'}]
  BY <1>1 DEF ViewsInv
<1> QED
  BY <1>2, OthersChange

LEMMA RefreshChange ==
    ASSUME Typed, ViewsInv, Refresh
    PROVE  Atomic!Change
<1>1. /\ UNCHANGED <<spicedb, grants, local, user, views>>
      /\ revision'.rels = spicedb /\ revision'.grants = grants
  BY DEF Refresh, Current, local
<1>2. ASSUME NEW r \in Requests, pc[r] # "idle"
      PROVE  /\ (ReadableNow(user[r]))' \in views[r]
             /\ (ReadableThen(user[r]))' \in views[r]
  BY <1>1, <1>2 DEF ViewsInv, ReadableNow, ReadableThen
<1> QED
  BY <1>1, <1>2, NothingNew

LEMMA TableChangeChange ==
    ASSUME Typed, ViewsInv, TableChange
    PROVE  Atomic!Change
<1>1. UNCHANGED <<spicedb, grants, revision, local, user, views>>
  BY DEF TableChange, spice, local
<1>2. ASSUME NEW r \in Requests, pc[r] # "idle"
      PROVE  /\ (ReadableNow(user[r]))' \in views[r]
             /\ (ReadableThen(user[r]))' \in views[r]
  BY <1>1, <1>2 DEF ViewsInv, ReadableNow, ReadableThen
<1> QED
  BY <1>1, <1>2, NothingNew

LEMMA AtomicNext == Typed /\ ViewsInv /\ [Next]_vars => [Atomic!Next]_(Atomic!vars)
<1> SUFFICES ASSUME Typed, ViewsInv, [Next]_vars
             PROVE  Atomic!Next \/ UNCHANGED Atomic!vars
  BY DEF Atomic!vars
<1>1. CASE \E r \in Requests : Step(r)
  <2>1. PICK r \in Requests : Step(r)
    BY <1>1
  <2>2. CASE Receive(r)
    <3>1. \E q \in Questions : Atomic!Ask(r, q)
      BY <2>2, ReceiveAsks
    <3> QED
      BY <3>1 DEF Atomic!Next, Questions
  <2>3. CASE ReceiveUnknown(r)
    BY <2>3, UnknownIgnored DEF Atomic!Next
  <2>4. CASE Lookup(r)
    BY <2>4, LookupStutters DEF Atomic!Next
  <2>5. CASE Query(r)
    BY <2>5, QueryAnswers DEF Atomic!Next
  <2> QED
    BY <2>1, <2>2, <2>3, <2>4, <2>5 DEF Step
<1>2. CASE Others
  <2>1. CASE Grant \/ PlaceHost \/ SwapHosts
    BY <2>1, SpiceChangeChange DEF Grant, PlaceHost, SwapHosts, Atomic!Next
  <2>2. CASE MoveRows \/ Evaluate \/ SyncHosts
    BY <2>2, TableChangeChange DEF MoveRows, Evaluate, SyncHosts, Atomic!Next
  <2> QED
    BY <1>2, <2>1, <2>2, RefreshChange DEF Others, Atomic!Next
<1>3. CASE UNCHANGED vars
  BY <1>3 DEF vars, tables, spice, local, history, Atomic!vars, Atomic!tables
<1> QED
  BY <1>1, <1>2, <1>3 DEF Next

\* Every request of either experiment is answered from the content at one
\* moment and from one state of the permissions that SpiceDB had during it, or
\* with an error: both handlers together implement AtomicContent, whatever
\* changes before, between and after their two calls.
THEOREM AnswersCorrect == Spec => AnswersAtomically
<1>1. Init => Typed /\ ViewsInv
  BY TypedInit, ViewsInit
<1>2. Typed /\ ViewsInv /\ [Next]_vars => (Typed /\ ViewsInv)'
  BY TypedNext, ViewsNext
<1> QED
  BY <1>1, <1>2, AtomicInit, AtomicNext, PTL
  DEF Spec, AnswersAtomically, Atomic!Spec

-----------------------------------------------------------------------------
(* The two experiments agree.                                              *)

\* What UnchangedInv says of one request.
UnchangedOf(r) ==
    ~changed[r] =>
      /\ pc[r] = "query" /\ experiment[r] = "pre-filter" =>
           hostIDs[r] = ReadableThen(user[r])
      /\ response[r].status = "ok" =>
           /\ pc[r] = "idle" /\ experiment[r] # "unknown"
           /\ response[r].data = AnswerOf(r)

LEMMA UnchangedInit == Init => UnchangedInv
BY DEF Init, UnchangedInv

\* The answer a request gets depends on the stores and its question only.
LEMMA SameAnswer ==
    ASSUME NEW r \in Requests, UNCHANGED <<tables, spice>>,
           experiment'[r] = experiment[r], user'[r] = user[r],
           accountId'[r] = accountId[r]
    PROVE  AnswerOf(r)' = AnswerOf(r) /\ (ReadableThen(user[r]))' = ReadableThen(user[r])
BY DEF AnswerOf, tables, spice, packagesByAccount, packagesByHostIDs,
       AccountRows, ReadableThen

LEMMA UnchangedOther ==
    ASSUME Typed, UnchangedInv, NEW r \in Requests, Step(r),
           NEW q \in Requests \ {r}
    PROVE  UnchangedOf(q)'
<1>1. /\ pc'[q] = pc[q] /\ changed'[q] = changed[q] /\ user'[q] = user[q]
      /\ experiment'[q] = experiment[q] /\ hostIDs'[q] = hostIDs[q]
      /\ accountId'[q] = accountId[q] /\ response'[q] = response[q]
  BY DEF Step, Receive, ReceiveUnknown, Lookup, Query, Fail, Respond, Goto,
         history, UnchangedInv, Typed, TypeOK
<1>2. UNCHANGED <<tables, spice>>
  BY DEF Step, Receive, ReceiveUnknown, Lookup, Query
<1>3. AnswerOf(q)' = AnswerOf(q) /\ (ReadableThen(user[q]))' = ReadableThen(user[q])
  BY <1>1, <1>2, SameAnswer
<1> QED
  BY <1>1, <1>3 DEF UnchangedInv, UnchangedOf

LEMMA UnchangedReceive ==
    ASSUME Typed, UnchangedInv, NEW r \in Requests,
           Receive(r) \/ ReceiveUnknown(r)
    PROVE  UnchangedOf(r)' /\ (changed \in [Requests -> BOOLEAN])'
<1>1. (changed \in [Requests -> BOOLEAN])'
  BY DEF Receive, ReceiveUnknown, history, UnchangedInv
<1>2. response'[r] = NoData
  BY DEF Receive, ReceiveUnknown, Typed, TypeOK
<1>3. response'[r].status # "ok"
  BY <1>2 DEF NoData
<1>4. ~(pc'[r] = "query" /\ experiment'[r] = "pre-filter")
  BY DEF Receive, ReceiveUnknown, Goto, Typed, TypeOK
<1> QED
  BY <1>1, <1>3, <1>4 DEF UnchangedOf

\* A request between its calls has no answer yet if nothing has changed; so a
\* step that ends it decides what it is answered.
LEMMA UnchangedRespond ==
    ASSUME Typed, UnchangedInv, NEW r \in Requests, NEW res, Respond(r, res),
           UNCHANGED <<tables, spice, experiment, user, accountId>>,
           experiment[r] # "unknown",
           ~changed[r] /\ res.status = "ok" => res.data = AnswerOf(r)
    PROVE  UnchangedOf(r)' /\ (changed \in [Requests -> BOOLEAN])'
<1>1. /\ pc'[r] = "idle" /\ response'[r] = res /\ changed' = changed
      /\ experiment'[r] = experiment[r]
  BY DEF Respond, Goto, Typed, TypeOK
<1>2. AnswerOf(r)' = AnswerOf(r)
  BY SameAnswer
<1> QED
  BY <1>1, <1>2 DEF UnchangedOf, UnchangedInv

LEMMA UnchangedLookup ==
    ASSUME Typed, UnchangedInv, NEW r \in Requests, Lookup(r)
    PROVE  UnchangedOf(r)' /\ (changed \in [Requests -> BOOLEAN])'
<1>1. /\ pc[r] = "lookup" /\ experiment[r] = "pre-filter"
      /\ UNCHANGED <<tables, spice, experiment, user, accountId>>
  BY DEF Lookup, Typed
<1>2. CASE Fail(r)
  BY <1>1, <1>2, UnchangedRespond DEF Fail
<1>3. CASE /\ hostIDs' = [hostIDs EXCEPT ![r] = ReadableThen(user[r])]
           /\ UNCHANGED <<response, history>>
  <2>1. hostIDs'[r] = ReadableThen(user[r])
    BY <1>3 DEF Typed, TypeOK
  <2>2. (ReadableThen(user[r]))' = ReadableThen(user[r])
    BY <1>1, SameAnswer
  <2>3. ~changed[r] => response[r].status # "ok"
    BY <1>1 DEF UnchangedInv
  <2> QED
    BY <1>3, <2>1, <2>2, <2>3 DEF UnchangedOf, UnchangedInv, history
<1> QED
  BY <1>2, <1>3 DEF Lookup

LEMMA UnchangedQuery ==
    ASSUME Typed, ViewsInv, UnchangedInv, NEW r \in Requests, Query(r)
    PROVE  UnchangedOf(r)' /\ (changed \in [Requests -> BOOLEAN])'
<1>1. /\ pc[r] = "query" /\ experiment[r] # "unknown"
      /\ UNCHANGED <<tables, spice, experiment, user, accountId>>
  BY DEF Query, ViewsInv
<1>2. CASE /\ experiment[r] = "pre-filter"
           /\ Respond(r, Ok(packagesByHostIDs(accountId[r], hostIDs[r])))
  <2>1. PICK res : res = Ok(packagesByHostIDs(accountId[r], hostIDs[r]))
    OBVIOUS
  <2>2. ~changed[r] => hostIDs[r] = ReadableThen(user[r])
    BY <1>1, <1>2 DEF UnchangedInv
  <2>3. ~changed[r] => res.data = AnswerOf(r)
    BY <1>2, <2>1, <2>2 DEF Ok, AnswerOf
  <2> QED
    BY <1>1, <1>2, <2>1, <2>3, UnchangedRespond
<1>3. CASE /\ experiment[r] = "baseline"
           /\ Respond(r, Ok(packagesByAccount(accountId[r])))
  <2>1. PICK res : res = Ok(packagesByAccount(accountId[r]))
    OBVIOUS
  <2>2. res.data = AnswerOf(r)
    BY <1>3, <2>1 DEF Ok, AnswerOf
  <2> QED
    BY <1>1, <1>3, <2>1, <2>2, UnchangedRespond
<1>4. CASE Fail(r)
  BY <1>1, <1>4, UnchangedRespond DEF Fail
<1> QED
  BY <1>2, <1>3, <1>4 DEF Query

LEMMA UnchangedNext ==
    Typed /\ ViewsInv /\ UnchangedInv /\ [Next]_vars => UnchangedInv'
<1> SUFFICES ASSUME Typed, ViewsInv, UnchangedInv, [Next]_vars
             PROVE  UnchangedInv'
  OBVIOUS
<1>1. CASE \E r \in Requests : Step(r)
  <2>1. PICK r \in Requests : Step(r)
    BY <1>1
  <2>2. UnchangedOf(r)' /\ (changed \in [Requests -> BOOLEAN])'
    BY <2>1, UnchangedReceive, UnchangedLookup, UnchangedQuery DEF Step
  <2>3. (\A q \in Requests : UnchangedOf(q))'
    BY <2>1, <2>2, UnchangedOther
  <2> QED
    BY <2>2, <2>3 DEF UnchangedInv, UnchangedOf
<1>2. CASE Others
  <2>1. changed' = [r \in Requests |-> TRUE]
    BY <1>2 DEF Others, Grant, PlaceHost, SwapHosts, Refresh, MoveRows,
                Evaluate, SyncHosts, SpiceChange, TableChange
  <2> QED
    BY <2>1 DEF UnchangedInv
<1>3. CASE UNCHANGED vars
  <2>1. UNCHANGED <<tables, spice, pc, experiment, user, accountId, hostIDs,
                    response, changed>>
    BY <1>3 DEF vars, local, history
  <2>2. \A r \in Requests :
          AnswerOf(r)' = AnswerOf(r) /\ (ReadableThen(user[r]))' = ReadableThen(user[r])
    BY <2>1, SameAnswer
  <2> QED
    BY <2>1, <2>2 DEF UnchangedInv
<1> QED
  BY <1>1, <1>2, <1>3 DEF Next

\* On the premises of the comment, the rows the one query selects are those
\* the other selects.
LEMMA SameRowsSelected ==
    ASSUME NEW accID, NEW u, AllUngrouped(accID), FullView(u, accID)
    PROVE  packagesByHostIDs(accID, ReadableNow(u)) = packagesByAccount(accID)
<1> DEFINE rows == AccountRows(accID)
           readable == ReadableNow(u)
<1>1. ASSUME NEW row \in rows
      PROVE  groups[row[1].InventoryID] = "[]" /\ row[1].InventoryID \in readable
  <2>1. /\ row[1] \in system_platform /\ row[1].RhAccountID = accID
        /\ row[1].InventoryID \in hosts
    BY DEF AccountRows, PackageJoin
  <2> QED
    BY <2>1 DEF AllUngrouped, FullView
<1> HIDE DEF rows, readable
<1>2. { row \in rows : row[1].InventoryID \in readable }
        = { row \in rows : groups[row[1].InventoryID] = "[]" }
  BY <1>1
<1> QED
  BY <1>2 DEF packagesByHostIDs, packagesByAccount, rows, readable

LEMMA UnchangedAgree == Typed /\ UnchangedInv => ExperimentsAgree
<1> SUFFICES ASSUME Typed, UnchangedInv, NEW accID \in Accounts, AllUngrouped(accID),
                    NEW r \in Requests, response[r].status = "ok", ~changed[r],
                    accountId[r] = accID, FullView(user[r], accID)
             PROVE  response[r].data = OtherAnswer(r)
  BY DEF ExperimentsAgree, SameAnswers
<1>1. /\ experiment[r] \in {"pre-filter", "baseline"}
      /\ response[r].data = AnswerOf(r)
  BY DEF Typed, TypeOK, UnchangedInv
<1>2. ReadableThen(user[r]) = ReadableNow(user[r])
  BY DEF FullView, Current, ReadableThen, ReadableNow
<1>3. packagesByHostIDs(accID, ReadableNow(user[r])) = packagesByAccount(accID)
  BY SameRowsSelected
<1> QED
  BY <1>1, <1>2, <1>3 DEF AnswerOf, OtherAnswer

\* An answer since which nothing has changed is the one the other experiment
\* gives, on the premises ExperimentsAgree names: the claim the code makes in
\* favour of the baseline, with the provision it needs, for any tables,
\* permissions and number of requests.
THEOREM AgreeCorrect == Spec => []ExperimentsAgree
<1>1. Init => Typed /\ ViewsInv /\ UnchangedInv
  BY TypedInit, ViewsInit, UnchangedInit
<1>2. Typed /\ ViewsInv /\ UnchangedInv /\ [Next]_vars
        => (Typed /\ ViewsInv /\ UnchangedInv)'
  BY TypedNext, ViewsNext, UnchangedNext
<1> QED
  BY <1>1, <1>2, UnchangedAgree, PTL DEF Spec

-----------------------------------------------------------------------------
(* The variants of the query: a join with a list of ids is WHERE ... IN    *)
(* its ids, but for its repetitions.                                       *)

\* JOIN and WHERE ... IN of some rows with a list of ids.
JoinRows(R, ids) ==
    { t \in { <<row[1], row[2], i>> : row \in R, i \in DOMAIN ids } :
        t[1].InventoryID = ids[t[3]] }

InRows(R, ids) == { row \in R : row[1].InventoryID \in ToSet(ids) }

GroupRows(R, g) == { row \in R : GroupOf(row) = g }

\* The rows of all accounts are pairs of a system and a package.
LEMMA AllRowsPairs ==
    ASSUME Typed
    PROVE  /\ IsFiniteSet(AllRows)
           /\ \A row \in AllRows : row = <<row[1], row[2]>>
           /\ \A row \in AllRows : row[1] \in system_platform
           /\ \A a \in Accounts :
                AccountRows(a) = { row \in AllRows : row[1].RhAccountID = a }
<1>1. AllRows \in SUBSET (system_platform \X system_package)
  BY DEF AllRows, AccountRows, PackageJoin
<1>2. IsFiniteSet(system_platform \X system_package)
  BY FS_Product DEF Typed, TablesFinite
<1>3. IsFiniteSet(AllRows)
  BY <1>1, <1>2, FS_Subset
<1>4. ASSUME NEW a \in Accounts
      PROVE  AccountRows(a) = { row \in AllRows : row[1].RhAccountID = a }
  BY DEF AllRows, AccountRows, PackageJoin
<1>5. \A row \in AllRows : row = <<row[1], row[2]>> /\ row[1] \in system_platform
  <2>1. \A row \in system_platform \X system_package :
          row = <<row[1], row[2]>> /\ row[1] \in system_platform
    OBVIOUS
  <2> QED
    BY <1>1, <2>1
<1> QED
  BY <1>3, <1>4, <1>5

\* A list that repeats no id selects each row once: the join has as many rows
\* as WHERE ... IN.
LEMMA JoinCardinality ==
    ASSUME NEW R, IsFiniteSet(R), \A row \in R : row = <<row[1], row[2]>>,
           NEW ids, IsInjective(ids)
    PROVE  /\ IsFiniteSet(JoinRows(R, ids))
           /\ Cardinality(JoinRows(R, ids)) = Cardinality(InRows(R, ids))
<1> DEFINE J == JoinRows(R, ids)
           L == InRows(R, ids)
           f == [t \in J |-> <<t[1], t[2]>>]
<1>1. IsFiniteSet(L)
  <2>1. L \in SUBSET R
    BY DEF InRows
  <2> QED
    BY <2>1, FS_Subset
<1>2. ASSUME NEW t \in J
      PROVE  /\ f[t] \in L
             /\ t = <<f[t][1], f[t][2], t[3]>>
             /\ t[3] \in DOMAIN ids /\ ids[t[3]] = f[t][1].InventoryID
  <2>1. PICK row \in R, i \in DOMAIN ids :
          t = <<row[1], row[2], i>> /\ t[1].InventoryID = ids[t[3]]
    BY DEF JoinRows
  <2>2. f[t] = row
    BY <2>1
  <2>3. ids[i] \in ToSet(ids)
    BY DEF ToSet
  <2>4. row \in L
    BY <2>1, <2>3 DEF InRows
  <2> QED
    BY <2>1, <2>2, <2>4
<1>3. ASSUME NEW row \in L
      PROVE  \E t \in J : f[t] = row
  <2>1. PICK i \in DOMAIN ids : row[1].InventoryID = ids[i] /\ row \in R
    BY DEF InRows, ToSet
  <2>2. PICK t : t = <<row[1], row[2], i>>
    OBVIOUS
  <2>3. t[1] = row[1] /\ t[2] = row[2] /\ t[3] = i
    BY <2>2
  <2>4. t \in J
    BY <2>1, <2>2, <2>3 DEF JoinRows
  <2>5. f[t] = row
    BY <2>1, <2>3, <2>4
  <2> QED
    BY <2>4, <2>5
<1>4. f \in [J -> L]
  BY <1>2
<1> HIDE DEF f, J, L
<1>5. ASSUME NEW t \in J, NEW s \in J, f[t] = f[s]
      PROVE  t = s
  <2>1. ids[t[3]] = ids[s[3]] /\ t[3] \in DOMAIN ids /\ s[3] \in DOMAIN ids
    BY <1>2, <1>5
  <2>2. t[3] = s[3]
    BY <2>1 DEF IsInjective
  <2> QED
    BY <1>2, <1>5, <2>2
<1>6. f \in Injection(J, L)
  BY <1>4, <1>5 DEF Injection, IsInjective
<1>7. f \in Surjection(J, L)
  BY <1>3, <1>4 DEF Surjection
<1>8. IsFiniteSet(J) /\ Cardinality(J) = Cardinality(L)
  BY <1>1, <1>6, <1>7, FS_Injection
<1> QED
  BY <1>8 DEF J, L

\* Grouping and filtering look at the system and the package only.
LEMMA JoinGroups ==
    ASSUME NEW R, NEW ids
    PROVE  /\ \A g : GroupRows(JoinRows(R, ids), g) = JoinRows(GroupRows(R, g), ids)
           /\ \A st : WithStatus(JoinRows(R, ids), st)
                        = JoinRows(WithStatus(R, st), ids)
           /\ \A g : GroupRows(InRows(R, ids), g) = InRows(GroupRows(R, g), ids)
           /\ \A st : WithStatus(InRows(R, ids), st)
                        = InRows(WithStatus(R, st), ids)
           /\ { GroupOf(t) : t \in JoinRows(R, ids) }
                = { GroupOf(row) : row \in InRows(R, ids) }
<1>1. ASSUME NEW row, NEW i, NEW t, t = <<row[1], row[2], i>>
      PROVE  /\ t[1] = row[1] /\ t[2] = row[2] /\ t[3] = i
             /\ GroupOf(t) = GroupOf(row)
  BY <1>1 DEF GroupOf, NameOfRow
<1>2. ASSUME NEW g
      PROVE  GroupRows(JoinRows(R, ids), g) = JoinRows(GroupRows(R, g), ids)
  <2>1. ASSUME NEW t \in GroupRows(JoinRows(R, ids), g)
        PROVE  t \in JoinRows(GroupRows(R, g), ids)
    BY <1>1 DEF GroupRows, JoinRows
  <2>2. ASSUME NEW t \in JoinRows(GroupRows(R, g), ids)
        PROVE  t \in GroupRows(JoinRows(R, ids), g)
    BY <1>1 DEF GroupRows, JoinRows
  <2> QED
    BY <2>1, <2>2
<1>3. ASSUME NEW st
      PROVE  WithStatus(JoinRows(R, ids), st) = JoinRows(WithStatus(R, st), ids)
  <2>1. ASSUME NEW t \in WithStatus(JoinRows(R, ids), st)
        PROVE  t \in JoinRows(WithStatus(R, st), ids)
    BY <1>1 DEF WithStatus, JoinRows
  <2>2. ASSUME NEW t \in JoinRows(WithStatus(R, st), ids)
        PROVE  t \in WithStatus(JoinRows(R, ids), st)
    BY <1>1 DEF WithStatus, JoinRows
  <2> QED
    BY <2>1, <2>2
<1>4. /\ \A g : GroupRows(InRows(R, ids), g) = InRows(GroupRows(R, g), ids)
      /\ \A st : WithStatus(InRows(R, ids), st) = InRows(WithStatus(R, st), ids)
  BY DEF GroupRows, WithStatus, InRows
<1>5. { GroupOf(t) : t \in JoinRows(R, ids) }
        = { GroupOf(row) : row \in InRows(R, ids) }
  <2>1. ASSUME NEW t \in JoinRows(R, ids)
        PROVE  \E row \in InRows(R, ids) : GroupOf(row) = GroupOf(t)
    BY <1>1 DEF JoinRows, InRows, ToSet
  <2>2. ASSUME NEW row \in InRows(R, ids)
        PROVE  \E t \in JoinRows(R, ids) : GroupOf(row) = GroupOf(t)
    <3>1. PICK i \in DOMAIN ids : row[1].InventoryID = ids[i] /\ row \in R
      BY DEF InRows, ToSet
    <3>2. PICK t : t = <<row[1], row[2], i>>
      OBVIOUS
    <3>3. t \in JoinRows(R, ids)
      BY <1>1, <3>1, <3>2 DEF JoinRows
    <3> QED
      BY <1>1, <3>2, <3>3
  <2> QED
    BY <2>1, <2>2
<1> QED
  BY <1>2, <1>3, <1>4, <1>5

\* A group of the join counts what the group of WHERE ... IN counts.
LEMMA CountedGroup ==
    ASSUME NEW rows
    PROVE  /\ DOMAIN Counted(rows) = { GroupOf(row) : row \in rows }
           /\ \A g \in DOMAIN Counted(rows) :
                Counted(rows)[g] = CountsOf(g[1], g[2], GroupRows(rows, g))
           /\ Counted(rows) = [g \in DOMAIN Counted(rows) |-> Counted(rows)[g]]
BY DEF Counted, GroupRows

\* Grouping and filtering leave finite sets of pairs.
LEMMA GroupFinite ==
    ASSUME Typed, NEW g
    PROVE  /\ IsFiniteSet(GroupRows(AllRows, g))
           /\ \A row \in GroupRows(AllRows, g) : row = <<row[1], row[2]>>
           /\ \A st :
                /\ IsFiniteSet(WithStatus(GroupRows(AllRows, g), st))
                /\ \A row \in WithStatus(GroupRows(AllRows, g), st) :
                     row = <<row[1], row[2]>>
<1>1. GroupRows(AllRows, g) \in SUBSET AllRows
  BY DEF GroupRows
<1>2. \A st : WithStatus(GroupRows(AllRows, g), st) \in SUBSET AllRows
  BY <1>1 DEF WithStatus
<1> QED
  BY <1>1, <1>2, AllRowsPairs, FS_Subset

\* The two joins with a list that repeats no id count what IN counts.
LEMMA JoinCounts ==
    ASSUME Typed, NEW ids, IsInjective(ids)
    PROVE  Counted(JoinList(ids)) = Counted(InList(ids))
<1> DEFINE J == JoinRows(AllRows, ids)
           L == InRows(AllRows, ids)
<1>1. JoinList(ids) = J /\ InList(ids) = L
  BY DEF JoinList, Selected, InList, JoinRows, InRows
<1>2. DOMAIN Counted(J) = DOMAIN Counted(L)
  BY CountedGroup, JoinGroups
<1>3. ASSUME NEW g
      PROVE  CountsOf(g[1], g[2], GroupRows(J, g))
               = CountsOf(g[1], g[2], GroupRows(L, g))
  <2> DEFINE G == GroupRows(AllRows, g)
  <2>1. GroupRows(J, g) = JoinRows(G, ids) /\ GroupRows(L, g) = InRows(G, ids)
    BY JoinGroups
  <2>2. Cardinality(GroupRows(J, g)) = Cardinality(GroupRows(L, g))
    BY <2>1, GroupFinite, JoinCardinality
  <2>3. ASSUME NEW st
        PROVE  Cardinality(WithStatus(GroupRows(J, g), st))
                 = Cardinality(WithStatus(GroupRows(L, g), st))
    <3>1. /\ WithStatus(GroupRows(J, g), st) = JoinRows(WithStatus(G, st), ids)
          /\ WithStatus(GroupRows(L, g), st) = InRows(WithStatus(G, st), ids)
      BY <2>1, JoinGroups
    <3> QED
      BY <3>1, GroupFinite, JoinCardinality
  <2> QED
    BY <2>2, <2>3 DEF CountsOf
<1>4. ASSUME NEW g \in DOMAIN Counted(L)
      PROVE  Counted(J)[g] = Counted(L)[g]
  <2>1. Counted(L)[g] = CountsOf(g[1], g[2], GroupRows(L, g))
    BY CountedGroup
  <2>2. Counted(J)[g] = CountsOf(g[1], g[2], GroupRows(J, g))
    BY <1>2, CountedGroup
  <2> QED
    BY <1>3, <2>1, <2>2
<1>5. /\ Counted(J) = [g \in DOMAIN Counted(J) |-> Counted(J)[g]]
      /\ Counted(L) = [g \in DOMAIN Counted(L) |-> Counted(L)[g]]
  BY CountedGroup
<1> HIDE DEF J, L
<1>6. Counted(J) = Counted(L)
  BY <1>2, <1>4, <1>5, Zenon
<1> QED
  BY <1>1, <1>6

\* The groups of an account are the rows packagesByHostIDs returns for it.
LEMMA AccountCounts ==
    ASSUME Typed, NEW a \in Accounts, NEW ids
    PROVE  OfAccount(Counted(InList(ids)), a) = packagesByHostIDs(a, ToSet(ids))
<1> DEFINE L == InRows(AllRows, ids)
           R == { row \in AccountRows(a) : row[1].InventoryID \in ToSet(ids) }
<1>1. InList(ids) = L
  BY DEF InList, InRows
<1>2. R = { row \in L : row[1].RhAccountID = a }
  BY AllRowsPairs DEF InRows
<1>3. ASSUME NEW n
      PROVE  GroupRows(L, <<a, n>>) = InGroup(R, n)
  BY <1>2 DEF GroupRows, GroupOf, InGroup
<1>4. packagesByHostIDs(a, ToSet(ids)) =
        { CountsOf(a, n, InGroup(R, n)) : n \in { NameOfRow(row) : row \in R } }
  BY DEF packagesByHostIDs, GroupCounts
<1>5. OfAccount(Counted(L), a) =
        { CountsOf(g[1], g[2], GroupRows(L, g)) :
            g \in { k \in { GroupOf(row) : row \in L } : k[1] = a } }
  BY CountedGroup DEF OfAccount
<1> HIDE DEF L, R
<1>6. ASSUME NEW g, g \in { k \in { GroupOf(row) : row \in L } : k[1] = a }
      PROVE  /\ g[2] \in { NameOfRow(row) : row \in R }
             /\ CountsOf(g[1], g[2], GroupRows(L, g))
                  = CountsOf(a, g[2], InGroup(R, g[2]))
  <2>1. PICK row \in L : g = <<row[1].RhAccountID, NameOfRow(row)>> /\ g[1] = a
    BY <1>6 DEF GroupOf
  <2>2. row \in R /\ g[2] = NameOfRow(row) /\ g = <<a, g[2]>>
    BY <1>2, <2>1
  <2> QED
    BY <1>3, <2>1, <2>2
<1>7. ASSUME NEW n \in { NameOfRow(row) : row \in R }
      PROVE  \E g \in { k \in { GroupOf(row) : row \in L } : k[1] = a } :
               CountsOf(g[1], g[2], GroupRows(L, g)) = CountsOf(a, n, InGroup(R, n))
  <2>1. PICK row \in R : n = NameOfRow(row)
    OBVIOUS
  <2>2. row \in L /\ GroupOf(row) = <<a, n>>
    BY <1>2, <2>1 DEF GroupOf
  <2>3. PICK g : g = <<a, n>>
    OBVIOUS
  <2>4. g[1] = a /\ g[2] = n
    BY <2>3
  <2> QED
    BY <1>3, <2>2, <2>3, <2>4
<1> QED
  BY <1>1, <1>4, <1>5, <1>6, <1>7

\* What a variant leaves out of a row, it leaves out of every row.
LEMMA SameRowsHold ==
    ASSUME Typed, NEW a \in Accounts, NEW ids, IsInjective(ids)
    PROVE  SameRows(Results(ids), a, ids)
<1> DEFINE rows == packagesByHostIDs(a, ToSet(ids))
           in == Counted(InList(ids))
<1>1. OfAccount(in, a) = rows
  BY AccountCounts
<1>2. Counted(JoinList(ids)) = in
  BY JoinCounts
<1> HIDE DEF rows, in
<1>3. OfAccount(packagesByHostIDsTempTable(ids), a) = rows
  BY <1>1, <1>2 DEF packagesByHostIDsTempTable, TempHostIDs
<1>4. OfAccount(packagesByHostCTEinsteadOfTempTable(ids), a) = rows
  BY <1>1, <1>2 DEF packagesByHostCTEinsteadOfTempTable, HostIDCTE
<1>5. OfAccount(packagesByHostIDsCTE(ids), a) = Unnamed(rows)
  <2>1. packagesByHostIDsCTE(ids) =
          [g \in DOMAIN in |-> [in[g] EXCEPT !.PkgNameID = NoName]]
    BY DEF packagesByHostIDsCTE, in
  <2>2. OfAccount(packagesByHostIDsCTE(ids), a) =
          { [in[g] EXCEPT !.PkgNameID = NoName] :
              g \in { k \in DOMAIN in : k[1] = a } }
    BY <2>1 DEF OfAccount
  <2> QED
    BY <1>1, <2>2 DEF Unnamed, OfAccount
<1>6. OfAccount(packagesByHostIDsNoCounts(ids), a) = Uncounted(rows)
  <2>1. packagesByHostIDsNoCounts(ids) =
          [g \in DOMAIN in |->
             [in[g] EXCEPT !.SysInstalled = 0, !.SysInstallable = 0,
                           !.SysApplicable = 0]]
    BY DEF packagesByHostIDsNoCounts, in
  <2>2. OfAccount(packagesByHostIDsNoCounts(ids), a) =
          { [in[g] EXCEPT !.SysInstalled = 0, !.SysInstallable = 0,
                          !.SysApplicable = 0] :
              g \in { k \in DOMAIN in : k[1] = a } }
    BY <2>1 DEF OfAccount
  <2> QED
    BY <1>1, <2>2 DEF Uncounted, OfAccount
<1> QED
  BY <1>3, <1>4, <1>5, <1>6 DEF SameRows, Results, rows

\* The groups all four variants return, and their rows.
LEMMA VariantDomains ==
    ASSUME NEW ids
    PROVE  /\ DOMAIN Results(ids) = {"CTE", "TempTable", "HostCTE", "NoCounts"}
           /\ \A variant \in DOMAIN Results(ids) :
                DOMAIN Results(ids)[variant]
                  = { GroupOf(row) : row \in InRows(AllRows, ids) }
<1>1. /\ InList(ids) = InRows(AllRows, ids)
      /\ JoinList(ids) = JoinRows(AllRows, ids)
  BY DEF InList, InRows, JoinList, Selected, JoinRows
<1>2. /\ DOMAIN Counted(InList(ids)) = { GroupOf(row) : row \in InRows(AllRows, ids) }
      /\ DOMAIN Counted(JoinList(ids)) = { GroupOf(row) : row \in InRows(AllRows, ids) }
  BY <1>1, CountedGroup, JoinGroups
<1>3. /\ DOMAIN packagesByHostIDsCTE(ids) = DOMAIN Counted(InList(ids))
      /\ DOMAIN packagesByHostIDsNoCounts(ids) = DOMAIN Counted(InList(ids))
      /\ packagesByHostIDsTempTable(ids) = Counted(JoinList(ids))
      /\ packagesByHostCTEinsteadOfTempTable(ids) = Counted(JoinList(ids))
  BY DEF packagesByHostIDsCTE, packagesByHostIDsNoCounts,
         packagesByHostIDsTempTable, packagesByHostCTEinsteadOfTempTable,
         TempHostIDs, HostIDCTE
<1> QED
  BY <1>2, <1>3 DEF Results

\* A group is an account and a name of a package one of the listed hosts has.
LEMMA GroupHasPackage ==
    ASSUME Typed, NEW ids
    PROVE  { GroupOf(row) : row \in InRows(AllRows, ids) }
             = { g \in Accounts \X Names : HasPackage(ids, g[1], g[2]) }
<1> DEFINE G == { GroupOf(row) : row \in InRows(AllRows, ids) }
           H == { g \in Accounts \X Names : HasPackage(ids, g[1], g[2]) }
<1>1. ASSUME NEW row \in InRows(AllRows, ids)
      PROVE  GroupOf(row) \in H
  <2>1. PICK acc \in Accounts : row \in AccountRows(acc)
    BY DEF InRows, AllRows
  <2>2. PICK sp \in system_platform, spkg \in system_package :
          /\ row = <<sp, spkg>> /\ sp.ID = spkg.SystemID
          /\ sp.RhAccountID = spkg.RhAccountID
          /\ sp.InventoryID \in hosts /\ sp.RhAccountID = acc
    BY <2>1 DEF AccountRows, PackageJoin
  <2>3. row[1] = sp /\ row[2] = spkg /\ sp.InventoryID \in ToSet(ids)
    BY <2>2 DEF InRows
  <2>4. NameOf[spkg.PackageID] \in Names
    <3>1. spkg.PackageID \in Packages
      BY DEF Typed, TypeOK, SystemPackage
    <3> QED
      BY <3>1, NameOfAssumption
  <2>5. HasPackage(ids, acc, NameOf[spkg.PackageID])
    BY <2>2, <2>3 DEF HasPackage
  <2>6. GroupOf(row) = <<acc, NameOf[spkg.PackageID]>>
    BY <2>2, <2>3 DEF GroupOf, NameOfRow
  <2> QED
    BY <2>4, <2>5, <2>6
<1>2. ASSUME NEW acc \in Accounts, NEW n \in Names, HasPackage(ids, acc, n)
      PROVE  <<acc, n>> \in G
  <2>1. PICK sp \in system_platform, spkg \in system_package :
          /\ sp.InventoryID \in ToSet(ids) \cap hosts
          /\ sp.RhAccountID = acc /\ spkg.RhAccountID = acc
          /\ spkg.SystemID = sp.ID /\ NameOf[spkg.PackageID] = n
    BY <1>2 DEF HasPackage
  <2>2. PICK row : row = <<sp, spkg>>
    OBVIOUS
  <2>3. row[1] = sp /\ row[2] = spkg
    BY <2>2
  <2>4. row \in AccountRows(acc)
    BY <2>1, <2>2, <2>3 DEF AccountRows, PackageJoin
  <2>5. row \in InRows(AllRows, ids)
    BY <2>1, <2>3, <2>4 DEF AllRows, InRows
  <2>6. GroupOf(row) = <<acc, n>>
    BY <2>1, <2>3 DEF GroupOf, NameOfRow
  <2> QED
    BY <2>5, <2>6
<1> QED
  BY <1>1, <1>2

\* So all four return the same groups of other accounts: those of the packages
\* the listed hosts have there.
LEMMA OtherAccountsHold ==
    ASSUME Typed, NEW a \in Accounts, NEW ids
    PROVE  OtherAccounts(Results(ids), a, ids)
<1>1. ASSUME NEW variant \in DOMAIN Results(ids)
      PROVE  Foreign(Results(ids)[variant], a)
               = { g \in (Accounts \ {a}) \X Names : HasPackage(ids, g[1], g[2]) }
  <2>1. DOMAIN Results(ids)[variant]
          = { g \in Accounts \X Names : HasPackage(ids, g[1], g[2]) }
    BY VariantDomains, GroupHasPackage
  <2>2. \A g : g \in (Accounts \ {a}) \X Names
                 <=> g \in Accounts \X Names /\ g[1] # a
    OBVIOUS
  <2> QED
    BY <2>1, <2>2 DEF Foreign
<1> QED
  BY <1>1 DEF OtherAccounts

\* A list written twice joins every row twice.
LEMMA TwiceCardinality ==
    ASSUME NEW R, IsFiniteSet(R), \A row \in R : row = <<row[1], row[2]>>,
           NEW n \in Nat, NEW S, NEW ids \in [1..n -> S], IsInjective(ids)
    PROVE  /\ Cardinality(JoinRows(R, ids \o ids))
                = 2 * Cardinality(JoinRows(R, ids))
           /\ InRows(R, ids \o ids) = InRows(R, ids)
<1> DEFINE twice == ids \o ids
           again == [i \in (n + 1)..(2 * n) |-> ids[i - n]]
<1>1. /\ DOMAIN ids = 1..n /\ DOMAIN again = (n + 1)..(2 * n)
      /\ DOMAIN twice = 1..(2 * n)
      /\ \A i \in 1..n : twice[i] = ids[i]
      /\ \A i \in (n + 1)..(2 * n) : twice[i] = again[i]
      /\ \A i \in (n + 1)..(2 * n) : again[i] = ids[i - n] /\ i - n \in 1..n
      /\ \A i \in 1..n : ids[i] = again[i + n] /\ i + n \in (n + 1)..(2 * n)
  <2>1. ids \in Seq(S) /\ Len(ids) = n
    OBVIOUS
  <2> QED
    BY <2>1
<1> HIDE DEF twice, again
<1>2. IsInjective(again)
  BY <1>1 DEF IsInjective
<1>3. ToSet(again) = ToSet(ids) /\ ToSet(twice) = ToSet(ids)
  <2>1. ToSet(again) = ToSet(ids)
    BY <1>1 DEF ToSet
  <2>2. ToSet(twice) = ToSet(ids)
    <3>1. \A i \in 1..(2 * n) : i \in 1..n \/ i \in (n + 1)..(2 * n)
      OBVIOUS
    <3>2. 1..n \in SUBSET (1..(2 * n))
      OBVIOUS
    <3> QED
      BY <1>1, <3>1, <3>2 DEF ToSet
  <2> QED
    BY <2>1, <2>2
<1>4. InRows(R, again) = InRows(R, ids) /\ InRows(R, twice) = InRows(R, ids)
  BY <1>3 DEF InRows
<1>5. JoinRows(R, twice) = JoinRows(R, ids) \cup JoinRows(R, again)
  <2>1. ASSUME NEW row \in R, NEW i, NEW t, t = <<row[1], row[2], i>>
        PROVE  /\ t \in JoinRows(R, twice) <=>
                    i \in DOMAIN twice /\ row[1].InventoryID = twice[i]
               /\ t \in JoinRows(R, ids) <=>
                    i \in DOMAIN ids /\ row[1].InventoryID = ids[i]
               /\ t \in JoinRows(R, again) <=>
                    i \in DOMAIN again /\ row[1].InventoryID = again[i]
    BY <2>1 DEF JoinRows
  <2>2. \A i : i \in DOMAIN twice <=> i \in DOMAIN ids \/ i \in DOMAIN again
    BY <1>1
  <2>3. ASSUME NEW ds,
               NEW t \in JoinRows(R, ds)
        PROVE  \E row \in R : \E i : t = <<row[1], row[2], i>>
    BY DEF JoinRows
  <2>4. ASSUME NEW row \in R, NEW i, NEW t, t = <<row[1], row[2], i>>
        PROVE  t \in JoinRows(R, twice) <=>
                 t \in JoinRows(R, ids) \/ t \in JoinRows(R, again)
    BY <1>1, <2>1, <2>2, <2>4
  <2> QED
    BY <2>3, <2>4
<1>6. JoinRows(R, ids) \cap JoinRows(R, again) = {}
  <2>1. ASSUME NEW ds, NEW t \in JoinRows(R, ds)
        PROVE  t[3] \in DOMAIN ds
    BY DEF JoinRows
  <2>2. (1..n) \cap ((n + 1)..(2 * n)) = {}
    OBVIOUS
  <2> QED
    BY <1>1, <2>1, <2>2
<1>7. /\ IsFiniteSet(JoinRows(R, ids)) /\ IsFiniteSet(JoinRows(R, again))
      /\ Cardinality(JoinRows(R, again)) = Cardinality(JoinRows(R, ids))
  BY <1>2, <1>4, JoinCardinality
<1>8. Cardinality(JoinRows(R, ids)) \in Nat
  BY <1>7, FS_CardinalityType
<1>9. Cardinality(JoinRows(R, twice)) =
        Cardinality(JoinRows(R, ids)) + Cardinality(JoinRows(R, again)) - 0
  BY <1>5, <1>6, <1>7, FS_Union, FS_EmptySet
<1> QED
  BY <1>4, <1>7, <1>8, <1>9 DEF twice

\* A row of statistics, and the row with its three counts doubled.
RowOf(a, n, i, j, k) ==
    [AccID |-> a, PkgNameID |-> n, SysInstalled |-> i, SysInstallable |-> j,
     SysApplicable |-> k]

LEMMA TwiceRow ==
    ASSUME NEW a, NEW n, NEW i, NEW j, NEW k
    PROVE  Twice(RowOf(a, n, i, j, k)) = RowOf(a, n, 2 * i, 2 * j, 2 * k)
<1> DEFINE c == RowOf(a, n, i, j, k)
<1>1. c.SysInstalled = i /\ c.SysInstallable = j /\ c.SysApplicable = k
  BY DEF RowOf
<1>2. [c EXCEPT !.SysInstalled = 2 * i] = RowOf(a, n, 2 * i, j, k)
  BY DEF RowOf
<1>3. [RowOf(a, n, 2 * i, j, k) EXCEPT !.SysInstallable = 2 * j]
        = RowOf(a, n, 2 * i, 2 * j, k)
  BY DEF RowOf
<1>4. [RowOf(a, n, 2 * i, 2 * j, k) EXCEPT !.SysApplicable = 2 * k]
        = RowOf(a, n, 2 * i, 2 * j, 2 * k)
  BY DEF RowOf
<1>5. [c EXCEPT !.SysInstalled = 2 * i, !.SysInstallable = 2 * j,
                !.SysApplicable = 2 * k]
        = [[[c EXCEPT !.SysInstalled = 2 * i] EXCEPT !.SysInstallable = 2 * j]
              EXCEPT !.SysApplicable = 2 * k]
  BY Zenon
<1>6. [c EXCEPT !.SysInstalled = 2 * i, !.SysInstallable = 2 * j,
                !.SysApplicable = 2 * k] = RowOf(a, n, 2 * i, 2 * j, 2 * k)
  BY <1>2, <1>3, <1>4, <1>5, Zenon
<1> HIDE DEF c
<1>7. Twice(c) = RowOf(a, n, 2 * i, 2 * j, 2 * k)
  BY <1>1, <1>6 DEF Twice
<1> QED
  BY <1>7 DEF c

\* So each group of a join counts twice what it counted, in each of the three
\* counts, and no group comes or goes.
LEMMA DoubledHolds ==
    ASSUME Typed, NEW n \in Nat, NEW S, NEW ids \in [1..n -> S],
           IsInjective(ids)
    PROVE  Doubled(Results(ids), Results(ids \o ids))
<1> DEFINE once == Counted(JoinList(ids))
           twice == Counted(JoinList(ids \o ids))
<1>1. /\ JoinList(ids) = JoinRows(AllRows, ids)
      /\ JoinList(ids \o ids) = JoinRows(AllRows, ids \o ids)
      /\ InList(ids) = InRows(AllRows, ids)
      /\ InList(ids \o ids) = InRows(AllRows, ids \o ids)
  BY DEF JoinList, Selected, JoinRows, InList, InRows
<1>2. InList(ids \o ids) = InList(ids)
  BY <1>1, AllRowsPairs, TwiceCardinality
<1>3. /\ packagesByHostIDsCTE(ids \o ids) = packagesByHostIDsCTE(ids)
      /\ packagesByHostIDsNoCounts(ids \o ids) = packagesByHostIDsNoCounts(ids)
  BY <1>2 DEF packagesByHostIDsCTE, packagesByHostIDsNoCounts
<1>4. DOMAIN twice = DOMAIN once
  <2>1. DOMAIN once = { GroupOf(row) : row \in InRows(AllRows, ids) }
    BY <1>1, CountedGroup, JoinGroups
  <2>2. DOMAIN twice = { GroupOf(row) : row \in InRows(AllRows, ids \o ids) }
    BY <1>1, CountedGroup, JoinGroups
  <2> QED
    BY <1>1, <1>2, <2>1, <2>2
<1>5. ASSUME NEW g \in DOMAIN once
      PROVE  twice[g] = Twice(once[g])
  <2> DEFINE G == GroupRows(AllRows, g)
             J == JoinRows(G, ids)
             D == JoinRows(G, ids \o ids)
  <2>1. GroupRows(JoinList(ids), g) = J /\ GroupRows(JoinList(ids \o ids), g) = D
    BY <1>1, JoinGroups
  <2>2. once[g] = CountsOf(g[1], g[2], J) /\ twice[g] = CountsOf(g[1], g[2], D)
    BY <1>4, <2>1, CountedGroup
  <2>3. Cardinality(D) = 2 * Cardinality(J)
    BY GroupFinite, TwiceCardinality
  <2>4. ASSUME NEW st
        PROVE  Cardinality(WithStatus(D, st)) = 2 * Cardinality(WithStatus(J, st))
    <3>1. /\ WithStatus(J, st) = JoinRows(WithStatus(G, st), ids)
          /\ WithStatus(D, st) = JoinRows(WithStatus(G, st), ids \o ids)
      BY JoinGroups
    <3> QED
      BY <3>1, GroupFinite, TwiceCardinality
  <2>5. twice[g] =
          RowOf(g[1], g[2], 2 * Cardinality(J),
                2 * Cardinality(WithStatus(J, {"Installable"})),
                2 * Cardinality(WithStatus(J, {"Installable", "Applicable"})))
    BY <2>2, <2>3, <2>4, Zenon DEF CountsOf, RowOf
  <2>6. once[g] =
          RowOf(g[1], g[2], Cardinality(J),
                Cardinality(WithStatus(J, {"Installable"})),
                Cardinality(WithStatus(J, {"Installable", "Applicable"})))
    BY <2>2, Zenon DEF CountsOf, RowOf
  <2> HIDE DEF G, J, D, once, twice
  <2> QED
    BY <2>5, <2>6, TwiceRow
<1>6. twice = TwiceCounted(once)
  <2>1. twice = [g \in DOMAIN twice |-> twice[g]]
    BY CountedGroup
  <2> QED
    BY <1>4, <1>5, <2>1 DEF TwiceCounted
<1>7. /\ packagesByHostIDsTempTable(ids) = once
      /\ packagesByHostIDsTempTable(ids \o ids) = twice
      /\ packagesByHostCTEinsteadOfTempTable(ids) = once
      /\ packagesByHostCTEinsteadOfTempTable(ids \o ids) = twice
  BY DEF packagesByHostIDsTempTable, packagesByHostCTEinsteadOfTempTable,
         TempHostIDs, HostIDCTE
<1> QED
  BY <1>3, <1>6, <1>7 DEF Doubled, Results

\* A finite set of ids has a list that repeats none.
LEMMA ListOfSet ==
    ASSUME NEW S, IsFiniteSet(S)
    PROVE  /\ Cardinality(S) \in Nat
           /\ SetToSeq(S) \in [1..Cardinality(S) -> S]
           /\ IsInjective(SetToSeq(S))
<1>1. Cardinality(S) \in Nat /\ ExistsBijection(1..Cardinality(S), S)
  BY FS_CardinalityType
<1>2. \E f \in [1..Cardinality(S) -> S] : IsInjective(f)
  BY <1>1 DEF ExistsBijection, Bijection, Injection, IsInjective
<1> QED
  BY <1>1, <1>2 DEF SetToSeq

\* The variants agree whatever the tables and permissions are.
LEMMA VariantsStep ==
    ASSUME Typed, IsFiniteSet(Hosts)
    PROVE  VariantsAgree
<1> SUFFICES ASSUME NEW u \in Users
             PROVE  LET ids == SetToSeq(ReadableNow(u) \ BadHosts)
                    IN  /\ Doubled(Results(ids), Results(ids \o ids))
                        /\ \A a \in Accounts :
                             /\ SameRows(Results(ids), a, ids)
                             /\ OtherAccounts(Results(ids), a, ids)
  BY DEF VariantsAgree
<1>1. PICK S : S = ReadableNow(u) \ BadHosts
  OBVIOUS
<1>2. S \in SUBSET Hosts
  BY <1>1 DEF ReadableNow, Readable, HostObjects
<1>3. IsFiniteSet(S)
  BY <1>2, FS_Subset
<1> QED
  BY <1>1, <1>3, ListOfSet, DoubledHolds, SameRowsHold, OtherAccountsHold

\* For the hosts a user may read, each variant of the query the experiments
\* compare returns for an account what packagesByHostIDs returns, but for the
\* columns it loses; each returns a group of another account exactly when a
\* listed host has a package of that name there; and a list written twice
\* doubles the three counts of both joins and changes nothing for those that
\* use IN.  That there are finitely many ids of hosts, uuids, is what makes the
\* list finite.
THEOREM VariantsCorrect == IsFiniteSet(Hosts) => (Spec => []VariantsAgree)
<1> SUFFICES ASSUME IsFiniteSet(Hosts) PROVE Spec => []VariantsAgree
  OBVIOUS
<1>1. Typed => VariantsAgree
  BY VariantsStep
<1> QED
  BY <1>1, TypedInit, TypedNext, PTL DEF Spec

=============================================================================
