# Verification of inventory_access_poc

TLA+ models of the program in `src/`, checked with TLC on small instances, and
proofs about them checked with TLAPS for every value of the constants.

## 1. Inventory

The program is one binary. Each process does one thing, chosen by `RUN_ACTION`
(`main.go:36`, `:64-98`), against two stores it does not own: PostgreSQL (the
content database of `test_data.sql` with a replica of the host inventory) and
SpiceDB (relationships of the schema `schema/spicedb_bootstrap.yaml`).

| component | state | operations | module |
|---|---|---|---|
| package cache refresh (`cachecontent/refresh_packages_caches.go`) | table `package_account_data`, flag `rh_account.valid_package_cache`; in memory the account list, one shared slice of counts, `err` | list, count, upsert, delete, validate; one transaction each | `PackageCache`, `OverlappingJobs` |
| transactions (`cachecontent/common.go`) | the connection pool, 250 at most | `withTx` | `Database`, `Process`; as outcomes in `PackageCache` |
| database set-up (`cachecontent/setup.go`) | `Db`, `globalPgConfig`, `AdvisoryTypes` | `Configure`: parse, open, ping, load | `Startup` |
| migration to SpiceDB (`migration/psql_to_spicedb.go`) | batch `updates`, map `orgUngrouped`; SpiceDB | hosts and systems; packages; `addUpdate`, `flushUpdates` | `SpiceMigration` |
| MoveSystems (`migration/move_systems.go`, the two foreign-key scripts) | list of hosts, open transaction; four tables; SpiceDB | list, four UPDATEs, one request, commit | `MoveSystems` |
| content database | tables, keys | the counting query | `ContentDB` |
| advisory caches (`test_data.sql:98-511`) | `advisory_account_data`, `system_platform.stale` | trigger `on_system_update`; refresh functions; `mark_stale_systems`, `delete_system`, `delete_systems`, `delete_culled_systems` | `AdvisoryCache` |
| SpiceDB | relationships | WriteRelationships, LookupResources | `SpiceDB` (writes), `ContentServer` (lookups) |
| content service (`server/server.go`) | per request: identity, experiment, host ids | pre-filter, baseline, identity | `ContentServer` |
| query variants (`server.go:300-432`) | temporary table of one transaction | four variants, no caller | `QueryVariants` |
| bulk insert (`cachecontent/batch.go`) | `bulkNow` | `UnnestInsert`; `BulkInsert`, no caller | `PackageCache`, `BulkInsert` |
| startup (`main.go`) | environment, deferred calls | `main`, `initServer`: one action per process, cleanup | `Startup`, `Process` |
| clients (`client/clients.go`) | two connections | connect, ping | `Startup` |
| telemetry (`opentelemetry/opentelemetry.go`) | `shutdownFuncs` | set up, shut down | `Startup` |
| routing and middleware (`main.go:134-165`) | none | user, choice of the experiment | `ContentServer` |
| generated API, manifests | none | I/O | not modelled |

**Interactions.** The components never call each other. They meet in the
tables and relationships: the evaluator and the inventory (external) change the
tables the refresh counts and the migrations copy; the migrations write the
workspaces the service's lookups depend on; MoveSystems changes both stores at
once and leaves the package cache and `system_package` alone; all of them can
run at the same time, and nothing in the program excludes a second instance of
any of them.

**What is hard.** No operation is atomic as a whole. The refresh is four
transactions per account; a migration is as many requests as there are batches;
MoveSystems writes two stores without a common transaction and reads its list
outside of the one it has. Every call can fail, or take effect although the
caller sees an error (a lost answer to COMMIT or to WriteRelationships); a
process dies anywhere (`panic(err)` in `main.go` is one way) and is started
again by hand. The start itself has a dozen calls that fail in different ways:
some panic (deferred calls run), some call `os.Exit` (they do not), one only
prints its error, one blocks. `PROJECT.json` lists every hazard at its line.

**What makes each component correct.**

* refresh: an account marked valid has exactly the rows of one count; an account
  is touched only by its own refresh, and while it is valid not at all; a failing
  account does not stop the rest; overlapping refreshes spoil an account only
  where one of them outlived a write or stored beside another.
* migration: a relationship is never stored before what it hangs on; nil means
  that what was read was stored; requests stay within limits; it ends.
* MoveSystems: a host that is moved between two accounts only is always in
  exactly one workspace (with a third account it need not be, see section 3);
  the stores disagree about it only while a move of it is half finished;
  children follow their systems, so that the foreign keys can be added again;
  nil means moved in both stores.
* both migrations together: run one after the other they keep the stores in
  agreement; each, when it finishes, puts right what it is responsible for.
* service: an answer is that of one state of the permissions and one state of
  the content, each from during the request; both experiments, and the variants
  of the query, answer alike where the data says they should.
* process: work begins on a database that has answered, whatever was set up is
  cleaned up once, and requests give their connections back.
* bulk insert: an upsert has the same effect through either of its two forms.
* advisory caches: the counters the trigger maintains equal a recount.

## 2. Modules

| module | what it is |
|---|---|
| `ContentDB` | row types and keys of the tables; the counting query as operators on sets of rows (`PackageJoin`, `GroupCounts`, `update_status`); no variables |
| `SpiceDB` | the five kinds of relationships the program writes, one operator each; the contract of `WriteRelationships` (limit, no relationship twice, atomic); external apart from how the program builds requests |
| `PackageCache` | the refresh job and the writers of the counted tables |
| `OverlappingJobs` | the steps of `PackageCache`, watched by two history variables, for jobs that overlap with each other and with writers |
| `SpiceMigration` | both migrations |
| `MoveSystems` | the move between accounts |
| `TwoMigrations` | `MoveSystems` extended with migrators, instances of `SpiceMigration`, over the same two stores |
| `ContentServer` | requests to the service among changes of permissions and content |
| `AtomicContent` | what a client may assume of a request; `ContentServer` implements it |
| `QueryVariants` | the queries without a caller, as operators over the state of `ContentServer` |
| `BulkInsert` | the statement builder and the scan of its result, as operators over the state of `PackageCache` |
| `Startup` | the life of a process from `main` to its end |
| `Database` | `withTx` of several goroutines on one bounded pool |
| `Process` | `Startup` with `Database`: a server, its requests and its pool |
| `AdvisoryCache` | the counters of `advisory_account_data` under trigger, refreshes and deletions |
| `MC*` | the instances TLC checks |
| `*Proofs` | theorems and proofs |

### PackageCache

One action per call of the loop, named as in the code. `withTx` is represented
by `TxOutcomes`: committed and acknowledged, rolled back, or committed with a
lost answer. `todo`, `cur`, `pkgSysCounts`, `err` are the locals of
`RefreshPackagesCaches`; `pc` is the place in the loop; `log` the last line
printed for an account. `snap` is a history variable: what `getCounts` last
returned for an account. `NotIn` models gorm's binding of an empty list to
`NOT IN (NULL)`. The writers are the SQL functions `mark_stale_systems` and
`delete_system` (neither invalidates the cache) and, external, the evaluator
(which does) and the inventory's replication. `mark_stale_systems` marks any
set of systems: timestamps and its limit are abstracted. Tables are sets of
rows; `update_data` is the set of statuses in it, `packages_installed` a
boolean. Accounts are visited in any order (the code orders by a hash).

### OverlappingJobs

Every action is one of `PackageCache` with the histories: `Count`, `Store`
(upsert or delete), `Settle` (validate), `Elsewhere` (start, list, return,
crash) and `Change` (a writer). `beside[j]` is what happened since job `j`
counted its account: another job stored rows of the same account, the counted
tables were written. `settled[a]` says that a job marked `a` valid with nothing
beside it, and that since then neither a write happened nor a job stored counts
older than one. A write unsettles every account, whichever it touched. No action
of the program reads a history. The steps are those of `PackageCache`
(`OverlapRefines` in `PackageCacheProofs`).

### SpiceMigration

`Start` is the query; `NextRow`, `AddRoot`, `AddUngrouped`, `AddHost`,
`AddSystem`, `AddPatch` are the steps of a row, each with the whole of
`addUpdate` including the flush of a full batch and the early return on its
error; `EndOfRows` is `rows.Next()` returning false, also when the stream broke
off; `BadRow` a decoding error; `FinalFlush` the request after the loop, also
with an empty batch. A process can run again with a new migrator at any time,
and several can run at once. `read` is a history variable. The query is one
snapshot; rows come in any order. Object ids built with `Sprintf` are tuples:
only their distinctness matters.

A process that has returned is gone: `Return` forgets everything but the result
(and, for nil, what was read).

### BulkInsert

Nothing but comments ties `BulkInsert` to the upsert of the refresh, so it is
applied to it: in every state in which a job is about to upsert, and for every
order of the counts it holds. `objectToMap` selects the columns (`Skipped` are
its four `continue`s), `statementFromObjects` gives one group per object,
`Executed` is PostgreSQL carrying out INSERT ... ON CONFLICT ... RETURNING
group by group, `Scanned` puts the i-th returned row into the i-th object.
`bulkNow` is left out: the row type has no time.

### MoveSystems

One action per statement. `db` holds the committed rows of the four tables,
`tx` the rows an open transaction has updated, which are locked against the
other movers (`Locked`); `Commit` applies them. Constraints that can refuse an
UPDATE are guards: the unique keys of `system_platform` and `baseline`, and the
foreign key of `system_package2` the script does not drop. `WriteRels` is one
request; `Commit` has the same three outcomes as above. `Crash` covers panics
and kills; the server then rolls back. `Register` (external) adds a system with
child rows at any moment. `unsure` is a history variable: the hosts whose last
request was not followed by its commit, or that were moved in only one store.
`been` is another: the accounts a host has ever been in, in either store.
`BetweenTwo`, at most two of them, is the premise under which `Agreement`,
`PlacedOnce` and `MovedInBoth` speak of a host. `Init` is the state after the migration of hosts, with the keys dropped.

### ContentServer

A request is two calls: `Lookup` asks SpiceDB for the hosts the user may read
and reads the stream to its end, `Query` counts in PostgreSQL. `Receive` is the
middleware and the choice of the handler; the baseline handler goes straight to
`Query`. A request may come with a user and no known account, with an account
and the empty user, with both or with neither (`Identities`). `ReceiveUnknown` is the experiment without a handler. An error of
either call ends the request without data. Permissions are derived from
relationships and role bindings by `Readable`, which is the part of the schema
`inventory/host#read` reaches; `ReadableThen` is an answer from a possibly older
revision, since no consistency is asked for. `Grant`, `PlaceHost`, `SwapHosts`
change SpiceDB, `MoveRows`, `Evaluate`, `SyncHosts` change the tables, as the
other components and external services do. `views` is a history variable: what
the user of a request could read in the states SpiceDB could serve so far.

`AtomicContent` sees only `Ask`, `Answer`, `Ignore` and changes: a request is
answered from the content of one moment and from one servable state of the
permissions. Under the mapping in `ContentServer` (`Atomic`), `Query` is the
answer and `Lookup` a stutter. Requests share no state (a handler's locals, and
a transaction of its own from the pool), so one request among arbitrary changes
is checked; what they do share, the pool, is in `Process`.

`QueryVariants` compares the four variants with `packagesByHostIDs` in every
state reached. For the account of the request each returns the same rows, but
for the name that `packagesByHostIDsCTE` loses (its column `name_id` has no
alias) and the counts `packagesByHostIDsNoCounts` does not ask for (`SameRows`).
Each returns rows of another account exactly for the packages the listed hosts
have there (`OtherAccounts`; TLC also asks on behalf of the account the listed
hosts are not in, so that there are such rows). A list written twice doubles all
three counts of the two joins and changes nothing for the two that use IN
(`Doubled`).

### TwoMigrations

The migration of hosts reads the table MoveSystems updates and writes the
relationships it deletes. Both are started again and again (`StartOne`, bounded
by `MaxStarts`), at any moment and from any state the other has left; starting
is the operator's doing. `careless` records whether one was started beside the
other, or the migration of hosts after a half move (`unsure` hosts): in those
cases hosts do end in two workspaces.

### Startup, Database, Process

One action per call of `main` and `initServer` that can fail or block. The
deferred calls are a stack that `Return` and `Panic` run (`unwind`), and `End`
(`os.Exit`, a signal) does not. Configurations and pools are numbered: the
comparison in `InitDB` is one of pointers, so the second `Configure`, by the
refresh, always opens a second pool and leaves the first open. Telemetry is the
set of registered shutdown functions; the code's error path and `main`'s
deferred call may both run it. `GetSpiceDbClient` is enabled only while SpiceDB
is up (`grpc.WithBlock`, no deadline); `GetPostgresConnection` ignores a failing
ping. `work` is what the other modules model, seen from outside.

`Database` has one action per step of `withTx`: asking for a connection,
getting one or an error that sticks to `tx`, `do` with its three outcomes,
commit (acknowledged, failed, or failed though it took effect), and the deferred
rollback, which also runs under a panic that `net/http` recovers. `approved` is
a history variable: the goroutines whose last `do` returned nil. With it
`AllOrNothing` says not only that nil means done, but that whatever `withTx`
returned, what `do` did not approve has had no effect. `Process`
lets a server's requests run it while the process may end at any moment.

### AdvisoryCache

PostgreSQL sessions under READ COMMITTED. An update of a system is two steps:
`Begin` locks its row and takes the snapshot of the trigger's statement (`seen`,
the counters that exist), `Finish` is the trigger's change, re-read under row
locks, with the commit. `mark_stale_systems` is called with a limit of 1 here: a
call with a larger one marks all it finds in one statement, all or nothing, and
that granularity is not modelled. A refresh is three: `LockRows` (`SELECT ... FOR UPDATE`),
`CountRows` (the snapshot of `current_counts`), `WriteRows` (upsert, delete,
commit). `delete_systems` is one statement. A counter row with two zeros is a row
that is not there: `Kept` deletes it. `trust` is a history variable: what is
known of an account's counters (never built, exact, too large after
`delete_systems`, or raced by a refresh beside a system that becomes fresh).

## 3. Runs

All with 2 workers; the slowest, `content_server`, takes about two minutes.

| run | question | bounds |
|---|---|---|
| `package_cache` | is a valid cache one consistent count, whatever fails (`CacheIsSnapshot`, inductive form `RefreshInv`)? does it change only while its account is refreshed (`OnlyOwnAccount`), and not while it is valid (`ValidUntouched`)? does `BulkInsert` upsert alike? is every account settled, does the job end? | 1 job rerun for ever, 2 accounts, 3 systems, one with two versions of a package, 2 names, leftovers in the cache, 1 write anywhere in a refresh |
| `overlapping_jobs` | are caches exact when jobs overlap on quiescent tables (`OverlapHarmless`)? which refreshes leave exact rows beside others and beside writes (`MarkedExact`), and for how long (`SettledExact`)? | 2 jobs, full or explicit, 1 account with one system and an old row, 2 writes |
| `package_cache_empty_count` | **violated:** are old rows gone once an account is valid? | 1 job, 2 writes |
| `spice_migration` | hierarchy, completeness, request limits and termination of both migrations | 2 processes at once, each any migration, again and again; 2 systems of 1 account, one with two versions of a package; batches of 5, so that a batch ends inside a row of 4 and holds parts of two rows |
| `two_migrations` | do the stores agree after both migrations (`SequencedRunsAgree`, `SystemsPlaced`)? does a finished run repair what is wrong (`MigrationHeals`, `MoveRepairs`)? | 1 migrator and 1 mover, 4 starts in any order, 2 systems moved between 2 accounts and to a third, batches of 3 |
| `move_systems` | what one mover leaves in the two stores (`Agreement`, `PlacedOnce`, `NilMeansMoved`) | moves of an account to itself, between two accounts both ways, to a third from which nothing comes back, and to a fourth that refuses a baseline of the same name; a host missing in the inventory; a request limit of two hosts |
| `move_systems_two` | two movers of one account, and a registration at any moment: can the keys be added again (`KeysCanBeReadded`), does nil mean moved? | row locks, second mover finds nothing; 1 new system with children |
| `content_server` | is an answer one look at permissions and content (`AnswersAtomically`)? do the experiments, and the query variants, agree? | 1 request after another of any identity, 2 accounts, 2 systems, 2 changes of permissions and 1 of the content |
| `content_server_mimics` | **violated:** do the experiments agree with groups as in the test data? | 1 request, 3 systems, no change |
| `advisory_cache` | do counters equal a recount? | 2 sessions, 3 systems (fresh, stale, not evaluated), 2 advisories, 3 changes of systems, any number of refreshes |
| `advisory_cache_batch` | **violated:** does `delete_systems` take systems out of the counters? | 1 change |
| `process` | cleanup, a checked pool, all-or-nothing transactions; does a process get to its work, a request to its end? | every environment and action, 3 goroutines on 2 connections, everything that can fail failing |

The instances are enough because each property relates at most two accounts,
two stores or two processes; the third and fourth accounts of `move_systems` are
there for what refuses a move and for what the premise `BetweenTwo` leaves out.
Different orders of the rows put a batch boundary
at every place in a row, as the code's 100 does. Two changes of permissions
around one of the content are enough to separate the lookup's revision from the
query's moment and from either end of the request. Four starts let a migration
and a move fail, and each be run again. Three changes of systems let a row of
counters be deleted, created again and changed once more beside a refresh.
Three goroutines on two connections make one wait behind any two outcomes. One
account is enough for overlapping jobs, since no job touches another account's
rows (`OnlyOwnAccount`); two writes let one job count before, one between and
one after them. The
bounds that exist only for TLC are `MaxWrites`, `MaxSpiceChanges`,
`MaxTableChanges`, `MaxUpdates` and `MaxStarts`; `MaxUpdatesPerCall`,
`maxBatchSize`, `MaxHostIDs` and `DBMaxConnections` are small values of limits
the real systems have. Only `two_migrations` disables deadlock checking: when
`MaxStarts` is used up nothing is left to do. (In
`process` the world outside never stops, so that check says nothing there; its
liveness properties do.)

**What the violated runs show.**

* `package_cache_empty_count`: when the last counted system of an account
  becomes stale (or is deleted) after an invalidation, `getCounts` returns
  nothing, `updatePackageAccountData` sends nothing, `deleteOldCache` sends
  `NOT IN (NULL)` and deletes nothing, and `updatePkgCacheValidity` marks the
  account valid: its old rows are served as "refreshed". The other properties
  therefore make the exception of the empty count explicit.
* `content_server_mimics`: the migration puts every host of an account into the
  account's workspace, grouped or not, while the baseline handler counts only
  hosts whose groups are `[]`. `ExperimentsAgree` states the provision the
  comment in `server.go:276` leaves out.
* `advisory_cache_batch`: one statement of `delete_systems` updates and deletes
  the same rows, of which PostgreSQL carries out only one, and the trigger runs,
  if at all, when the advisories are already gone. `NothingMissing` is what
  remains true: the counters are never too small.

**What does not hold, and is not claimed.** A valid cache can be older than an
invalidation that arrived during the refresh; overlapping refreshes with writes
in between can mix two counts (`MarkedExact` and `SettledExact` say exactly when
they do not); opposite movers can leave the stores in
disagreement and children behind; registrations during a move can leave
children behind; with three accounts a half move followed by a move elsewhere
leaves a host in two workspaces (the runs reach this: without the premise
`BetweenTwo` TLC finds `Agreement`, `PlacedOnce` and `NilMeansMoved` violated);
both migrations beside each other leave a host
in two workspaces; a process that calls `os.Exit` or gets a signal flushes no
telemetry; the first pool of a refresh is never closed; a short row stream makes "nil" mean "nil for
the rows that were read"; a refresh of the advisory counters beside a system
that becomes fresh can lose it. These are entered as hazards with a note.

**Fairness.** Only liveness uses it. Weak fairness of each process's own steps
(`JobStep`, `Step`, `RunTx`): a goroutine that can run is run, and calls to the
stores return, with an answer or an error. Nothing is assumed of their outcome,
of being started, or of not dying. Weak fairness suffices since nothing but the
process itself (or its death) disables its next step, with two exceptions.
`GetSpiceDbClient` may be disabled for ever by SpiceDB, so `GetsToWork` asks
that SpiceDB stays up. A goroutine that waits for a connection is disabled while
the others hold them all; `database/sql` hands a returned connection to one of
the waiting requests and passes none over for ever, hence strong fairness of
`AcquireConn`. `ListenAndServeFails`, `Kill` and the arrival of requests are
never assumed.

## 4. Proofs

Checked by TLAPS for all values of the constants that satisfy the named
assumptions (finite seed tables with valid keys, a batch size of at least 1).

* `ContentDBProofs` holds what the refresh and the service share: lemmas about
  the counting query (`CountsOrdered`, `GroupCountsTyped`, `JoinTyped`), no
  theorem of its own.
* `PackageCacheProofs`: `TypeCorrect`, for any number of jobs, with
  `installable <= applicable <= installed` from a lemma about `CountsOf`.
  `SnapshotCorrect`: `CacheIsSnapshot` if there is at most one job. It is not
  inductive: one has to know that listed accounts are invalid, that the counts
  in memory are the current account's and equal to `snap`, that the upsert has
  put them in the table and that the delete has left nothing else. These are
  the conjuncts of `RefreshInv`, which TLC checks too and `RefreshCorrect`
  states. `OnlyOwnAccountCorrect`:
  the action property, any number of jobs; the invariant says that counts in
  memory belong to `cur`. `OverlapCorrect`: any number of jobs on unchanged
  tables; the invariant says that counts in memory equal the current counts.
  `ValidUntouchedCorrect` (one job): follows from `RefreshInv`, since listed
  accounts are invalid.
  `HistoryCorrect`, `MarkedExactCorrect` and `SettledExactCorrect`, any number of
  jobs overlapping with any number of writes. The invariant adds `Undisturbed`,
  which says at every line of a refresh what its account's rows are as long as
  nothing is in `beside`: counts without a write are the current ones, after the
  upsert they are stored, after the delete they are all there is. The empty count
  is excepted, as everywhere.
  `BulkInsertCorrect`, any counts in any order over any cache. The two forms
  differ in how the statement is carried out, so the effect of `Executed` is
  shown group by group: after `k` of them the table is what `UnnestInsert` makes
  of the first `k` counts, and each returned row is its object's. This is an
  induction, which no installed prover can take with a predicate as a parameter;
  it is done over the *set* of numbers for which the formula holds
  (`SetInduction`, from the least number outside it).
* `SpiceMigrationProofs`: `TypeCorrect` (no batch outgrows its limit),
  `HierarchyCorrect` and `CompleteCorrect`, any number of processes and any
  batch size. `StepEffect` reduces the actions to kinds of steps (`Begins`,
  `Takes`, `Drains`, `AddsOne`, `Ends`), which all invariants are proved over.
  `HierarchyCorrect`: SpiceDB *together with the batch* is closed for every
  process, the next relationship hangs on one of them, and `orgUngrouped` names
  only organizations whose workspaces are in either. `CompleteCorrect`: so are
  the relationships of every row read. Relationships are only added, so another
  process cannot invalidate this. `HostRequestsCorrect`, if the batch size is at
  most SpiceDB's limit: the invariant says which relationships can be in the
  batch, those accounted for by an organization already done, a finished row, or
  the row that is open; the next one to be added never is. That takes the keys
  of `system_platform` (`SystemsUnique`: neither an id nor a host of an account
  twice), an assumption of the theorem, which the run's tables satisfy.
* `MoveSystemsProofs`: `TypeCorrect`. `KeysCorrect`, for one mover or any number
  of movers out of one account, until a system is registered: what a transaction
  has updated is what was in the account, so that at commit children, platform
  rows and baselines change together; and a registered system never goes away.
  `PlacedCorrect`, any number of movers in any direction and of accounts, for
  the hosts that have been in two of them (`BetweenTwo`): a request takes such a
  host from one account to the other, the only two it can be in, so it preserves
  "exactly one", and what a host has been in only grows (`BeenGrows`).
  `AgreementCorrect` and `NilCorrect`, one mover, or movers in one direction
  (`Directed`): the listed hosts of a mover before its commit are in the new
  workspace alone (`SendSettles`: another mover's request does not undo that),
  and its transaction holds the rows of all listed hosts that are still in the
  old account (`Held`). The last three assume that a host belongs to one system
  (`HostsUnshared`); the last two also that there are two accounts in all
  (`TwoAccounts`), which is more than the properties ask for: for the hosts of
  more accounts they are model-checked only.
* `TwoMigrationsProofs` takes the lemmas about a step of a migrator from an
  instance of `SpiceMigrationProofs` whose tables are those the movers change
  (`MP`), and those about a step of a mover from `MoveSystemsProofs`.
  `SystemsPlacedCorrect`, with no assumption on who runs beside whom: what is
  stored *and* each batch with it is placed, and the host of the next system is
  in some workspace, if no longer in that of its row (`PlaceInv`); a mover's
  request maps every such workspace to another (`SwapPlaced`).
  `MoveRepairsCorrect` (`Directed`, `TwoAccounts`): a move that nothing ran
  beside is still alone, and its listed hosts are in the new workspace alone
  before its commit, in whatever mess it found them (`AloneInv`, `Held`).
  `SequencedRunsCorrect` and `HealsCorrect` (`HostsUnshared` as well): as long as
  nobody was careless, the two never run at the same time, no host is half moved
  while hosts are migrated, and a migrator and SpiceDB know no host but where the
  rows say (`OrderInv`, with `Copying` for each migrator). That a workspace
  agrees with its row follows from the rows being the only ones of their hosts,
  which is why shared hosts are excluded.
* `ContentServerProofs`: `TypeCorrect`; `AnswersCorrect`, the refinement of
  `AtomicContent`: every step of `ContentServer` is a step of it or leaves its
  variables alone, given that a request in progress has recorded what its user
  could read in every state SpiceDB may answer from, and that the hosts it holds
  are one of these sets (`ViewsInv`); `AgreeCorrect`, from `UnchangedInv`: as
  long as nothing has changed since a request came, what it holds and answers is
  what the tables and permissions give now. `SeedAssumption` types the tables at
  start. `VariantsCorrect`, if there are finitely many host ids (uuids): in every
  typed state, the groups all four return are the accounts and names of the
  packages the listed hosts have (`GroupHasPackage`); grouping and filtering by
  status commute with the join (`JoinGroups`), the
  join with an injective list is a bijection onto the rows IN selects
  (`JoinCardinality`), and with a list written twice it is two disjoint copies
  of that (`TwiceCardinality`).
* `AdvisoryCacheProofs`: `TypeCorrect`, with the two exclusions by row locks.
  `CountsCorrect` and `NothingMissingCorrect`, any number of sessions, updates,
  systems and advisories. The two properties are not inductive: besides the
  typing (`PlatformInv`: a locked system stays as it is) one has to know that a
  refresh counted as alone has its accounts to itself and has counted what there
  is to count (`AloneInv`); that a decrement finds in its snapshot every row it
  is due to change (`SeenInv`); that no system becomes fresh in an account with
  known counters while it is refreshed (`RaceInv`); and that a refresh of known
  counters has locked every row that is there, so that its count stays right
  until it writes it (`LockedInv`). The lemmas on `Tally` and `Affected` say how
  a recount changes when the advisories of one system do.
* `ProcessProofs`: `ConnectionsCorrect` and `TransactionsCorrect`, for any
  number of goroutines and connections. The invariant is the conjunction of
  both: free connections and holders add up to `DBMaxConnections`, which is
  also what bounds `free` from above when one is given back; and a worker at its
  commit is approved (`CommitApproved`), without which `AllOrNothing` is not
  inductive.
  `StartTypeCorrect`, `CleanupCorrect` and `ReadyCorrect`: `StartInv` says at
  every line of `main` which calls are deferred, which providers are registered
  and which of the two pools is in use.

**The safety half of liveness** is proved too, as action properties. Each gives
the measure behind a liveness property and says that every step decreases it,
whatever fails: `JobAdvances` (accounts listed, then lines to go; any number of
jobs) and `NoneDropped` (an account leaves the loop only with a line about it)
for `JobReturns` and `AllAttempted`; `MigrationAdvances` (rows unread, then
relationships of the row to go) for `MigrationReturns`; `StartAdvances` (calls of
`main` to go, with the second `Configure` and the deferred calls) for
`GetsToWork`. The measures are finite sets and natural numbers, so no run of a
component can make infinitely many of these steps. What remains of liveness is
that a component which is not finished *can* step (ENABLED) and then does
(fairness).

**Only model-checked:** the liveness properties themselves (`AllAttempted`,
`JobReturns`, `MigrationReturns`, `GetsToWork`, `RequestsEnd`), for the prover
handles neither ENABLED nor fairness. Every invariant and every action property
of a passing run is a theorem.
**Only proved**, because the proof says more than a further run would: the four
action properties above (TLC agreed to them on the same instances); `PlacedOnce`
for movers in opposite directions; `Agreement` and `PlacedOnce` for several
movers; `OnlyOwnAccount` for overlapping jobs.

## 5. Plan

1. *(done)* `ContentDB`, `PackageCache`, `SpiceDB`, `SpiceMigration`,
   `MoveSystems`, `ContentServer` with `AtomicContent`, `AdvisoryCache`, their
   runs and main theorems.
2. *(done)* `QueryVariants`, `BulkInsert`, `TwoMigrations`, `Startup` with
   `Database` and `Process`; typing and requests of `SpiceMigration`;
   the pool's theorems.
3. *(done)* `TypeOK`, `ExperimentsAgree` and the refinement of `AtomicContent`
   in `ContentServer`; `VariantsAgree`; `CountsExact` and `NothingMissing` in
   `AdvisoryCache`; start and end of `Process`; `NilMeansMoved`; `TwoMigrations`.
4. *(done)* `OverlappingJobs`; `BulkInsertUpserts` for every input; the steps
   behind the liveness properties.
5. Left out: `refresh_system_caches` beside the evaluator. It is one statement
   that writes columns of `system_platform` nothing in this repository reads, so
   that no property of the program depends on it.

## 6. Not modelled

Wording of log output, the spans handlers open, the fields of `Config`, the
helpers of `core.go` (no caller), generated API code and manifests have no state
the properties depend on. `HandleSignals` (`base.go`) has no caller: the context
of the transactions is never cancelled, and a signal kills the process, which is
`Kill` and `Crash`. Lock waits for the foreign-key scripts and PostgreSQL's
deadlock detection appear only as errors a statement may return. The age limit
and the idle connections of the pool are invisible to its users.
`GetContentPackagesWithDatabase` is reached by no route; it prints the error of
its query and answers with an empty list. `bulkNow` is a data race between
concurrent calls of `BulkInsert`, of which there is none. No function of this
repository reads what `refresh_system_caches` and the row-stamping triggers
write.
