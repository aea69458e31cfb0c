\* A migration of hosts and moves from and to account 1, again and again.
CONSTANTS
    a1 = a1  a2 = a2  a3 = a3  s1 = s1  s2 = s2  h1 = h1  h2 = h2
    none = none  k1 = k1  kernel = kernel
    Accounts = {a1, a2, a3}
    Systems = {s1, s2}
    Hosts = {h1, h2}
    Packages = {k1}
    Names = {kernel}
    NameOf <- MCNameOf
    Baselines = {}
    BaselineNames = {}
    NoBaseline = none
    BaselineOf <- MCBaselineOf
    HostsSynced = {h1, h2}
    SeedDB <- MCSeedDB
    SeedPackage2 = {}
    MaxUpdatesPerCall = 4
    Procs = {mover1}
    Migrators = {migrator1}
    maxBatchSize = 3
    MaxStarts = 4
    Moves <- AllMoves
    NewSystems = {}
SPECIFICATION AllSpec
INVARIANTS SequencedRunsAgree SystemsPlaced
PROPERTIES MigrationHeals MoveRepairs
CHECK_DEADLOCK FALSE
