\* Two processes, each migrating the hosts or the packages, again and again
\* and at the same time, in batches longer than the four relationships of a row.
CONSTANTS
    a1 = a1  s1 = s1  s2 = s2  h1 = h1  h2 = h2
    k1 = k1  k2 = k2  b1 = b1  kernel = kernel  bash = bash
    Accounts = {a1}
    Systems = {s1, s2}
    Hosts = {h1, h2}
    Packages = {k1, k2, b1}
    Names = {kernel, bash}
    NameOf <- MCNameOf
    MaxUpdatesPerCall = 5
    Procs = {proc1, proc2}
    Actions = {"hosts", "packages"}
    maxBatchSize = 5
    SeedPlatform <- MCPlatform
    SeedPackages <- MCPackages
    SeedHosts = {h1, h2}
SPECIFICATION FairSpec
INVARIANTS TypeOK HierarchyClosed CompleteOnNil HostRequestsAccepted
PROPERTY MigrationReturns
