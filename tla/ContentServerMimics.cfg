\* The claim about ungrouped hosts that the test data refutes.
CONSTANTS
    a1 = a1  a2 = a2  s1 = s1  s2 = s2  s3 = s3  h1 = h1  h2 = h2  h3 = h3
    bad = bad  k1 = k1  kernel = kernel  u1 = u1
    Accounts = {a1, a2}
    Systems = {s1, s2, s3}
    Hosts = {h1, h2, h3}
    Packages = {k1}
    Names = {kernel}
    NameOf <- MCNameOf
    MaxUpdatesPerCall = 6
    Requests = {r1}
    Users = {u1}
    NoUser = nobody
    NoName = unnamed
    NoAccount = zero
    BadHosts = {bad}
    MaxHostIDs = 3
    SeedPlatform <- MCPlatform
    SeedPackages <- MCPackages
    SeedHosts = {h1, h2, h3}
    SeedGroups <- TestGroups
    SeedRelations <- MCRelations
    SeedGrants <- MCGrants
    MaxSpiceChanges = 0
    MaxTableChanges = 0
SPECIFICATION Spec
INVARIANT AccountMimicsGroups
