\* The claim about old rows that an empty count refutes.
CONSTANTS
    a1 = a1  a2 = a2  s1 = s1  s2 = s2  s3 = s3
    h1 = h1  h2 = h2  h3 = h3
    k1 = k1  k2 = k2  b1 = b1  kernel = kernel  bash = bash
    Accounts = {a1, a2}
    Systems = {s1, s2, s3}
    Hosts = {h1, h2, h3}
    Packages = {k1, k2, b1}
    Names = {kernel, bash}
    NameOf <- MCNameOf
    NoAcc = NoAcc
    AccIDs = {NoAcc}
    Jobs = {job}
    SeedPlatform <- ThreeSystems
    SeedPackages <- ThreePackages
    SeedHosts = {h1, h2, h3}
    SeedCache <- MCCache
    MaxWrites = 2
SPECIFICATION Spec
INVARIANT CacheIsLastCount
