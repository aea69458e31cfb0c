\* Two overlapping jobs on one account while the tables change twice.
CONSTANTS
    a1 = a1  a2 = a2  s1 = s1  s2 = s2  s3 = s3
    h1 = h1  h2 = h2  h3 = h3
    k1 = k1  k2 = k2  b1 = b1  kernel = kernel  bash = bash
    Accounts = {a1}
    Systems = {s1}
    Hosts = {h1}
    Packages = {k1}
    Names = {kernel, bash}
    NameOf <- MCNameOfOne
    NoAcc = NoAcc
    AccIDs = {NoAcc, a1}
    Jobs = {job1, job2}
    SeedPlatform <- OneSystem
    SeedPackages <- OnePackage
    SeedHosts = {h1}
    SeedCache <- OneOldRow
    MaxWrites = 2
SYMMETRY JobSymmetry
SPECIFICATION OverlapSpec
INVARIANTS OverlapHarmless MarkedExact SettledExact
