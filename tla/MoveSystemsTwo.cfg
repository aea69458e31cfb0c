\* Two movers of the same account to the same account, while a system is
\* registered.
CONSTANTS
    a1 = a1  a2 = a2  a3 = a3  a4 = a4  s1 = s1  s2 = s2  s3 = s3  s4 = s4  s5 = s5
    s6 = s6  h1 = h1  h2 = h2  h3 = h3  h4 = h4  h5 = h5  h6 = h6
    b1 = b1  b4 = b4  gold = gold  none = none  k1 = k1  kernel = kernel
    Accounts = {a1, a2, a3, a4}
    Systems = {s1, s2, s3, s4, s5, s6}
    Hosts = {h1, h2, h3, h4, h5, h6}
    Packages = {k1}
    Names = {kernel}
    NameOf <- MCNameOf
    Baselines = {b1, b4}
    BaselineNames = {gold}
    NoBaseline = none
    BaselineOf <- MCBaselineOf
    HostsSynced = {h1, h2, h3, h4, h6}
    SeedDB <- MCSeedDB
    SeedPackage2 <- MCSeedPackage2
    MaxUpdatesPerCall = 6
    Procs = {mover1, mover2}
    Moves <- OneWay
    NewSystems <- MCNewSystems
SPECIFICATION Spec
INVARIANT KeysCanBeReadded
PROPERTY NilMeansMoved
