\* Two sessions, each with an update of a system or a refresh at a time.
CONSTANTS
    a1 = a1  s1 = s1  s2 = s2  s3 = s3  adv1 = adv1  adv2 = adv2
    Accounts = {a1}
    Systems = {s1, s2, s3}
    Advisories = {adv1, adv2}
    Sessions = {p1, p2}
    SeedPlatform <- MCPlatform
    SeedAdvisories <- MCAdvisories
    MaxUpdates = 3
SPECIFICATION Spec
INVARIANTS TypeOK CountsExact NothingMissing
SYMMETRY Symmetry
