\* The claim about deleted systems that delete_systems refutes.
CONSTANTS
    a1 = a1  s1 = s1  s2 = s2  s3 = s3  adv1 = adv1  adv2 = adv2
    Accounts = {a1}
    Systems = {s1, s2, s3}
    Advisories = {adv1, adv2}
    Sessions = {p1, p2}
    SeedPlatform <- MCPlatform
    SeedAdvisories <- MCAdvisories
    MaxUpdates = 1
SPECIFICATION Spec
INVARIANT DeletionsCounted
SYMMETRY Symmetry
