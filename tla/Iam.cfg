CONSTANTS
    f1 = f1 f2 = f2 e1 = e1 e2 = e2 e3 = e3 s1 = s1 s2 = s2 s3 = s3
    n1 = n1 n2 = n2 n3 = n3 p1 = p1 p2 = p2
    Request = {r1, r2}
    Founder = {f1, f2}
    Email = {e1, e2, e3}
    Slug = {s1, s2, s3}
    Nui = {n1, n2, n3}
    Password = {first, second}
    FounderOf <- TwoFounders
    FirstPassword = first
    Pod = {p1, p2}
    Scene <- Scenes
    MaxAttempts = 1
    MaxCodes = 2
    MaxCrashes = 1
    MaxFailures = 1
SPECIFICATION Spec
SYMMETRY RequestSymmetry
INVARIANT UserHasTenant
INVARIANT OneTenantPerCode
INVARIANT RegistrationIsWhole
INVARIANT CacheIsRow
CHECK_DEADLOCK FALSE
