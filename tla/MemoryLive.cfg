SPECIFICATION FairSpec
CONSTANTS
    w1 = w1
    w2 = w2
    w3 = w3
    g1 = g1
    g2 = g2
    m1 = m1
    m2 = m2
    n1 = n1
    f1 = f1
    f2 = f2
    s1 = s1
    s2 = s2
    s3 = s3
    s4 = s4
    a = a
    b = b
    c = c
    relates = relates
    label1 = label1
    t1 = t1
    t2 = t2
    tx9 = tx9
    p1 = p1
    p9 = p9
    i1 = i1
    Nobody = Nobody
    Writer = {w1, w2, w3}
    Group = {g1, g2}
    Memory = {m1, m2, n1, f1, f2}
    Slug = {s1, s2, s3, s4}
    Claim = {a, b, c}
    Relation = {relates}
    Label = {label1}
    Ticket = {t1, t2, tx9}
    Product = {p1, p9}
    Initiative = {i1}
    Registered = {p1}
    BlobOf <- MCBlobOf
    OwnerOf <- MCOwnerOf
    InitiativeOf <- MCInitiativeOf
    SeedClaim = a
    Request <- Opposed
    Seed <- RaceSeed
    MaxAttempts = 1
INVARIANTS
    LockHoldersNeverDeadlock
PROPERTIES
    EveryRequestIsAnswered
