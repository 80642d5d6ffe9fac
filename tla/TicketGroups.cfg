SPECIFICATION Spec
CONSTANTS
    c1 = c1
    c2 = c2
    c3 = c3
    g1 = g1
    g2 = g2
    n1 = n1
    n2 = n2
    ta = ta
    tb = tb
    td = td
    te = te
    tf = tf
    m1 = m1
    m2 = m2
    why = why
    because = because
    known = known
    unknown = unknown
    Nobody = Nobody
    Client = {c1, c2}
    Group = {g1, g2, n1, n2}
    Ticket = {ta, tb, td, te, tf}
    Memory = {m1, m2}
    Reason = {why, because}
    Initiative = {known, unknown}
    Registered = {known}
    HomeOf <- MCHomeOf
    Seed <- MCSeed
    Request <- GroupRequests
    MaxRequests = 2
INVARIANTS
    TypeOK
    TicketsHaveOneOwner
    ScopesAreIdentified
    DescriptionsAreAChain
    ReferencesStayForeign
PROPERTIES
    TicketsOnlyAccumulate
