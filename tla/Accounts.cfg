\* Every request of the accounts, two or three at a time.
SPECIFICATION FairSpec
CONSTANTS
    Absent = Absent
    u1 = u1
    u2 = u2
    e1 = e1
    e2 = e2
    o = o
    p = p
    q = q
    n = n
    h1 = h1
    h2 = h2
    h3 = h3
    t1 = t1
    t2 = t2
    s1 = s1
    s2 = s2
    r1 = r1
    r2 = r2
    r3 = r3
    Requests = {r1, r2, r3}
    Users = {u1, u2}
    Emails = {e1, e2}
    AddressOf <- Addresses
    AccountIds = {o, p, q, n}
    HandleNames = {h1, h2, h3}
    Tokens = {t1, t2}
    Slugs = {s1, s2}
    Starts <- AllStarts
INVARIANTS
    TypeOK
    RemovalTakesEffect
    TokenShowsMemberships
    OrganisationKeepsOwner
    HandleIsOwn
    OwnershipDropped
    SweptIsGone
    DeletedLeavesNothing
PROPERTIES
    KeepsRegistry
    EveryCallAnswered
