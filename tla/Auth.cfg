\* Sign-in, sessions and two devices, three requests at a time.
SPECIFICATION FairSpec
CONSTANTS
    Absent = Absent
    First = First
    u1 = u1
    u2 = u2
    u3 = u3
    u4 = u4
    e1 = e1
    e2 = e2
    i1 = i1
    i2 = i2
    g = g
    d1 = d1
    d2 = d2
    s1 = s1
    s2 = s2
    s3 = s3
    s4 = s4
    s5 = s5
    k1 = k1
    k2 = k2
    k3 = k3
    k4 = k4
    k5 = k5
    k6 = k6
    src = src
    r1 = r1
    r2 = r2
    r3 = r3
    Requests = {r1, r2, r3}
    Devices = {d1, d2}
    Users = {u1, u2, u3, u4}
    Emails = {e1, e2}
    Identities = {i1, i2, g}
    MailIdentity <- MailIdentities
    SessionIds = {s1, s2, s3, s4, s5}
    Sources = {src}
    Challenges = {k1, k2}
    Authorizations = {k3, k5}
    Handoffs = {k4, k6}
    MaxCodeAttempts = 2
    RecipientLimit = 2
    RecipientDayLimit = 3
    SourceLimit = 3
    Hour = 1
    Day = 2
    MaxClock = 2
    MaxLapsed = 1
    MaxFaults = 1
    Starts <- AllStarts
INVARIANTS
    TypeOK
    DeviceTokenIsLive
    EndedStaysEnded
    DevicesListed
    AddressDecidesUser
    IdentityResolves
    SingleUse
    BudgetIsMail
PROPERTIES
    EveryCallAnswered
