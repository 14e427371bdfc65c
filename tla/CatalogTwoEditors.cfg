\* Two uploads with the same If-Match.
SPECIFICATION Spec
CONSTANTS
    Absent = Absent
    Anon = Anon
    a = a
    b = b
    e1 = e1
    e2 = e2
    e3 = e3
    p1 = p1
    p2 = p2
    c1 = c1
    c2 = c2
    c3 = c3
    r1 = r1
    r2 = r2
    r3 = r3
    Accounts = {a, b}
    Requests = {r1, r2}
    Entries = {e1, e2, e3}
    Plans = {p1, p2}
    Contents = {c1, c2, c3}
    MaxVersion = 5
    MaxWalk = 2
    FailedDeletes = {}
    Starts <- TwoEditors
INVARIANTS
    AcknowledgedListed
