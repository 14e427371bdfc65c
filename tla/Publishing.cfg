\* Devices publish, refresh and edit one plan.
SPECIFICATION PlanFairSpec
CONSTANTS
    Absent = Absent
    Anon = Anon
    a = a  e1 = e1  e2 = e2  p1 = p1  d1 = d1  d2 = d2  x = x  y = y  z = z
    r1 = r1  r2 = r2  r3 = r3
    Accounts = {a}
    Requests = {r1, r2, r3}
    Entries = {e1, e2}
    Plans = {p1}
    Stamps = {1}
    Contents <- Archives
    MaxVersion = 4
    MaxWalk = 2
    FailedDeletes = {}
    Starts <- PublishingStarts
    Devices = {d1, d2}
    Edits = {x, y, z}
    ShellEdits = {z}
    Author <- AuthorOf
    Works <- PairsAndTriples
INVARIANTS
    PlanTypeOK
    EditsKept
    BadgeIsTrue
PROPERTIES
    EveryJobEnds
