CONSTANTS
    NULL = NULL
    q1 = q1
    q2 = q2
    q3 = q3
    p1 = p1
    p2 = p2
    u1 = u1
    u2 = u2
    a1 = a1
    a2 = a2
    Request = {q1, q2, q3}
    Part = {p1, p2}
    Upload = {u1, u2}
    Account = {a1, a2}
    PartOf <- MCPartOf
    UploadOf <- MCUploadOf
    AccountOf <- MCAccountOf
    Global = 2
    PerAccount = 1
    MaxFaults = 1
\* A deleted upload leaves nothing to do.
CHECK_DEADLOCK FALSE
SPECIFICATION FairSpec
INVARIANTS PartInv ReceivedPartKept AccountLimit
PROPERTIES ImplementsPartLedger PartsReceived
