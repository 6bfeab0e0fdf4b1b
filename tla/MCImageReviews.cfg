\* Uploads of two near duplicates, one batch of both images, and three operators.
CONSTANTS
    u1 = u1
    u2 = u2
    u3 = u3
    p1 = p1
    p2 = p2
    a = a
    b = b
    None = None
    Uploads = {u1, u3}
    Requests = {p1}
    Reviews = {v1, v2, v3}
    Contents = {a, b}
    Near <- MCNear
    Flagged = {b}
    Sent <- MCSent
    FolderOf <- MCFolderOf
    LabelOf <- MCLabelOf
    Corrections = {None, "good"}
    MaxFailures = 0
SPECIFICATION Spec
INVARIANTS
    JudgementsStand
CHECK_DEADLOCK FALSE
