\* Do the bytes of accepted images remain when two ingestions of one image overlap?
CONSTANTS
    u1 = u1
    u2 = u2
    u3 = u3
    p1 = p1
    p2 = p2
    a = a
    b = b
    None = None
    Uploads = {u1, u2}
    Requests = {}
    Reviews = {}
    Contents = {a, b}
    Near <- MCNear
    Flagged = {b}
    Sent <- MCSent
    FolderOf <- MCFolderOf
    LabelOf <- MCLabelOf
    Corrections = {None}
    MaxFailures = 0
SPECIFICATION Spec
INVARIANTS
    AcceptedBytesRemain
CHECK_DEADLOCK FALSE
