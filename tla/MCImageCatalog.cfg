\* Two uploads of the same image and two batches that share both images; two failures.
CONSTANTS
    u1 = u1
    u2 = u2
    u3 = u3
    p1 = p1
    p2 = p2
    a = a
    b = b
    None = None
    Uploads = {u1, u2}
    Requests = {p1, p2}
    Reviews = {}
    Contents = {a, b}
    Near <- MCNear
    Flagged = {b}
    Sent <- MCSent
    FolderOf <- MCFolderOf
    LabelOf <- MCLabelOf
    Corrections = {None}
    MaxFailures = 2
SPECIFICATION FairSpec
INVARIANTS
    TypeOK
    OneRowPerContent
    BytesAreKept
    OrphansAreExplained
    RequestsFindTheirImages
PROPERTIES
    EveryCallEnds
CHECK_DEADLOCK FALSE
