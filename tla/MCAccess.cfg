\* Three calls, two at a time; one change of an account, one fault.
CONSTANTS
    Calls = {c1, c2, c3}
    Root = Root
    Session = Session
    own = own
    plain = plain
    capital = capital
    Addresses = {own, plain, capital}
    Normal <- MCNormal
    Roles = {1, 3}
    Permissions = {"submit_feedback", "manage_users"}
    None = None
    MaxChanges = 1
    MaxFaults = 1
SYMMETRY CallSymmetry
VIEW CallView
CONSTRAINT RootIsOwn
SPECIFICATION Spec
ACTION_CONSTRAINT TwoAtATime
INVARIANTS
    AccountsAreTrue
    SessionsAreTrue
CHECK_DEADLOCK FALSE
