SPECIFICATION Spec
CONSTANTS
    u1 = u1
    u2 = u2
    e1 = e1
    e2 = e2
    s1 = s1
    s2 = s2
    f1 = f1
    f2 = f2
    NoUser = NoUser
    Users = {u1, u2}
    Admins = {u2}
    Exceptions = {e1}
    Sessions = {s1}
    Rules = {f1}
    BlockRules = {}
    Types = {"freeze_override", "policy_override"}
    Gates = {"window_overrun"}
    Dispositions = {"accepted"}
    Windows = {"scheduled"}
    MaxInFlight = 1
    Autocommit = TRUE
CHECK_DEADLOCK FALSE
INVARIANTS
    DecisionsAgree
    EmergencyEndsAtClose
    DispatchWasAuthorized
PROPERTIES
    AuthorityNeverReturns
