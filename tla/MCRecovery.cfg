SPECIFICATION Spec
CONSTANTS
    Passwords = {old, new, weak}
    Weak = {weak}
    Old = old
    Flows = {f1, f2, f3, f4}
    Tokens = {device, s1, s2, s3, s4, s5, s6}
    Device = device
    Calls = {c1, c2}
    MaxFaults = 3
    None = None
INVARIANTS
    AnswersTellTheTruth
    RejectedPasswordKeepsAWayBack
    SignedInSessionIsSettled
    HiddenRowsHaveEnded
PROPERTIES
    TheUserGetsIn
CHECK_DEADLOCK FALSE
