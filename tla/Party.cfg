CONSTANTS
    Char <- MCChar
    Server = {s1, s2}
    Six = 2
    Trouble = {}
    MaxMessages = 2
    MaxInvites = 1
    NoChar = NoChar
    NoServer = NoServer
    Gone = Gone
SPECIFICATION Spec
INVARIANT OneParty
INVARIANT OneLeader
INVARIANT Agree
CHECK_DEADLOCK FALSE
SYMMETRY Servers
