SPECIFICATION Spec
CONSTANTS
    s1 = s1
    s2 = s2
    z1 = z1
    z2 = z2
    z3 = z3
    Server <- TwoServers
    Zone = {z1, z2, z3}
    ServerOf <- TwoAndOne
    Char = {a, b}
    Port = {p, q}
    Byte = 8
    Word = 16
    Key = {2, 3}
    Trouble = {"restart", "outage"}
    NoChar = NoChar
    NoZone = NoZone
    NoServer = NoServer
    NoPort = NoPort
INVARIANT TypeOK
INVARIANT OneInPlay
INVARIANT RowOfPlayer
INVARIANT SameKey
