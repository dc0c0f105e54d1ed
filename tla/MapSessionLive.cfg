SPECIFICATION FairSpec
CONSTANTS
    s1 = s1
    s2 = s2
    z1 = z1
    z2 = z2
    z3 = z3
    Server <- TwoServers
    Zone = {z1, z2}
    ServerOf <- OneEach
    Char = {a}
    Port = {p}
    Byte = 8
    Word = 16
    Key = {2}
    Trouble = {"lost_dezone", "again_dezone", "crash_zoning"}
    NoChar = NoChar
    NoZone = NoZone
    NoServer = NoServer
    NoPort = NoPort
PROPERTY PlayerGetsIn
PROPERTY SessionEnds
