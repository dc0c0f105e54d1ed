\* Lots in the pool of a zone, which stays when its last member leaves.
CONSTANTS
    Player = {p1, p2}
    ItemID = {1}
    RARE = {}
    EX = {}
    TREASUREPOOL_SIZE = 2
    PartySize = 2
    LiveTime = 0
    MaxItems = 3
    MaxLot = 2
    Capacity = 1
SPECIFICATION Spec
PROPERTY ZoneKeepsLots
