\* Three characters, who are a party or share the pool of a zone; a plain and a
\* RARE item, and one slot, so that the second item evicts the first.
\* Liveness: no symmetry.
CONSTANTS
    Player = {p1, p2, p3}
    ItemID = {1, 2}
    RARE = {2}
    EX = {}
    TREASUREPOOL_SIZE = 1
    PartySize = 2
    LiveTime = 1
    MaxItems = 2
    MaxLot = 2
    Capacity = 1
SPECIFICATION FairSpec
INVARIANT TypeOK
INVARIANT OnePlace
INVARIANT CountCoversItems
INVARIANT SoloHasOneMember
INVARIANT LottersAreMembers
PROPERTY NoSecondThrow
PROPERTY PassedNeverWin
PROPERTY HighestLotWins
PROPERTY EveryItemLeaves
