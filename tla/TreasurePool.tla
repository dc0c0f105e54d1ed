----------------------------- MODULE TreasurePool -----------------------------
(***************************************************************************)
(* The pool in which the items that fall from monsters wait until a member *)
(* of the party gets them (src/src/map/treasure_pool.cpp, class            *)
(* CTreasurePool).  Members lot for an item or pass on it; an item goes to *)
(* the highest lot when everybody has lotted or when its five minutes are  *)
(* over.  A pool of a zone (Dynamis) outlives its members, any other pool  *)
(* is deleted with its last one, which is the pool type NONE here.         *)
(*                                                                         *)
(* Each item that falls has a number, a ghost that tells two items with    *)
(* the same ItemID apart.  Time is counted in units that are longer than   *)
(* treasure_checktime, and an age stops growing when it is beyond LiveTime.*)
(***************************************************************************)
EXTENDS Integers, Sequences, FiniteSets

CONSTANTS
    Player,             \* the characters that may be members
    ItemID,             \* kinds of items that fall
    RARE, EX,           \* the kinds that have ITEM_FLAG_RARE, ITEM_FLAG_EX
    TREASUREPOOL_SIZE,  \* slots of the pool (10)
    PartySize,          \* TREASUREPOOL_PARTY (6)
    LiveTime,           \* treasure_livetime
    MaxItems,           \* bound: items that fall
    MaxLot,             \* bound: highest lot (1000)
    Capacity            \* bound: items an inventory holds

ASSUME PlayerAssumption ==
    IsFiniteSet(Player) /\ "nobody" \notin Player /\ "stays" \notin Player
ASSUME ItemAssumption ==
    /\ ItemID \subseteq Nat \ {0}
    /\ RARE \subseteq ItemID /\ EX \subseteq ItemID
ASSUME BoundsAssumption ==
    /\ TREASUREPOOL_SIZE \in Nat \ {0} /\ PartySize \in Nat \ {0}
    /\ LiveTime \in Nat /\ MaxItems \in Nat /\ MaxLot \in Nat \ {0}
    /\ Capacity \in Nat

VARIABLES
    m_TreasurePoolType, \* NONE, SOLO, PARTY, ALLIANCE or ZONE
    members,            \* the characters whose PTreasurePool is this pool
    m_count,            \* uint8 count of the items
    m_PoolItems,        \* the slots
    inventory,          \* the items of the pool each character got and kept
    uptime,             \* age of the server, up to beyond LiveTime
    dropped             \* ghost: how many items have fallen

vars == <<m_TreasurePoolType, members, m_count, m_PoolItems, inventory, uptime,
          dropped>>

Slot   == 0..TREASUREPOOL_SIZE - 1
Age    == 0..LiveTime + 1
NoItem == [n |-> 0, ID |-> 0]
Item   == [n : 1..MaxItems, ID : ItemID]

\* The lot of a pass, and a mutant: the mask the packet shows for it.
PassMask   == 65535
PassedLot  == 0

LotInfo == [member : Player, lot : 0..MaxLot]
PoolItem == [item : Item \cup {NoItem}, age : Age, Lotters : Seq(LotInfo)]

EmptySlot == [item |-> NoItem, age |-> 0, Lotters |-> <<>>]
Occupied == {s \in Slot : m_PoolItems[s].item # NoItem}

Init ==
    /\ m_TreasurePoolType \in {"NONE", "ZONE"}
    /\ members = {}
    /\ m_count = 0
    /\ m_PoolItems = [s \in Slot |-> EmptySlot]
    /\ inventory = [p \in Player |-> {}]
    /\ uptime \in Age
    /\ dropped = 0

(***************************************************************************)
(* Lots                                                                    *)
(***************************************************************************)
HasLottedItem(p, slot) ==
    \E i \in DOMAIN slot.Lotters : slot.Lotters[i].member = p

HasNoVote(p, slot) == ~HasLottedItem(p, slot)   \* mutant: absent means passed
HasPassedItem(p, slot) ==
    \E i \in DOMAIN slot.Lotters : /\ slot.Lotters[i].member = p
                                   /\ slot.Lotters[i].lot = 0

\* Where the lot of p is (LottersAreMembers: there is one at most).
LotOf(p, Lotters) == CHOOSE i \in DOMAIN Lotters : Lotters[i].member = p

\* The first of the highest lots that are no pass; and a mutant: the last one.
LatestLotter(Lotters) ==
    {Lotters[i].member : i \in {i \in DOMAIN Lotters :
        /\ Lotters[i].lot > 0
        /\ \A j \in DOMAIN Lotters : Lotters[j].lot > 0 => j <= i}}
HighestLotter(Lotters) ==
    {Lotters[i].member : i \in {i \in DOMAIN Lotters :
        /\ Lotters[i].lot > 0
        /\ \A j \in DOMAIN Lotters : \/ Lotters[j].lot < Lotters[i].lot
                                     \/ Lotters[j].lot = Lotters[i].lot /\ i <= j}}

\* DelMember removes the lots of a character that leaves, in every slot; and a
\* mutant: only where an item is left.  Another mutant removes the lot after it.
WithoutNext(Lotters, i) ==
    SubSeq(Lotters, 1, i) \o SubSeq(Lotters, i + 2, Len(Lotters))
Without(Lotters, i) ==
    SubSeq(Lotters, 1, i - 1) \o SubSeq(Lotters, i + 1, Len(Lotters))
LotsRemoved(slot, p) ==
    IF \E i \in DOMAIN slot.Lotters : slot.Lotters[i].member = p
    THEN [slot EXCEPT !.Lotters = Without(@, LotOf(p, @))]
    ELSE slot
LotsRemovedOfItems(slot, p) ==
    IF slot.item = NoItem THEN slot ELSE LotsRemoved(slot, p)
LotsForgotten(slot, p) == LotsRemoved(slot, p)

(***************************************************************************)
(* CheckTreasureItem                                                       *)
(***************************************************************************)
\* What the operations below compute on: the slots, the count, inventories.
Pool == [slots |-> m_PoolItems, count |-> m_count, held |-> inventory]
Become(pool) == /\ m_PoolItems' = pool.slots
                /\ m_count' = pool.count
                /\ inventory' = pool.held

HasRoom(held) == Cardinality(held) < Capacity

\* AddItem of charutils refuses a second item of a RARE kind.
MayTake(held, item) ==
    HasRoom(held) /\ ~(item.ID \in RARE /\ \E i \in held : i.ID = item.ID)

Young(age) == age <= LiveTime       \* mutant: the comparison turned around
Expired(age) == age > LiveTime

\* The condition of CheckTreasureItem; held gives the inventories.
Due(slot, held) ==
    /\ slot.item # NoItem
    /\ \/ Expired(slot.age)
       \/ m_TreasurePoolType = "SOLO" /\ \E p \in members : HasRoom(held[p])
       \/ Len(slot.Lotters) = Cardinality(members)

\* Who may get the item: the highest lotter, or without a lot any member that
\* did not pass.  Nobody: there is no such character, its inventory is full,
\* it has the RARE item already, or the database refuses the new row.
Nobody == "nobody"
Stays  == "stays"
Outcome(slot, held) ==
    LET first == HighestLotter(slot.Lotters)
        takers == IF first # {} THEN first
                  ELSE {p \in members : ~HasPassedItem(p, slot)}
    IN  {Nobody} \cup {p \in takers : MayTake(held[p], slot.item)}

\* TreasureWon, TreasureError, TreasureLost; and a mutant that forgets the ID.
ItemKept(slot) == [EmptySlot EXCEPT !.item = slot.item]
Cleared(slot) == EmptySlot

\* m_count is a uint8; and a mutant that is one less for each item resolved.
FewerByTwo(count, k) == (count - 2 * k) % 256
Fewer(count, k) == (count - k) % 256

\* The inventories after the slots below s went to the characters of won.
Held(pool, won, s) ==
    [p \in Player |-> pool.held[p] \cup
        {pool.slots[t].item : t \in {t \in Slot : t < s /\ won[t] = p}}]

\* What pool may become when CheckTreasureItem runs for the slots of looked,
\* lowest first: won says for each slot who got its item.
Checked(pool, looked) ==
    LET Right(won) ==
            \A s \in Slot :
                IF s \in looked /\ Due(pool.slots[s], Held(pool, won, s))
                THEN won[s] \in Outcome(pool.slots[s], Held(pool, won, s))
                ELSE won[s] = Stays
        Result(won) ==
            [slots |-> [s \in Slot |-> IF won[s] = Stays THEN pool.slots[s]
                                       ELSE Cleared(pool.slots[s])],
             count |-> Fewer(pool.count,
                             Cardinality({s \in Slot : won[s] # Stays})),
             held |-> Held(pool, won, TREASUREPOOL_SIZE)]
    IN  {Result(won) : won \in {w \in [Slot -> Player \cup {Nobody, Stays}] :
                                    Right(w)}}

(***************************************************************************)
(* Members come and go: CharZoneIn and CharZoneOut, joining and leaving a  *)
(* party or an alliance                                                    *)
(***************************************************************************)
\* new CTreasurePool(type) and AddMember of the first character
NewPool(p, type) ==
    /\ m_TreasurePoolType = "NONE"
    /\ m_TreasurePoolType' = type
    /\ members' = {p}
    /\ UNCHANGED <<m_count, m_PoolItems, inventory, uptime, dropped>>

LargerThanTwo(type, n) ==           \* mutant: off by one
    IF type = "SOLO" /\ n > 2 THEN "PARTY" ELSE type
Larger(type, n) ==
    IF type = "SOLO" /\ n > 1 THEN "PARTY"
    ELSE IF type = "PARTY" /\ n > PartySize THEN "ALLIANCE" ELSE type

AddMember(p) ==
    /\ m_TreasurePoolType # "NONE" /\ p \notin members
    /\ members' = members \cup {p}
    /\ m_TreasurePoolType' = Larger(m_TreasurePoolType, Cardinality(members'))
    /\ UNCHANGED <<m_count, m_PoolItems, inventory, uptime, dropped>>

DelMember(p) ==
    /\ p \in members
    /\ members' = members \ {p}
    /\ IF members' = {} /\ m_TreasurePoolType # "ZONE"
       THEN /\ m_TreasurePoolType' = "NONE"
            /\ m_count' = 0
            /\ m_PoolItems' = [s \in Slot |-> EmptySlot]
       ELSE /\ m_TreasurePoolType' =
                   IF m_TreasurePoolType \in {"PARTY", "ALLIANCE"}
                         /\ Cardinality(members') = 1
                   THEN "SOLO" ELSE m_TreasurePoolType
            /\ m_PoolItems' = [s \in Slot |-> LotsForgotten(m_PoolItems[s], p)]
            /\ UNCHANGED m_count
    /\ UNCHANGED <<inventory, uptime, dropped>>

(***************************************************************************)
(* Items                                                                   *)
(***************************************************************************)
\* The slots AddItem evicts from when none is free: the oldest of the items
\* that are neither RARE nor EX, else that are not EX, else of all.  Items of
\* one age are not told apart.
Evicted ==
    LET ID(s) == m_PoolItems[s].item.ID
        plain == {s \in Slot : ID(s) \notin RARE \cup EX}
        notEx == {s \in Slot : ID(s) \notin EX}
        class == IF plain # {} THEN plain ELSE IF notEx # {} THEN notEx ELSE Slot
    IN  {s \in class : \A t \in class : m_PoolItems[t].age <= m_PoolItems[s].age}

\* The first free slot.
Free == {s \in Slot \ Occupied : \A t \in Slot \ Occupied : s <= t}

\* A new item in slot s.  The lots that are there stay there.
Put(pool, s, item) ==
    [slots |-> [pool.slots EXCEPT ![s] =
                    [item |-> item, age |-> 0, Lotters |-> @.Lotters]],
     count |-> (pool.count + 1) % 256,
     held |-> pool.held]

AddItem(id) ==
    /\ dropped < MaxItems /\ members # {}
    /\ dropped' = dropped + 1
    /\ \E s \in (IF Free # {} THEN Free ELSE Evicted) :
       \E room \in (IF Free # {} THEN {Pool}
                    ELSE Checked([Pool EXCEPT !.slots[s].age = uptime], {s})) :
          LET pool == Put(room, s, [n |-> dropped + 1, ID |-> id])
          IN  \E result \in (IF m_TreasurePoolType = "SOLO"
                             THEN Checked(pool, {s}) ELSE {pool}) :
                 Become(result)
    /\ UNCHANGED <<m_TreasurePoolType, members, uptime>>

\* The end of LotItem and PassItem.
CheckIfAllLotted(pool, s) ==
    \E result \in (IF Len(pool.slots[s].Lotters) = Cardinality(members)
                   THEN Checked(pool, {s}) ELSE {pool}) :
        Become(result)

\* SmallPacket0x041.  Nothing looks whether there is an item in the slot.
LotItem(p, s, lot) ==
    /\ p \in members /\ ~HasLottedItem(p, m_PoolItems[s])
    /\ CheckIfAllLotted(
           [Pool EXCEPT !.slots[s].Lotters =
               Append(@, [member |-> p, lot |-> lot])], s)
    /\ UNCHANGED <<m_TreasurePoolType, members, uptime, dropped>>

\* SmallPacket0x042
PassItem(p, s) ==
    /\ p \in members /\ ~HasPassedItem(p, m_PoolItems[s])
    /\ LET Passed(Lotters) ==
               IF HasLottedItem(p, m_PoolItems[s])
               THEN [Lotters EXCEPT ![LotOf(p, Lotters)].lot = PassedLot]
               ELSE Append(Lotters, [member |-> p, lot |-> PassedLot])
       IN  CheckIfAllLotted(
               [Pool EXCEPT !.slots[s].Lotters = Passed(@)], s)
    /\ UNCHANGED <<m_TreasurePoolType, members, uptime, dropped>>

\* The zone's tick does this for every member that is there.
CheckItems ==
    /\ members # {} /\ m_count # 0
    /\ \E result \in Checked(Pool, Slot) : Become(result)
    /\ UNCHANGED <<m_TreasurePoolType, members, uptime, dropped>>

(***************************************************************************)
(* The rest of the world: time, and characters that use up their items     *)
(***************************************************************************)
Older(age) == IF age > LiveTime THEN age ELSE age + 1

PassTime ==
    /\ uptime' = Older(uptime)
    /\ m_PoolItems' = [s \in Slot |->
           IF s \in Occupied THEN [m_PoolItems[s] EXCEPT !.age = Older(@)]
           ELSE m_PoolItems[s]]
    /\ UNCHANGED <<m_TreasurePoolType, members, m_count, inventory, dropped>>

UseItem(p, item) ==
    /\ item \in inventory[p]
    /\ inventory' = [inventory EXCEPT ![p] = @ \ {item}]
    /\ UNCHANGED <<m_TreasurePoolType, members, m_count, m_PoolItems, uptime,
                   dropped>>

Next ==
    \/ \E p \in Player :
          \/ \E type \in {"SOLO", "PARTY"} : NewPool(p, type)
          \/ AddMember(p)
          \/ DelMember(p)
          \/ \E s \in Slot : \/ PassItem(p, s)
                             \/ \E lot \in 1..MaxLot : LotItem(p, s, lot)
          \/ \E item \in inventory[p] : UseItem(p, item)
    \/ \E id \in ItemID : AddItem(id)
    \/ CheckItems
    \/ PassTime

Spec == Init /\ [][Next]_vars

\* The zone server calls CheckItems every tick for each character in a zone.
FairSpec == Spec /\ WF_vars(CheckItems) /\ WF_vars(PassTime)

-----------------------------------------------------------------------------
(***************************************************************************)
(* Properties                                                              *)
(***************************************************************************)
\* Types of the variables.
TypeOK ==
    /\ m_TreasurePoolType \in {"NONE", "SOLO", "PARTY", "ALLIANCE", "ZONE"}
    /\ members \in SUBSET Player
    /\ m_count \in 0..255
    /\ m_PoolItems \in [Slot -> PoolItem]
    /\ inventory \in [Player -> SUBSET Item]
    /\ uptime \in Age
    /\ dropped \in 0..MaxItems

\* Whoever has a lot in a slot, of an item or of none, is a member of the pool
\* and has one lot there.  LotItem compares the number of lots with the number
\* of members for equality, and CheckTreasureItem hands the item to the
\* character of a lot: a lot that outlives its member would be a character that
\* may be gone, and two lots of one member would make the numbers meet early.
LottersAreMembers ==
    \A s \in Slot :
        LET Lotters == m_PoolItems[s].Lotters
        IN  \A i, j \in DOMAIN Lotters :
                /\ Lotters[i].member \in members
                /\ Lotters[i].member = Lotters[j].member => i = j

\* An item is in one place: it is in one slot or in one inventory, however
\* eviction, expiry and simultaneous lots meet (TreasureWon clears the slot).
OnePlace ==
    /\ \A s, t \in Occupied : m_PoolItems[s].item = m_PoolItems[t].item => s = t
    /\ \A p \in Player : \A s \in Occupied : m_PoolItems[s].item \notin inventory[p]
    /\ \A p, q \in Player : p # q => inventory[p] \cap inventory[q] = {}

\* CheckItems skips the pool when m_count is 0: the count may be too large
\* (an item that is overwritten in its slot stays counted) but never too small.
CountCoversItems == m_count >= Cardinality(Occupied)

\* A pool of type SOLO has one member: CheckTreasureItem looks at the inventory
\* of members[0] alone to give an item away at once.
SoloHasOneMember ==
    m_TreasurePoolType = "SOLO" => Cardinality(members) = 1

\* A member's lot stays as it was cast, or becomes a pass, until the item is
\* gone or the member is: there is no second throw of the dice (0x041 asks
\* HasLottedItem, PassItem overwrites the lot in place).
NoSecondThrow ==
    [][\A s \in Occupied : \A i \in DOMAIN m_PoolItems[s].Lotters :
          LET cast == m_PoolItems[s].Lotters[i]
              Lotters == m_PoolItems'[s].Lotters
          IN  (m_PoolItems'[s].item = m_PoolItems[s].item /\ cast.member \in members')
              => \E j \in DOMAIN Lotters : /\ Lotters[j].member = cast.member
                                           /\ Lotters[j].lot \in {cast.lot, 0}]_vars

\* An item never goes to somebody who has passed on it, not even by the random
\* choice when nobody lots ("Give to random member who has not passed").
PassedNeverWin ==
    [][\A s \in Occupied : \A i \in DOMAIN m_PoolItems[s].Lotters :
          LET cast == m_PoolItems[s].Lotters[i]
          IN  cast.lot = 0
              => m_PoolItems[s].item \notin inventory'[cast.member]]_vars

\* An item never goes to somebody while another member has a higher lot for
\* it, unless that member passes at this moment ("Find item's highest lotter").
HighestLotWins ==
    [][\A s \in Occupied : \A i, j \in DOMAIN m_PoolItems[s].Lotters :
          LET low == m_PoolItems[s].Lotters[i]
              high == m_PoolItems[s].Lotters[j]
          IN  (low.lot < high.lot /\ m_PoolItems[s].item \in inventory'[low.member])
              => PassItem(high.member, s)]_vars

\* What the comment in DelMember says instead: "Zone drops e.g. Dynamis DO NOT
\* remove previous lot info."  In the pool of a zone the lots on an item stay
\* when a character leaves.  The code there is commented out.
ZoneKeepsLots ==
    [][\A p \in Player, s \in Occupied :
          m_TreasurePoolType = "ZONE" /\ DelMember(p)
              => m_PoolItems'[s].Lotters = m_PoolItems[s].Lotters]_vars

\* Every item leaves the pool: it is won or lost at the latest when a check
\* finds it expired, whoever joins, leaves, lots or passes, as long as there
\* are members.
EveryItemLeaves ==
    \A n \in 1..MaxItems :
        (\E s \in Slot : m_PoolItems[s].item.n = n)
        ~> ((\A s \in Slot : m_PoolItems[s].item.n # n) \/ members = {})
=============================================================================
