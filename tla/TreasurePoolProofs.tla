-------------------------- MODULE TreasurePoolProofs --------------------------
(***************************************************************************)
(* Proofs about TreasurePool, for any finite set of characters, any number *)
(* of slots and items and any lots:                                        *)
(*   TypeCorrect        Spec => []TypeOK                                   *)
(*   LottersCorrect     Spec => []LottersAreMembers                        *)
(*   OnePlaceCorrect    Spec => []OnePlace                                 *)
(*   SoloCorrect        Spec => []SoloHasOneMember                         *)
(*   PassedCorrect      Spec => PassedNeverWin                             *)
(*   HighestCorrect     Spec => HighestLotWins                             *)
(*   NoSecondCorrect    Spec => NoSecondThrow                              *)
(*   CountCorrect       Spec => []CountCoversItems, if m_count cannot      *)
(*                      overflow                                           *)
(* The inductive invariant is PoolInv.  LottersAreMembers needs that a     *)
(* deleted pool has no lots, since the pool that comes after it starts     *)
(* from its state; OnePlace needs that the number of the next item is new. *)
(***************************************************************************)
EXTENDS TreasurePool, FiniteSetTheorems, SequenceTheorems, NaturalsInduction,
        WellFoundedInduction, TLAPS

USE PlayerAssumption, ItemAssumption, BoundsAssumption

\* The values Pool takes.
PoolType == [slots : [Slot -> PoolItem], count : 0..255,
             held : [Player -> SUBSET Item]]

\* LottersAreMembers for one slot and the members of mem.
LotsOf(slot, mem) ==
    \A i, j \in DOMAIN slot.Lotters :
        /\ slot.Lotters[i].member \in mem
        /\ slot.Lotters[i].member = slot.Lotters[j].member => i = j

LotsIn(pool, mem) == \A s \in Slot : LotsOf(pool.slots[s], mem)

\* OnePlace for a value of Pool.
OnePlaceIn(pool) ==
    /\ \A s, t \in Slot : pool.slots[s].item # NoItem
                          /\ pool.slots[s].item = pool.slots[t].item => s = t
    /\ \A p \in Player : \A s \in Slot :
          pool.slots[s].item # NoItem => pool.slots[s].item \notin pool.held[p]
    /\ \A p, q \in Player : p # q => pool.held[p] \cap pool.held[q] = {}

\* No item has a number above k.
NumbersIn(pool, k) ==
    /\ \A s \in Slot : pool.slots[s].item.n <= k
    /\ \A p \in Player : \A x \in pool.held[p] : x.n <= k

\* A deleted pool is as new.
DeletedIsEmpty ==
    m_TreasurePoolType = "NONE" =>
        members = {} /\ \A s \in Slot : m_PoolItems[s] = EmptySlot

PoolInv ==
    /\ TypeOK
    /\ LottersAreMembers
    /\ OnePlace
    /\ NumbersIn(Pool, dropped)
    /\ SoloHasOneMember
    /\ DeletedIsEmpty

-----------------------------------------------------------------------------
(***************************************************************************)
(* Lots                                                                    *)
(***************************************************************************)
\* NoItem is no item.
LEMMA NoItemIsNone == NoItem \notin Item
  BY DEF NoItem, Item

\* An empty slot is a slot without lots.
LEMMA EmptySlotType == EmptySlot \in PoolItem /\ \A mem : LotsOf(EmptySlot, mem)
  <1>1. <<>> \in Seq(LotInfo) /\ Len(<<>>) = 0 /\ DOMAIN <<>> = {}
    BY EmptySeq
  <1>2. 0 \in Age
    BY DEF Age
  <1> QED BY <1>1, <1>2 DEF EmptySlot, PoolItem, LotsOf

\* A sequence without its i-th element.
LEMMA WithoutLot ==
  ASSUME NEW L \in Seq(LotInfo), NEW i \in DOMAIN L
  PROVE  /\ Without(L, i) \in Seq(LotInfo)
         /\ DOMAIN Without(L, i) = 1..Len(L) - 1
         /\ \A j \in DOMAIN Without(L, i) :
               /\ j \in DOMAIN L /\ j < i => Without(L, i)[j] = L[j]
               /\ j >= i => j + 1 \in DOMAIN L /\ Without(L, i)[j] = L[j + 1]
               /\ j \in Nat /\ j < Len(L)
  <1> DEFINE A == SubSeq(L, 1, i - 1)
             B == SubSeq(L, i + 1, Len(L))
  <1>1. Len(L) \in Nat /\ DOMAIN L = 1..Len(L) /\ i \in 1..Len(L)
    BY LenProperties
  <1>2. /\ A \in Seq(LotInfo) /\ Len(A) = i - 1
        /\ \A j \in 1..i - 1 : A[j] = L[j]
    <2>1. \A j \in 1..i - 1 : L[j] \in LotInfo
      BY <1>1, ElementOfSeq
    <2>2. /\ A \in Seq(LotInfo)
          /\ Len(A) = IF 1 <= i - 1 THEN (i - 1) - 1 + 1 ELSE 0
          /\ \A j \in 1..(i - 1) - 1 + 1 : A[j] = L[1 + j - 1]
      BY <1>1, <2>1, SubSeqProperties
    <2> QED BY <1>1, <2>2
  <1>3. /\ B \in Seq(LotInfo) /\ Len(B) = Len(L) - i
        /\ \A j \in 1..Len(L) - i : B[j] = L[i + j]
    <2>1. \A j \in i + 1..Len(L) : L[j] \in LotInfo
      BY <1>1, ElementOfSeq
    <2>2. /\ B \in Seq(LotInfo)
          /\ Len(B) = IF i + 1 <= Len(L) THEN Len(L) - (i + 1) + 1 ELSE 0
          /\ \A j \in 1..Len(L) - (i + 1) + 1 : B[j] = L[i + 1 + j - 1]
      BY <1>1, <2>1, SubSeqProperties
    <2> QED BY <1>1, <2>2
  <1>4. /\ Without(L, i) \in Seq(LotInfo)
        /\ Len(Without(L, i)) = Len(L) - 1
        /\ \A j \in 1..Len(L) - 1 :
              Without(L, i)[j] = IF j <= i - 1 THEN A[j] ELSE B[j - (i - 1)]
    <2>1. /\ A \o B \in Seq(LotInfo) /\ Len(A \o B) = Len(A) + Len(B)
          /\ \A j \in 1..Len(A) + Len(B) :
                (A \o B)[j] = IF j <= Len(A) THEN A[j] ELSE B[j - Len(A)]
      <3>1. A \in Seq(LotInfo) /\ B \in Seq(LotInfo)
        BY <1>2, <1>3
      <3> HIDE DEF A, B
      <3> QED BY <3>1, ConcatProperties
    <2>2. Len(A) = i - 1 /\ Len(B) = Len(L) - i /\ Len(A) + Len(B) = Len(L) - 1
      BY <1>1, <1>2, <1>3
    <2>3. Without(L, i) = A \o B
      BY DEF Without
    <2> HIDE DEF A, B
    <2> QED BY <2>1, <2>2, <2>3
  <1>5. DOMAIN Without(L, i) = 1..Len(L) - 1
    BY <1>4, LenProperties
  <1>6. ASSUME NEW j \in 1..Len(L) - 1
        PROVE  /\ j \in DOMAIN L /\ j < i => Without(L, i)[j] = L[j]
               /\ j >= i => j + 1 \in DOMAIN L /\ Without(L, i)[j] = L[j + 1]
               /\ j \in Nat /\ j < Len(L)
    <2>1. CASE j < i
      <3>1. j \in 1..i - 1 /\ j <= i - 1 /\ j \in 1..Len(L) /\ j < Len(L)
        BY <1>1, <2>1
      <3>2. Without(L, i)[j] = A[j] /\ A[j] = L[j]
        BY <1>2, <1>4, <3>1
      <3>3. ~(j >= i)
        BY <1>1, <2>1
      <3> QED BY <1>1, <3>1, <3>2, <3>3
    <2>2. CASE j >= i
      <3>1. j - (i - 1) \in 1..Len(L) - i /\ i + (j - (i - 1)) = j + 1
        BY <1>1, <2>2
      <3>2. B[j - (i - 1)] = L[j + 1]
        BY <1>3, <3>1
      <3>3. Without(L, i)[j] = B[j - (i - 1)]
        BY <1>1, <1>4, <2>2
      <3>4. /\ j + 1 \in 1..Len(L) /\ ~(j < i) /\ j < Len(L) /\ j \in Nat
        BY <1>1, <2>2
      <3> QED BY <1>1, <3>2, <3>3, <3>4
    <2>3. j < i \/ j >= i
      BY <1>1
    <2> QED BY <2>1, <2>2, <2>3
  <1> QED BY <1>4, <1>5, <1>6

\* DelMember leaves the lots of the others, one each.
LEMMA LotsForgottenOf ==
  ASSUME NEW slot \in PoolItem, NEW mem, LotsOf(slot, mem), NEW p
  PROVE  /\ LotsForgotten(slot, p) \in PoolItem
         /\ LotsForgotten(slot, p).item = slot.item
         /\ LotsOf(LotsForgotten(slot, p), mem \ {p})
  <1> DEFINE L == slot.Lotters
             N == Without(L, LotOf(p, L))
  <1>1. L \in Seq(LotInfo) /\ Len(L) \in Nat /\ DOMAIN L = 1..Len(L)
    BY LenProperties DEF PoolItem
  <1>2. CASE \E i \in DOMAIN L : L[i].member = p
    <2>1. LotOf(p, L) \in DOMAIN L /\ L[LotOf(p, L)].member = p
      BY <1>2 DEF LotOf
    <2>2. LotsForgotten(slot, p) = [slot EXCEPT !.Lotters = N]
      BY <1>2 DEF LotsForgotten, LotsRemoved
    <2>3. N \in Seq(LotInfo)
      BY <1>1, <2>1, WithoutLot
    <2>4. /\ LotsForgotten(slot, p) \in PoolItem
          /\ LotsForgotten(slot, p).item = slot.item
          /\ LotsForgotten(slot, p).Lotters = N
      BY <2>2, <2>3 DEF PoolItem
    <2>5. ASSUME NEW j \in DOMAIN N
          PROVE  \E k \in DOMAIN L \ {LotOf(p, L)} :
                    /\ N[j] = L[k]
                    /\ k = IF j < LotOf(p, L) THEN j ELSE j + 1
      <3>1. /\ j \in DOMAIN L /\ j < LotOf(p, L) => N[j] = L[j]
            /\ j >= LotOf(p, L) => j + 1 \in DOMAIN L /\ N[j] = L[j + 1]
            /\ j \in Nat /\ j < Len(L)
        BY <1>1, <2>1, WithoutLot
      <3>2. j \in 1..Len(N)
        BY <2>3, LenProperties
      <3>3. j \in DOMAIN L
        BY <1>1, <3>1, <3>2
      <3> QED BY <1>1, <2>1, <3>1, <3>3
    <2>6. ASSUME NEW j \in DOMAIN N, NEW l \in DOMAIN N
          PROVE  /\ N[j].member \in mem \ {p}
                 /\ N[j].member = N[l].member => j = l
      <3>1. PICK k \in DOMAIN L \ {LotOf(p, L)} :
               N[j] = L[k] /\ k = IF j < LotOf(p, L) THEN j ELSE j + 1
        BY <2>5
      <3>2. PICK m \in DOMAIN L \ {LotOf(p, L)} :
               N[l] = L[m] /\ m = IF l < LotOf(p, L) THEN l ELSE l + 1
        BY <2>5
      <3>3. L[k].member # p /\ L[k].member \in mem
        BY <2>1, <3>1 DEF LotsOf
      <3>4. L[k].member = L[m].member => k = m
        BY <3>1, <3>2 DEF LotsOf
      <3>5. j \in Nat /\ l \in Nat
        BY <2>3, LenProperties
      <3>6. k = m => j = l
        BY <1>1, <2>1, <3>1, <3>2, <3>5
      <3> QED BY <3>1, <3>2, <3>3, <3>4, <3>6
    <2> QED BY <2>4, <2>6 DEF LotsOf
  <1>3. CASE ~\E i \in DOMAIN L : L[i].member = p
    <2>1. LotsForgotten(slot, p) = slot
      BY <1>3 DEF LotsForgotten, LotsRemoved
    <2> QED BY <1>3, <2>1 DEF LotsOf
  <1> QED BY <1>2, <1>3

-----------------------------------------------------------------------------
(***************************************************************************)
(* CheckTreasureItem                                                       *)
(***************************************************************************)
\* What the slots, the count and the inventories are after won.
Given(pool, r, won) ==
    /\ r.count = Fewer(pool.count, Cardinality({s \in Slot : won[s] # Stays}))
    /\ \A s \in Slot :
          /\ won[s] = Stays => r.slots[s] = pool.slots[s]
          /\ won[s] # Stays => /\ r.slots[s] = EmptySlot
                               /\ pool.slots[s].item # NoItem
                               /\ \E held : won[s] \in Outcome(pool.slots[s], held)
    /\ \A p \in Player :
          r.held[p] = pool.held[p] \cup
              {pool.slots[t].item : t \in {t \in Slot : won[t] = p}}

\* The count is a uint8.
LEMMA FewerType ==
  ASSUME NEW c \in Int, NEW k \in Nat
  PROVE  Fewer(c, k) \in 0..255
  <1>1. c - k \in Int
    OBVIOUS
  <1>2. \A d \in Int : d % 256 \in 0..255
    OBVIOUS
  <1> QED BY <1>1, <1>2 DEF Fewer

\* Every result of a check is such a pool.
LEMMA CheckedGiven ==
  ASSUME NEW pool \in PoolType, NEW looked \in SUBSET Slot,
         NEW r \in Checked(pool, looked)
  PROVE  /\ r \in PoolType
         /\ \E won \in [Slot -> Player \cup {Nobody, Stays}] : Given(pool, r, won)
  <1>1. PICK won \in [Slot -> Player \cup {Nobody, Stays}] :
          /\ \A s \in Slot :
               IF s \in looked /\ Due(pool.slots[s], Held(pool, won, s))
               THEN won[s] \in Outcome(pool.slots[s], Held(pool, won, s))
               ELSE won[s] = Stays
          /\ r = [slots |-> [s \in Slot |-> IF won[s] = Stays THEN pool.slots[s]
                                            ELSE Cleared(pool.slots[s])],
                  count |-> Fewer(pool.count,
                                  Cardinality({s \in Slot : won[s] # Stays})),
                  held |-> Held(pool, won, TREASUREPOOL_SIZE)]
    BY DEF Checked
  <1>2. ASSUME NEW s \in Slot
        PROVE  /\ won[s] = Stays => r.slots[s] = pool.slots[s]
               /\ won[s] # Stays =>
                     /\ r.slots[s] = EmptySlot
                     /\ pool.slots[s].item # NoItem
                     /\ \E held : won[s] \in Outcome(pool.slots[s], held)
    BY <1>1 DEF Due, Cleared
  <1>3. ASSUME NEW p \in Player
        PROVE  r.held[p] = pool.held[p] \cup
                  {pool.slots[t].item : t \in {t \in Slot : won[t] = p}}
    <2>1. {t \in Slot : t < TREASUREPOOL_SIZE /\ won[t] = p}
            = {t \in Slot : won[t] = p}
      BY DEF Slot
    <2> QED BY <1>1, <2>1 DEF Held
  <1>4. Given(pool, r, won)
    BY <1>1, <1>2, <1>3 DEF Given
  <1>5. r.slots \in [Slot -> PoolItem]
    BY <1>1, EmptySlotType DEF PoolType, Cleared
  <1>6. r.held \in [Player -> SUBSET Item]
    <2>1. ASSUME NEW p \in Player, NEW x \in r.held[p]  PROVE  x \in Item
      <3>1. CASE x \in pool.held[p]
        BY <3>1 DEF PoolType
      <3>2. CASE \E t \in Slot : won[t] = p /\ x = pool.slots[t].item
        BY <1>2, <3>2 DEF PoolType, PoolItem, Stays
      <3> QED BY <1>3, <2>1, <3>1, <3>2
    <2>2. DOMAIN r.held = Player
      BY <1>1 DEF Held
    <2>3. r.held = [p \in Player |-> r.held[p]]
      BY <1>1 DEF Held
    <2> QED BY <2>1, <2>3
  <1>7. r.count \in 0..255
    <2>1. 0 \in Int /\ TREASUREPOOL_SIZE - 1 \in Int
      OBVIOUS
    <2>2. IsFiniteSet(Slot)
      BY <2>1, FS_Interval DEF Slot
    <2>3. Cardinality({s \in Slot : won[s] # Stays}) \in Nat
      BY <2>2, FS_Subset, FS_CardinalityType
    <2>4. pool.count \in Int
      BY DEF PoolType
    <2>5. Fewer(pool.count, Cardinality({s \in Slot : won[s] # Stays})) \in 0..255
      BY <2>3, <2>4, FewerType
    <2> QED BY <1>1, <2>5
  <1> QED BY <1>1, <1>4, <1>5, <1>6, <1>7 DEF PoolType

\* A check keeps what the invariant says of the pool.
LEMMA CheckedKeeps ==
  ASSUME NEW pool \in PoolType, NEW looked \in SUBSET Slot, NEW mem, NEW k \in Nat,
         LotsIn(pool, mem), OnePlaceIn(pool), NumbersIn(pool, k),
         NEW r \in Checked(pool, looked)
  PROVE  /\ r \in PoolType
         /\ LotsIn(r, mem) /\ OnePlaceIn(r) /\ NumbersIn(r, k)
  <1>1. r \in PoolType
    BY CheckedGiven
  <1>2. PICK won \in [Slot -> Player \cup {Nobody, Stays}] : Given(pool, r, won)
    BY CheckedGiven
  <1>3. \A s \in Slot : /\ r.slots[s] \in {pool.slots[s], EmptySlot}
                        /\ r.slots[s].item # NoItem =>
                              won[s] = Stays /\ r.slots[s] = pool.slots[s]
    BY <1>2 DEF Given, EmptySlot
  <1>4. LotsIn(r, mem)
    BY <1>3, EmptySlotType DEF LotsIn
  <1>5. ASSUME NEW p \in Player, NEW x \in r.held[p]
        PROVE  x \in pool.held[p]
               \/ \E t \in Slot : /\ won[t] = p /\ x = pool.slots[t].item
                                  /\ x # NoItem /\ r.slots[t] = EmptySlot
    BY <1>2 DEF Given, Stays
  <1>6. OnePlaceIn(r)
    <2>1. ASSUME NEW s \in Slot, NEW t \in Slot, r.slots[s].item # NoItem,
                 r.slots[s].item = r.slots[t].item
          PROVE  s = t
      BY <1>3, <2>1 DEF OnePlaceIn
    <2>2. ASSUME NEW p \in Player, NEW s \in Slot, r.slots[s].item # NoItem
          PROVE  r.slots[s].item \notin r.held[p]
      <3>1. r.slots[s] = pool.slots[s] /\ won[s] = Stays
        BY <1>3, <2>2
      <3>2. r.slots[s].item \notin pool.held[p]
        BY <2>2, <3>1 DEF OnePlaceIn
      <3>3. ASSUME NEW t \in Slot, won[t] = p, r.slots[s].item = pool.slots[t].item
            PROVE  FALSE
        BY <2>2, <3>1, <3>3 DEF OnePlaceIn, Stays
      <3> QED BY <1>5, <3>2, <3>3
    <2>3. ASSUME NEW p \in Player, NEW q \in Player, p # q,
                 NEW x \in r.held[p], x \in r.held[q]
          PROVE  FALSE
      <3>1. CASE x \in pool.held[p] /\ x \in pool.held[q]
        BY <2>3, <3>1 DEF OnePlaceIn
      <3>2. CASE \E t \in Slot : /\ won[t] = p /\ x = pool.slots[t].item
                                 /\ x # NoItem
        BY <1>5, <2>3, <3>2 DEF OnePlaceIn
      <3>3. CASE \E t \in Slot : /\ won[t] = q /\ x = pool.slots[t].item
                                 /\ x # NoItem
        BY <1>5, <2>3, <3>3 DEF OnePlaceIn
      <3> QED BY <1>5, <2>3, <3>1, <3>2, <3>3
    <2> QED BY <2>1, <2>2, <2>3 DEF OnePlaceIn
  <1>7. NumbersIn(r, k)
    <2>1. \A s \in Slot : r.slots[s].item.n <= k
      BY <1>3 DEF NumbersIn, EmptySlot, NoItem
    <2>2. ASSUME NEW p \in Player, NEW x \in r.held[p]  PROVE  x.n <= k
      BY <1>5 DEF NumbersIn
    <2> QED BY <2>1, <2>2 DEF NumbersIn
  <1> QED BY <1>1, <1>4, <1>6, <1>7

-----------------------------------------------------------------------------
(***************************************************************************)
(* The invariant is about the value of Pool                                *)
(***************************************************************************)
\* The parts of the invariant an operation on the pool can disturb.
PoolFine(pool, mem, k) ==
    /\ pool \in PoolType
    /\ LotsIn(pool, mem) /\ OnePlaceIn(pool) /\ NumbersIn(pool, k)

\* The state's pool has them.
LEMMA InvIsAboutPool == PoolInv => PoolFine(Pool, members, dropped)
  BY DEF PoolInv, PoolFine, TypeOK, Pool, PoolType, LottersAreMembers, LotsIn,
         LotsOf, OnePlace, OnePlaceIn, Occupied

\* They hold in the next state when it becomes a pool that has them.
LEMMA BecomeFine ==
  ASSUME NEW r, PoolFine(r, members', dropped'), Become(r)
  PROVE  /\ m_count' \in 0..255
         /\ m_PoolItems' \in [Slot -> PoolItem]
         /\ inventory' \in [Player -> SUBSET Item]
         /\ LottersAreMembers' /\ OnePlace' /\ NumbersIn(Pool, dropped)'
  BY DEF PoolFine, Become, PoolType, Pool, LottersAreMembers, LotsIn, LotsOf,
         OnePlace, OnePlaceIn, Occupied, NumbersIn

\* Other lots in a slot: the items stay where they are.
LEMMA OtherLots ==
  ASSUME NEW pool, NEW mem, NEW k, PoolFine(pool, mem, k),
         NEW s \in Slot, NEW L \in Seq(LotInfo),
         LotsOf([pool.slots[s] EXCEPT !.Lotters = L], mem)
  PROVE  PoolFine([pool EXCEPT !.slots[s].Lotters = L], mem, k)
  <1> DEFINE new == [pool EXCEPT !.slots[s].Lotters = L]
  <1>1. /\ new \in PoolType
        /\ new.slots = [pool.slots EXCEPT ![s].Lotters = L]
        /\ new.held = pool.held
    <2>1. pool \in PoolType /\ pool.slots[s] \in PoolItem
      BY DEF PoolFine, PoolType
    <2>2. [pool.slots[s] EXCEPT !.Lotters = L] \in PoolItem
      BY <2>1 DEF PoolItem
    <2>3. [pool.slots EXCEPT ![s] = [@ EXCEPT !.Lotters = L]] \in [Slot -> PoolItem]
      BY <2>1, <2>2 DEF PoolType
    <2>4. PICK S \in [Slot -> PoolItem], C \in 0..255, H \in [Player -> SUBSET Item] :
            pool = [slots |-> S, count |-> C, held |-> H]
      BY <2>1 DEF PoolType
    <2>5. pool.slots = S /\ pool.held = H
      BY <2>4
    <2>6. new = [slots |-> [S EXCEPT ![s].Lotters = L], count |-> C, held |-> H]
      <3>1. \A P : [P EXCEPT !.slots[s].Lotters = L]
                      = [P EXCEPT !.slots = [P.slots EXCEPT ![s].Lotters = L]]
        OBVIOUS
      <3>2. new = [pool EXCEPT !.slots = [S EXCEPT ![s].Lotters = L]]
        BY <2>5, <3>1
      <3> HIDE DEF new
      <3> QED BY <2>4, <3>2
    <2> HIDE DEF new
    <2>7. [S EXCEPT ![s].Lotters = L] \in [Slot -> PoolItem]
      BY <2>3, <2>5
    <2> QED BY <2>5, <2>6, <2>7 DEF PoolType
  <1>2. \A t \in Slot :
          /\ new.slots[t].item = pool.slots[t].item
          /\ new.slots[t] = IF t = s THEN [pool.slots[s] EXCEPT !.Lotters = L]
                            ELSE pool.slots[t]
    BY <1>1 DEF PoolFine, PoolType, PoolItem
  <1>3. LotsIn(new, mem)
    BY <1>2 DEF PoolFine, LotsIn
  <1>4. OnePlaceIn(new) /\ NumbersIn(new, k)
    BY <1>1, <1>2 DEF PoolFine, OnePlaceIn, NumbersIn
  <1> QED BY <1>1, <1>3, <1>4 DEF PoolFine

\* A check, and the check at the end of LotItem and PassItem.
LEMMA CheckFine ==
  ASSUME NEW pool, NEW mem, NEW k \in Nat, PoolFine(pool, mem, k),
         NEW looked \in SUBSET Slot, NEW r \in Checked(pool, looked)
  PROVE  PoolFine(r, mem, k)
  BY CheckedKeeps DEF PoolFine

\* The end of LotItem and PassItem leaves a pool as good as the one it checks.
LEMMA LottedFine ==
  ASSUME NEW pool, NEW s \in Slot, dropped \in Nat,
         PoolFine(pool, members, dropped), CheckIfAllLotted(pool, s)
  PROVE  \E r : PoolFine(r, members, dropped) /\ Become(r)
  <1>1. PICK r \in (IF Len(pool.slots[s].Lotters) = Cardinality(members)
                    THEN Checked(pool, {s}) ELSE {pool}) : Become(r)
    BY DEF CheckIfAllLotted
  <1>2. {s} \in SUBSET Slot
    OBVIOUS
  <1>3. PoolFine(r, members, dropped)
    BY <1>1, <1>2, CheckFine
  <1> QED BY <1>1, <1>3

\* A lot of a member that had none, at the end of the list.
LEMMA AppendedLot ==
  ASSUME NEW slot \in PoolItem, NEW mem \in SUBSET Player, LotsOf(slot, mem),
         NEW p \in mem, NEW lot \in 0..MaxLot, ~HasLottedItem(p, slot)
  PROVE  LET L == Append(slot.Lotters, [member |-> p, lot |-> lot])
         IN  L \in Seq(LotInfo) /\ LotsOf([slot EXCEPT !.Lotters = L], mem)
  <1> DEFINE new == [member |-> p, lot |-> lot]
             L == Append(slot.Lotters, new)
             n == Len(slot.Lotters)
  <1>1. slot.Lotters \in Seq(LotInfo) /\ n \in Nat
        /\ DOMAIN slot.Lotters = 1..n
    BY LenProperties DEF PoolItem
  <1>2. new \in LotInfo
    BY DEF LotInfo
  <1>3. /\ L \in Seq(LotInfo) /\ DOMAIN L = 1..n + 1
        /\ \A i \in 1..n : L[i] = slot.Lotters[i]
        /\ L[n + 1] = new
    BY <1>1, <1>2
  <1>4. ASSUME NEW i \in 1..n + 1
        PROVE  /\ i \in 1..n => L[i].member \in mem /\ L[i].member # p
               /\ i \notin 1..n => i = n + 1 /\ L[i].member = p
    BY <1>1, <1>3 DEF LotsOf, HasLottedItem
  <1>5. \A i, j \in 1..n : L[i].member = L[j].member => i = j
    BY <1>1, <1>3 DEF LotsOf
  <1>6. [slot EXCEPT !.Lotters = L].Lotters = L
    BY DEF PoolItem
  <1>7. ASSUME NEW i \in 1..n + 1, NEW j \in 1..n + 1
        PROVE  /\ L[i].member \in mem
               /\ L[i].member = L[j].member => i = j
    BY <1>4, <1>5
  <1> HIDE DEF L
  <1>8. LotsOf([slot EXCEPT !.Lotters = L], mem)
    BY <1>3, <1>6, <1>7 DEF LotsOf
  <1> QED BY <1>3, <1>8 DEF L

\* A lot that becomes a pass where it is.
LEMMA LotBecomesPass ==
  ASSUME NEW slot \in PoolItem, NEW mem \in SUBSET Player, LotsOf(slot, mem),
         NEW p \in mem, HasLottedItem(p, slot)
  PROVE  LET L == [slot.Lotters EXCEPT ![LotOf(p, slot.Lotters)].lot = PassedLot]
         IN  L \in Seq(LotInfo) /\ LotsOf([slot EXCEPT !.Lotters = L], mem)
  <1> DEFINE i == LotOf(p, slot.Lotters)
             pass == [slot.Lotters[i] EXCEPT !.lot = PassedLot]
             L == [slot.Lotters EXCEPT ![i] = pass]
  <1>1. slot.Lotters \in Seq(LotInfo) /\ Len(slot.Lotters) \in Nat
        /\ DOMAIN slot.Lotters = 1..Len(slot.Lotters)
    BY LenProperties DEF PoolItem
  <1>2. i \in 1..Len(slot.Lotters)
    BY <1>1 DEF HasLottedItem, LotOf
  <1>3. slot.Lotters[i] \in LotInfo
    BY <1>1, <1>2, ElementOfSeq
  <1>4. pass \in LotInfo /\ pass.member = slot.Lotters[i].member
    BY <1>3 DEF LotInfo, PassedLot
  <1>5. /\ L \in Seq(LotInfo) /\ DOMAIN L = 1..Len(slot.Lotters)
        /\ \A j \in 1..Len(slot.Lotters) :
              L[j] = IF j = i THEN pass ELSE slot.Lotters[j]
    <2> HIDE DEF i, pass
    <2> QED BY <1>1, <1>2, <1>4, ExceptSeq
  <1>6. \A j \in 1..Len(slot.Lotters) : L[j].member = slot.Lotters[j].member
    BY <1>4, <1>5
  <1>7. [slot EXCEPT !.Lotters = L].Lotters = L
    BY DEF PoolItem
  <1>8. L = [slot.Lotters EXCEPT ![i].lot = PassedLot]
    OBVIOUS
  <1> HIDE DEF L, i
  <1>9. LotsOf([slot EXCEPT !.Lotters = L], mem)
    BY <1>1, <1>5, <1>6, <1>7 DEF LotsOf
  <1>10. [slot.Lotters EXCEPT ![LotOf(p, slot.Lotters)].lot = PassedLot] = L
    BY <1>8 DEF i
  <1> QED
    <2> DEFINE M == [slot.Lotters EXCEPT ![LotOf(p, slot.Lotters)].lot = PassedLot]
    <2>1. M = L
      BY <1>10
    <2>2. M \in Seq(LotInfo)
      BY <2>1, <1>5
    <2>3. LotsOf([slot EXCEPT !.Lotters = M], mem)
      BY <2>1, <1>9
    <2> QED BY <2>2, <2>3, Zenon

-----------------------------------------------------------------------------
(***************************************************************************)
(* The invariant holds                                                     *)
(***************************************************************************)
\* Initially.
LEMMA PoolInit == Init => PoolInv
  <1> SUFFICES ASSUME Init PROVE PoolInv
    OBVIOUS
  <1>1. TypeOK
    BY EmptySlotType DEF Init, TypeOK
  <1>2. LottersAreMembers /\ DeletedIsEmpty
    BY EmptySlotType DEF Init, LottersAreMembers, LotsOf, DeletedIsEmpty
  <1>3. OnePlace /\ NumbersIn(Pool, dropped) /\ SoloHasOneMember
    BY DEF Init, OnePlace, Occupied, NumbersIn, Pool, EmptySlot, NoItem,
           SoloHasOneMember
  <1> QED BY <1>1, <1>2, <1>3 DEF PoolInv

\* The members of a pool are a finite set.
LEMMA MembersFinite ==
  ASSUME TypeOK
  PROVE  IsFiniteSet(members) /\ Cardinality(members) \in Nat
  BY FS_Subset, FS_CardinalityType DEF TypeOK

\* A new item in a slot, and what an eviction left there.
LEMMA PutFine ==
  ASSUME NEW room, NEW mem, NEW k \in Nat, PoolFine(room, mem, k),
         k < MaxItems, NEW s \in Slot, NEW id \in ItemID
  PROVE  PoolFine(Put(room, s, [n |-> k + 1, ID |-> id]), mem, k + 1)
  <1> DEFINE item == [n |-> k + 1, ID |-> id]
             slot == [item |-> item, age |-> 0, Lotters |-> room.slots[s].Lotters]
             new == [slots |-> [room.slots EXCEPT ![s] = slot],
                     count |-> (room.count + 1) % 256, held |-> room.held]
  <1>1. room \in PoolType /\ room.slots[s] \in PoolItem
    BY DEF PoolFine, PoolType
  <1>3. Put(room, s, item) = new
    BY DEF Put
  <1>4. item \in Item /\ item # NoItem /\ item.n = k + 1
    BY DEF Item, NoItem
  <1>5. /\ slot \in PoolItem /\ slot.item = item
        /\ slot.Lotters = room.slots[s].Lotters
    <2>1. 0 \in Age
      BY DEF Age
    <2> QED BY <1>1, <1>4, <2>1 DEF PoolItem
  <1>6. (room.count + 1) % 256 \in 0..255
    <2>1. room.count + 1 \in Int
      BY <1>1 DEF PoolType
    <2>2. \A d \in Int : d % 256 \in 0..255
      OBVIOUS
    <2> QED BY <2>1, <2>2
  <1> HIDE DEF slot
  <1>7. new \in PoolType
    BY <1>1, <1>5, <1>6 DEF PoolType
  <1>8. \A t \in Slot : new.slots[t] = IF t = s THEN slot ELSE room.slots[t]
    BY <1>1 DEF PoolType
  <1>9. LotsIn(new, mem)
    BY <1>5, <1>8 DEF PoolFine, LotsIn, LotsOf
  <1>10. /\ \A t \in Slot : room.slots[t].item # item
         /\ \A p \in Player : item \notin room.held[p]
    BY <1>4 DEF PoolFine, NumbersIn
  <1>11. OnePlaceIn(new)
    BY <1>4, <1>5, <1>8, <1>10 DEF PoolFine, OnePlaceIn
  <1>12. NumbersIn(new, k + 1)
    <2>1. \A t \in Slot : room.slots[t].item \in Item \cup {NoItem}
      BY <1>1 DEF PoolType, PoolItem
    <2>2. \A t \in Slot : room.slots[t].item.n \in Int
      BY <2>1 DEF Item, NoItem
    <2>3. \A p \in Player : \A x \in room.held[p] : x.n \in Int
      BY <1>1 DEF PoolType, Item
    <2> QED BY <1>4, <1>5, <1>8, <2>2, <2>3 DEF PoolFine, NumbersIn
  <1> QED BY <1>3, <1>7, <1>9, <1>11, <1>12 DEF PoolFine

\* A fresh slot age does not matter to the invariant (an eviction ages it).
LEMMA AgedFine ==
  ASSUME NEW pool, NEW mem, NEW k, PoolFine(pool, mem, k),
         NEW s \in Slot, NEW age \in Age
  PROVE  PoolFine([pool EXCEPT !.slots[s].age = age], mem, k)
  <1> DEFINE slot == [pool.slots[s] EXCEPT !.age = age]
             new == [slots |-> [pool.slots EXCEPT ![s] = slot],
                     count |-> pool.count, held |-> pool.held]
  <1>1. pool \in PoolType /\ pool.slots[s] \in PoolItem
    BY DEF PoolFine, PoolType
  <1>2. pool = [slots |-> pool.slots, count |-> pool.count, held |-> pool.held]
    BY <1>1 DEF PoolType
  <1>3. [pool EXCEPT !.slots[s].age = age] = new
    BY <1>1, <1>2 DEF PoolType
  <1>4. /\ slot \in PoolItem /\ slot.item = pool.slots[s].item
        /\ slot.Lotters = pool.slots[s].Lotters
    BY <1>1 DEF PoolItem
  <1> HIDE DEF slot
  <1>5. new \in PoolType
    BY <1>1, <1>4 DEF PoolType
  <1>6. \A t \in Slot : new.slots[t] = IF t = s THEN slot ELSE pool.slots[t]
    BY <1>1 DEF PoolType
  <1>7. LotsIn(new, mem) /\ OnePlaceIn(new) /\ NumbersIn(new, k)
    BY <1>4, <1>6 DEF PoolFine, LotsIn, LotsOf, OnePlaceIn, NumbersIn
  <1> QED BY <1>3, <1>5, <1>7 DEF PoolFine

\* An operation that changes the pool alone keeps the invariant.
LEMMA PoolOperation ==
  ASSUME PoolInv, members # {}, dropped' \in 0..MaxItems,
         NEW r, PoolFine(r, members, dropped'), Become(r),
         UNCHANGED <<m_TreasurePoolType, members, uptime>>
  PROVE  PoolInv'
  <1>1. m_TreasurePoolType # "NONE"
    BY DEF PoolInv, DeletedIsEmpty
  <1>2. SoloHasOneMember' /\ DeletedIsEmpty'
    BY <1>1 DEF PoolInv, SoloHasOneMember, DeletedIsEmpty
  <1>3. PoolFine(r, members', dropped')
    OBVIOUS
  <1>4. /\ m_count' \in 0..255
        /\ m_PoolItems' \in [Slot -> PoolItem]
        /\ inventory' \in [Player -> SUBSET Item]
        /\ LottersAreMembers' /\ OnePlace' /\ NumbersIn(Pool, dropped)'
    BY <1>3, BecomeFine
  <1>5. TypeOK'
    BY <1>4 DEF PoolInv, TypeOK
  <1> QED BY <1>2, <1>4, <1>5 DEF PoolInv

\* A first member of a new pool.
LEMMA NewPoolKeeps ==
  ASSUME PoolInv, NEW p \in Player, NEW type \in {"SOLO", "PARTY"},
         NewPool(p, type)
  PROVE  PoolInv'
  <1>1. \A s \in Slot : m_PoolItems'[s] = EmptySlot
    BY DEF PoolInv, DeletedIsEmpty, NewPool
  <1>2. LottersAreMembers'
    BY <1>1, EmptySlotType DEF LottersAreMembers, LotsOf
  <1>3. SoloHasOneMember' /\ DeletedIsEmpty'
    BY FS_Singleton DEF NewPool, SoloHasOneMember, DeletedIsEmpty
  <1>4. TypeOK'
    BY DEF NewPool, PoolInv, TypeOK
  <1>5. OnePlace' /\ NumbersIn(Pool, dropped)'
    BY DEF NewPool, PoolInv, OnePlace, Occupied, NumbersIn, Pool
  <1> QED BY <1>2, <1>3, <1>4, <1>5 DEF PoolInv

\* One member more.
LEMMA AddMemberKeeps ==
  ASSUME PoolInv, NEW p \in Player, AddMember(p)
  PROVE  PoolInv'
  <1>1. TypeOK'
    BY DEF AddMember, Larger, PoolInv, TypeOK
  <1>2. LottersAreMembers'
    BY DEF AddMember, PoolInv, LottersAreMembers
  <1>3. OnePlace' /\ NumbersIn(Pool, dropped)'
    BY DEF AddMember, PoolInv, OnePlace, Occupied, NumbersIn, Pool
  <1>4. SoloHasOneMember'
    <2>1. Cardinality(members') = Cardinality(members) + 1
      BY MembersFinite, FS_AddElement DEF AddMember, PoolInv
    <2>2. m_TreasurePoolType = "SOLO" => Cardinality(members') > 1
      BY <2>1 DEF PoolInv, SoloHasOneMember
    <2>3. m_TreasurePoolType' # "SOLO"
      BY <2>2 DEF AddMember, Larger
    <2> QED BY <2>3 DEF SoloHasOneMember
  <1>5. DeletedIsEmpty'
    BY DEF AddMember, Larger, DeletedIsEmpty
  <1> QED BY <1>1, <1>2, <1>3, <1>4, <1>5 DEF PoolInv

\* One member less, or the end of the pool.
LEMMA DelMemberKeeps ==
  ASSUME PoolInv, NEW p \in Player, DelMember(p)
  PROVE  PoolInv'
  <1>1. m_TreasurePoolType # "NONE"
    BY DEF PoolInv, DeletedIsEmpty, DelMember
  <1>2. CASE members' = {} /\ m_TreasurePoolType # "ZONE"
    <2>1. /\ m_TreasurePoolType' = "NONE" /\ m_count' = 0
          /\ m_PoolItems' = [s \in Slot |-> EmptySlot]
          /\ UNCHANGED <<inventory, uptime, dropped>>
      BY <1>2 DEF DelMember
    <2>2. TypeOK'
      BY <1>2, <2>1, EmptySlotType DEF PoolInv, TypeOK
    <2>3. LottersAreMembers'
      BY <2>1, EmptySlotType DEF LottersAreMembers, LotsOf
    <2>4. OnePlace' /\ NumbersIn(Pool, dropped)'
      BY <2>1 DEF PoolInv, TypeOK, OnePlace, Occupied, NumbersIn, Pool,
                  EmptySlot, NoItem
    <2>5. SoloHasOneMember' /\ DeletedIsEmpty'
      BY <1>2, <2>1 DEF SoloHasOneMember, DeletedIsEmpty
    <2> QED BY <2>2, <2>3, <2>4, <2>5 DEF PoolInv
  <1>3. CASE ~(members' = {} /\ m_TreasurePoolType # "ZONE")
    <2>1. /\ members' = members \ {p}
          /\ m_TreasurePoolType' =
                 IF m_TreasurePoolType \in {"PARTY", "ALLIANCE"}
                       /\ Cardinality(members') = 1
                 THEN "SOLO" ELSE m_TreasurePoolType
          /\ m_PoolItems' = [s \in Slot |-> LotsForgotten(m_PoolItems[s], p)]
          /\ UNCHANGED <<m_count, inventory, uptime, dropped>>
      BY <1>3 DEF DelMember
    <2>2. ASSUME NEW s \in Slot
          PROVE  /\ m_PoolItems'[s] \in PoolItem
                 /\ m_PoolItems'[s].item = m_PoolItems[s].item
                 /\ LotsOf(m_PoolItems'[s], members')
      <3>1. m_PoolItems[s] \in PoolItem /\ LotsOf(m_PoolItems[s], members)
        BY DEF PoolInv, TypeOK, LottersAreMembers, LotsOf
      <3> QED BY <2>1, <3>1, LotsForgottenOf
    <2>3. TypeOK'
      BY <2>1, <2>2 DEF PoolInv, TypeOK
    <2>4. LottersAreMembers'
      BY <2>2 DEF LottersAreMembers, LotsOf
    <2>5. OnePlace' /\ NumbersIn(Pool, dropped)'
      BY <2>1, <2>2 DEF PoolInv, OnePlace, Occupied, NumbersIn, Pool
    <2>6. SoloHasOneMember'
      <3>1. CASE m_TreasurePoolType = "SOLO"
        <4>1. \E x : members = {x}
          BY <3>1, MembersFinite, FS_Singleton DEF PoolInv, SoloHasOneMember
        <4>2. members' = {}
          BY <2>1, <4>1 DEF DelMember
        <4> QED BY <1>3, <3>1, <4>2
      <3>2. CASE m_TreasurePoolType # "SOLO"
        BY <2>1, <3>2 DEF SoloHasOneMember
      <3> QED BY <3>1, <3>2
    <2>7. DeletedIsEmpty'
      BY <1>1, <2>1 DEF DeletedIsEmpty
    <2> QED BY <2>3, <2>4, <2>5, <2>6, <2>7 DEF PoolInv
  <1> QED BY <1>2, <1>3

\* M has the lots of L, but p's may have become a pass.
Recast(L, M, p) ==
    /\ DOMAIN L \subseteq DOMAIN M
    /\ \A i \in DOMAIN L :
          /\ M[i].member = L[i].member
          /\ M[i].lot = L[i].lot \/ (L[i].member = p /\ M[i].lot = 0)

\* A lot, and the check when it was the last one.
LEMMA LotItemPool ==
  ASSUME PoolInv, NEW p \in Player, NEW s \in Slot, NEW lot \in 1..MaxLot,
         LotItem(p, s, lot)
  PROVE  \E L : /\ PoolFine([Pool EXCEPT !.slots[s].Lotters = L], members, dropped)
                /\ CheckIfAllLotted([Pool EXCEPT !.slots[s].Lotters = L], s)
                /\ Recast(m_PoolItems[s].Lotters, L, p)
  <1> DEFINE L == Append(m_PoolItems[s].Lotters, [member |-> p, lot |-> lot])
             lotted == [Pool EXCEPT !.slots[s].Lotters = L]
  <1>1. PoolFine(Pool, members, dropped) /\ dropped \in Nat
    BY InvIsAboutPool DEF PoolInv, TypeOK
  <1>2. /\ m_PoolItems[s] \in PoolItem /\ LotsOf(m_PoolItems[s], members)
        /\ members \in SUBSET Player /\ p \in members
        /\ ~HasLottedItem(p, m_PoolItems[s]) /\ lot \in 0..MaxLot
    BY DEF PoolInv, TypeOK, LottersAreMembers, LotsOf, LotItem
  <1>3. /\ L \in Seq(LotInfo)
        /\ LotsOf([m_PoolItems[s] EXCEPT !.Lotters = L], members)
    BY <1>2, AppendedLot
  <1>4. Pool.slots[s] = m_PoolItems[s]
    BY DEF Pool
  <1>5. CheckIfAllLotted(lotted, s)
    BY <1>4 DEF LotItem
  <1>7. Recast(m_PoolItems[s].Lotters, L, p)
    <2>1. m_PoolItems[s].Lotters \in Seq(LotInfo)
      BY <1>2 DEF PoolItem
    <2>2. [member |-> p, lot |-> lot] \in LotInfo
      BY <1>2 DEF LotInfo
    <2> QED BY <2>1, <2>2, LenProperties DEF Recast
  <1> HIDE DEF L
  <1>6. PoolFine(lotted, members, dropped)
    BY <1>1, <1>3, <1>4, OtherLots
  <1> QED BY <1>5, <1>6, <1>7

\* It keeps the invariant.
LEMMA LotItemKeeps ==
  ASSUME PoolInv, NEW p \in Player, NEW s \in Slot, NEW lot \in 1..MaxLot,
         LotItem(p, s, lot)
  PROVE  PoolInv'
  <1>1. PICK L : /\ PoolFine([Pool EXCEPT !.slots[s].Lotters = L], members, dropped)
                 /\ CheckIfAllLotted([Pool EXCEPT !.slots[s].Lotters = L], s)
    BY LotItemPool
  <1> DEFINE pool == [Pool EXCEPT !.slots[s].Lotters = L]
  <1>2. PoolFine(pool, members, dropped) /\ CheckIfAllLotted(pool, s)
    BY <1>1
  <1>3. dropped \in Nat /\ members # {}
    BY DEF PoolInv, TypeOK, LotItem
  <1> HIDE DEF pool
  <1>4. PICK r : PoolFine(r, members, dropped) /\ Become(r)
    BY <1>2, <1>3, LottedFine
  <1>5. UNCHANGED <<m_TreasurePoolType, members, uptime, dropped>>
    BY DEF LotItem
  <1>6. dropped' \in 0..MaxItems
    BY <1>5 DEF PoolInv, TypeOK
  <1> QED BY <1>3, <1>4, <1>5, <1>6, PoolOperation

\* A pass, new or in the place of a lot, and the check when it was the last.
LEMMA PassItemPool ==
  ASSUME PoolInv, NEW p \in Player, NEW s \in Slot, PassItem(p, s)
  PROVE  \E L : /\ PoolFine([Pool EXCEPT !.slots[s].Lotters = L], members, dropped)
                /\ CheckIfAllLotted([Pool EXCEPT !.slots[s].Lotters = L], s)
                /\ Recast(m_PoolItems[s].Lotters, L, p)
  <1> DEFINE old == m_PoolItems[s].Lotters
             L == IF HasLottedItem(p, m_PoolItems[s])
                  THEN [old EXCEPT ![LotOf(p, old)].lot = PassedLot]
                  ELSE Append(old, [member |-> p, lot |-> PassedLot])
             passed == [Pool EXCEPT !.slots[s].Lotters = L]
  <1>1. PoolFine(Pool, members, dropped) /\ dropped \in Nat
    BY InvIsAboutPool DEF PoolInv, TypeOK
  <1>2. /\ m_PoolItems[s] \in PoolItem /\ LotsOf(m_PoolItems[s], members)
        /\ members \in SUBSET Player /\ p \in members
        /\ PassedLot \in 0..MaxLot
    BY DEF PoolInv, TypeOK, LottersAreMembers, LotsOf, PassItem, PassedLot
  <1>3. /\ L \in Seq(LotInfo)
        /\ LotsOf([m_PoolItems[s] EXCEPT !.Lotters = L], members)
    <2>1. CASE HasLottedItem(p, m_PoolItems[s])
      BY <1>2, <2>1, LotBecomesPass
    <2>2. CASE ~HasLottedItem(p, m_PoolItems[s])
      BY <1>2, <2>2, AppendedLot
    <2> QED BY <2>1, <2>2
  <1>4. Pool.slots[s] = m_PoolItems[s]
    BY DEF Pool
  <1>5. CheckIfAllLotted(passed, s)
    BY <1>4 DEF PassItem
  <1>7. Recast(old, L, p)
    <2>1. old \in Seq(LotInfo)
      BY <1>2 DEF PoolItem
    <2>2. CASE HasLottedItem(p, m_PoolItems[s])
      <3>1. \A i \in DOMAIN old : old[i] \in LotInfo
        BY <2>1, LenProperties, ElementOfSeq
      <3>2. DOMAIN L = DOMAIN old
        BY <2>2
      <3>3. LotOf(p, old) \in DOMAIN old /\ old[LotOf(p, old)].member = p
        BY <2>2 DEF LotOf, HasLottedItem
      <3>4. ASSUME NEW i \in DOMAIN old
            PROVE  L[i] = IF i = LotOf(p, old) THEN [old[i] EXCEPT !.lot = PassedLot]
                          ELSE old[i]
        BY <2>2
      <3>5. ASSUME NEW i \in DOMAIN old
            PROVE  /\ L[i].member = old[i].member
                   /\ L[i].lot = IF i = LotOf(p, old) THEN 0 ELSE old[i].lot
        BY <3>1, <3>4 DEF LotInfo, PassedLot
      <3>6. ASSUME NEW i \in DOMAIN old, i = LotOf(p, old)
            PROVE  old[i].member = p
        BY <3>3, <3>6
      <3> HIDE DEF L, old
      <3>7. ASSUME NEW i \in DOMAIN old
            PROVE  /\ L[i].member = old[i].member
                   /\ L[i].lot = old[i].lot \/ (old[i].member = p /\ L[i].lot = 0)
        <4>1. CASE i = LotOf(p, old)
          BY <3>5, <3>6, <4>1
        <4>2. CASE i # LotOf(p, old)
          BY <3>5, <4>2
        <4> QED BY <4>1, <4>2
      <3>8. DOMAIN old \subseteq DOMAIN L
        BY <3>2
      <3> QED BY <3>7, <3>8 DEF Recast
    <2>3. CASE ~HasLottedItem(p, m_PoolItems[s])
      <3>1. [member |-> p, lot |-> PassedLot] \in LotInfo
        BY <1>2 DEF LotInfo
      <3>2. L = Append(old, [member |-> p, lot |-> PassedLot])
        BY <2>3
      <3>3. /\ DOMAIN old \subseteq DOMAIN L
            /\ \A i \in DOMAIN old : L[i] = old[i]
        <4> HIDE DEF L, old
        <4> QED BY <2>1, <3>1, <3>2, AppendProperties, LenProperties
      <3> HIDE DEF L, old
      <3> QED BY <3>3 DEF Recast
    <2> QED BY <2>2, <2>3
  <1> HIDE DEF L
  <1>6. PoolFine(passed, members, dropped)
    BY <1>1, <1>3, <1>4, OtherLots
  <1> QED BY <1>5, <1>6, <1>7

\* It keeps the invariant.
LEMMA PassItemKeeps ==
  ASSUME PoolInv, NEW p \in Player, NEW s \in Slot, PassItem(p, s)
  PROVE  PoolInv'
  <1>1. PICK L : /\ PoolFine([Pool EXCEPT !.slots[s].Lotters = L], members, dropped)
                 /\ CheckIfAllLotted([Pool EXCEPT !.slots[s].Lotters = L], s)
    BY PassItemPool
  <1> DEFINE pool == [Pool EXCEPT !.slots[s].Lotters = L]
  <1>2. PoolFine(pool, members, dropped) /\ CheckIfAllLotted(pool, s)
    BY <1>1
  <1>3. dropped \in Nat /\ members # {}
    BY DEF PoolInv, TypeOK, PassItem
  <1> HIDE DEF pool
  <1>4. PICK r : PoolFine(r, members, dropped) /\ Become(r)
    BY <1>2, <1>3, LottedFine
  <1>5. UNCHANGED <<m_TreasurePoolType, members, uptime, dropped>>
    BY DEF PassItem
  <1>6. dropped' \in 0..MaxItems
    BY <1>5 DEF PoolInv, TypeOK
  <1> QED BY <1>3, <1>4, <1>5, <1>6, PoolOperation

\* A new item: an eviction makes room if need be, and a pool of one member
\* is checked at once.
LEMMA AddItemKeeps ==
  ASSUME PoolInv, NEW id \in ItemID, AddItem(id)
  PROVE  PoolInv'
  <1> DEFINE item == [n |-> dropped + 1, ID |-> id]
  <1>1. PoolFine(Pool, members, dropped) /\ dropped \in Nat /\ uptime \in Age
    BY InvIsAboutPool DEF PoolInv, TypeOK
  <1>2. /\ dropped < MaxItems /\ dropped' = dropped + 1 /\ members # {}
        /\ UNCHANGED <<m_TreasurePoolType, members, uptime>>
    BY DEF AddItem
  <1>3. PICK s \in (IF Free # {} THEN Free ELSE Evicted) :
        \E room \in (IF Free # {} THEN {Pool}
                     ELSE Checked([Pool EXCEPT !.slots[s].age = uptime], {s})) :
           \E result \in (IF m_TreasurePoolType = "SOLO"
                          THEN Checked(Put(room, s, item), {s})
                          ELSE {Put(room, s, item)}) :
              Become(result)
    BY DEF AddItem
  <1>4. s \in Slot
    BY <1>3 DEF Free, Evicted
  <1>5. PICK room \in (IF Free # {} THEN {Pool}
                      ELSE Checked([Pool EXCEPT !.slots[s].age = uptime], {s})) :
           \E result \in (IF m_TreasurePoolType = "SOLO"
                          THEN Checked(Put(room, s, item), {s})
                          ELSE {Put(room, s, item)}) :
              Become(result)
    BY <1>3
  <1>6. {s} \in SUBSET Slot
    BY <1>4
  <1>7. PoolFine(room, members, dropped)
    <2>1. CASE Free # {}
      BY <1>1, <1>5, <2>1
    <2>2. CASE Free = {}
      <3>1. PoolFine([Pool EXCEPT !.slots[s].age = uptime], members, dropped)
        BY <1>1, <1>4, AgedFine
      <3> QED BY <1>1, <1>5, <1>6, <2>2, <3>1, CheckFine
    <2> QED BY <2>1, <2>2
  <1>8. PoolFine(Put(room, s, item), members, dropped + 1)
    BY <1>1, <1>2, <1>4, <1>7, PutFine
  <1>9. PICK r \in (IF m_TreasurePoolType = "SOLO"
                   THEN Checked(Put(room, s, item), {s})
                   ELSE {Put(room, s, item)}) : Become(r)
    BY <1>5
  <1>10. PoolFine(r, members, dropped + 1)
    BY <1>1, <1>6, <1>8, <1>9, CheckFine
  <1>11. PoolFine(r, members, dropped') /\ dropped' \in 0..MaxItems
    BY <1>1, <1>2, <1>10
  <1> QED BY <1>2, <1>9, <1>11, PoolOperation

\* The periodic check.
LEMMA CheckItemsKeeps ==
  ASSUME PoolInv, CheckItems
  PROVE  PoolInv'
  <1>1. PoolFine(Pool, members, dropped) /\ dropped \in Nat
    BY InvIsAboutPool DEF PoolInv, TypeOK
  <1>2. PICK r \in Checked(Pool, Slot) : Become(r)
    BY DEF CheckItems
  <1>3. /\ members # {}
        /\ UNCHANGED <<m_TreasurePoolType, members, uptime, dropped>>
    BY DEF CheckItems
  <1>4. PoolFine(r, members, dropped)
    BY <1>1, <1>2, CheckFine
  <1>5. PoolFine(r, members, dropped') /\ dropped' \in 0..MaxItems
    BY <1>3, <1>4 DEF PoolInv, TypeOK
  <1> QED BY <1>2, <1>3, <1>5, PoolOperation

\* A character uses up an item.
LEMMA UseItemKeeps ==
  ASSUME PoolInv, NEW p \in Player, NEW item \in inventory[p], UseItem(p, item)
  PROVE  PoolInv'
  <1>1. /\ inventory' = [inventory EXCEPT ![p] = @ \ {item}]
        /\ UNCHANGED <<m_TreasurePoolType, members, m_count, m_PoolItems, uptime,
                       dropped>>
    BY DEF UseItem
  <1>2. \A q \in Player : inventory'[q] \subseteq inventory[q]
    BY <1>1 DEF PoolInv, TypeOK
  <1>3. TypeOK'
    BY <1>1, <1>2 DEF PoolInv, TypeOK
  <1>4. OnePlace' /\ NumbersIn(Pool, dropped)'
    BY <1>1, <1>2 DEF PoolInv, OnePlace, Occupied, NumbersIn, Pool
  <1>5. LottersAreMembers' /\ SoloHasOneMember' /\ DeletedIsEmpty'
    BY <1>1 DEF PoolInv, LottersAreMembers, SoloHasOneMember, DeletedIsEmpty
  <1> QED BY <1>3, <1>4, <1>5 DEF PoolInv

\* Time makes the items older.
LEMMA PassTimeKeeps ==
  ASSUME PoolInv, PassTime
  PROVE  PoolInv'
  <1>1. UNCHANGED <<m_TreasurePoolType, members, m_count, inventory, dropped>>
    BY DEF PassTime
  <1>2. \A age \in Age : Older(age) \in Age
    BY DEF Older, Age
  <1>3. ASSUME NEW s \in Slot
        PROVE  /\ m_PoolItems'[s] \in PoolItem
               /\ m_PoolItems'[s].item = m_PoolItems[s].item
               /\ m_PoolItems'[s].Lotters = m_PoolItems[s].Lotters
               /\ s \notin Occupied => m_PoolItems'[s] = m_PoolItems[s]
    <2>1. m_PoolItems[s] \in PoolItem
      BY DEF PoolInv, TypeOK
    <2>2. m_PoolItems'[s] = IF s \in Occupied
                            THEN [m_PoolItems[s] EXCEPT !.age = Older(@)]
                            ELSE m_PoolItems[s]
      BY DEF PassTime
    <2> QED BY <1>2, <2>1, <2>2 DEF PoolItem
  <1>4. TypeOK'
    <2>1. m_PoolItems' \in [Slot -> PoolItem]
      BY <1>3 DEF PassTime
    <2> QED BY <1>1, <1>2, <2>1 DEF PassTime, PoolInv, TypeOK
  <1>5. LottersAreMembers'
    BY <1>1, <1>3 DEF PoolInv, LottersAreMembers
  <1>6. OnePlace' /\ NumbersIn(Pool, dropped)'
    BY <1>1, <1>3 DEF PoolInv, OnePlace, Occupied, NumbersIn, Pool
  <1>7. SoloHasOneMember' /\ DeletedIsEmpty'
    BY <1>1, <1>3 DEF PoolInv, SoloHasOneMember, DeletedIsEmpty, Occupied,
                      EmptySlot
  <1> QED BY <1>4, <1>5, <1>6, <1>7 DEF PoolInv

\* Every step keeps the invariant.
LEMMA PoolNext == PoolInv /\ [Next]_vars => PoolInv'
  <1> SUFFICES ASSUME PoolInv, [Next]_vars PROVE PoolInv'
    OBVIOUS
  <1>1. ASSUME NEW p \in Player, NEW type \in {"SOLO", "PARTY"}, NewPool(p, type)
        PROVE  PoolInv'
    BY <1>1, NewPoolKeeps
  <1>2. ASSUME NEW p \in Player, AddMember(p)  PROVE  PoolInv'
    BY <1>2, AddMemberKeeps
  <1>3. ASSUME NEW p \in Player, DelMember(p)  PROVE  PoolInv'
    BY <1>3, DelMemberKeeps
  <1>4. ASSUME NEW p \in Player, NEW s \in Slot, PassItem(p, s)  PROVE  PoolInv'
    BY <1>4, PassItemKeeps
  <1>5. ASSUME NEW p \in Player, NEW s \in Slot, NEW lot \in 1..MaxLot,
               LotItem(p, s, lot)
        PROVE  PoolInv'
    BY <1>5, LotItemKeeps
  <1>6. ASSUME NEW p \in Player, NEW item \in inventory[p], UseItem(p, item)
        PROVE  PoolInv'
    BY <1>6, UseItemKeeps
  <1>7. ASSUME NEW id \in ItemID, AddItem(id)  PROVE  PoolInv'
    BY <1>7, AddItemKeeps
  <1>8. CASE CheckItems
    BY <1>8, CheckItemsKeeps
  <1>9. CASE PassTime
    BY <1>9, PassTimeKeeps
  <1>10. CASE UNCHANGED vars
    BY <1>10 DEF vars, PoolInv, TypeOK, LottersAreMembers, OnePlace, Occupied,
                 NumbersIn, Pool, SoloHasOneMember, DeletedIsEmpty
  <1> QED BY <1>1, <1>2, <1>3, <1>4, <1>5, <1>6, <1>7, <1>8, <1>9, <1>10 DEF Next

-----------------------------------------------------------------------------
(***************************************************************************)
(* The lots decide                                                         *)
(***************************************************************************)
\* A vote of p in slot t: a lot or a pass.
Vote(p, t) == PassItem(p, t) \/ \E lot \in 1..MaxLot : LotItem(p, t, lot)

\* It changes the lots of its slot, in pool, and then checks it or does not.
Votes(p, t, pool, r) ==
    /\ PoolFine(pool, members, dropped) /\ pool.held = inventory
    /\ \A s \in Slot :
          /\ pool.slots[s].item = m_PoolItems[s].item
          /\ s # t => pool.slots[s].Lotters = m_PoolItems[s].Lotters
    /\ Recast(m_PoolItems[t].Lotters, pool.slots[t].Lotters, p)
    /\ r = pool \/ r \in Checked(pool, {t})
    /\ Become(r)

LEMMA VoteResult ==
  ASSUME PoolInv, NEW p \in Player, NEW t \in Slot, Vote(p, t)
  PROVE  \E pool, r : Votes(p, t, pool, r)
  <1>1. PICK L : /\ PoolFine([Pool EXCEPT !.slots[t].Lotters = L], members, dropped)
                 /\ CheckIfAllLotted([Pool EXCEPT !.slots[t].Lotters = L], t)
                 /\ Recast(m_PoolItems[t].Lotters, L, p)
    <2>1. CASE PassItem(p, t)
      BY <2>1, PassItemPool
    <2>2. CASE \E lot \in 1..MaxLot : LotItem(p, t, lot)
      BY <2>2, LotItemPool
    <2> QED BY <2>1, <2>2 DEF Vote
  <1>2. PICK pool : pool = [Pool EXCEPT !.slots[t].Lotters = L]
    OBVIOUS
  <1>3. m_PoolItems \in [Slot -> PoolItem] /\ m_PoolItems[t] \in PoolItem
    BY DEF PoolInv, TypeOK
  <1>4. pool = [slots |-> [m_PoolItems EXCEPT ![t] = [@ EXCEPT !.Lotters = L]],
                count |-> m_count, held |-> inventory]
    BY <1>2 DEF Pool
  <1>5. /\ [m_PoolItems[t] EXCEPT !.Lotters = L].item = m_PoolItems[t].item
        /\ [m_PoolItems[t] EXCEPT !.Lotters = L].Lotters = L
    BY <1>3 DEF PoolItem
  <1>6. /\ pool.held = inventory
        /\ \A s \in Slot :
              pool.slots[s] = IF s = t THEN [m_PoolItems[t] EXCEPT !.Lotters = L]
                              ELSE m_PoolItems[s]
    BY <1>3, <1>4
  <1>7. \A s \in Slot :
           /\ pool.slots[s].item = m_PoolItems[s].item
           /\ s # t => pool.slots[s].Lotters = m_PoolItems[s].Lotters
    BY <1>5, <1>6
  <1>8. Recast(m_PoolItems[t].Lotters, pool.slots[t].Lotters, p)
    BY <1>1, <1>5, <1>6
  <1>9. PoolFine(pool, members, dropped) /\ CheckIfAllLotted(pool, t)
    BY <1>1, <1>2
  <1>10. \E r \in (IF Len(pool.slots[t].Lotters) = Cardinality(members)
                  THEN Checked(pool, {t}) ELSE {pool}) : Become(r)
    BY <1>9 DEF CheckIfAllLotted
  <1>11. PICK r : (r = pool \/ r \in Checked(pool, {t})) /\ Become(r)
    <2>1. CASE Len(pool.slots[t].Lotters) = Cardinality(members)
      BY <1>10, <2>1
    <2>2. CASE Len(pool.slots[t].Lotters) # Cardinality(members)
      BY <1>10, <2>2
    <2> QED BY <2>1, <2>2
  <1>12. Votes(p, t, pool, r)
    BY <1>6, <1>7, <1>8, <1>9, <1>11 DEF Votes
  <1> QED BY <1>12

\* A set of numbers has a least one.
LEMMA LeastNumber ==
  ASSUME NEW S \in SUBSET Nat, S # {}
  PROVE  \E a \in S : \A b \in S : a <= b
  <1> DEFINE Less == OpToRel(<, Nat)
  <1>1. PICK a \in S : \A b \in S : ~ (<<b, a>> \in Less)
    <2>1. IsWellFoundedOn(Less, Nat)
      BY NatLessThanWellFounded, Zenon
    <2> HIDE DEF Less
    <2> QED BY <2>1, WFMin
  <1>2. ASSUME NEW b \in S  PROVE  a <= b
    <2>1. a \in Nat /\ b \in Nat
      OBVIOUS
    <2>2. ~ (b < a)
      BY <1>1, <2>1 DEF OpToRel
    <2> QED BY <2>1, <2>2
  <1> QED BY <1>1, <1>2

\* Where somebody has lotted, somebody has the first of the highest lots.
LEMMA SomebodyIsHighest ==
  ASSUME NEW L \in Seq(LotInfo), NEW j \in DOMAIN L, L[j].lot > 0
  PROVE  HighestLotter(L) # {}
  <1>1. /\ MaxLot \in Nat /\ DOMAIN L \subseteq Nat
        /\ \A i \in DOMAIN L : L[i].lot \in 0..MaxLot
    <2>1. /\ MaxLot \in Nat /\ Len(L) \in Nat /\ DOMAIN L = 1..Len(L)
          /\ \A i \in DOMAIN L : L[i] \in LotInfo
      BY LenProperties, ElementOfSeq, BoundsAssumption
    <2> QED BY <2>1 DEF LotInfo
  <1> DEFINE Short == {MaxLot - L[i].lot : i \in DOMAIN L}
  <1>2. Short \in SUBSET Nat /\ Short # {}
    BY <1>1
  <1>3. PICK m \in DOMAIN L : \A i \in DOMAIN L : L[i].lot <= L[m].lot
    <2>1. PICK a \in Short : \A b \in Short : a <= b
      <3> HIDE DEF Short
      <3> QED BY <1>2, LeastNumber
    <2>2. PICK m \in DOMAIN L : a = MaxLot - L[m].lot
      BY <2>1
    <2>3. ASSUME NEW i \in DOMAIN L  PROVE  L[i].lot <= L[m].lot
      <3>1. a <= MaxLot - L[i].lot
        BY <2>1
      <3> QED BY <1>1, <2>2, <3>1
    <2> QED BY <2>3
  <1> DEFINE Best == {i \in DOMAIN L : L[i].lot = L[m].lot}
  <1>4. Best \in SUBSET Nat /\ Best # {}
    BY <1>1
  <1>5. PICK k \in Best : \A i \in Best : k <= i
    <2> HIDE DEF Best
    <2> QED BY <1>4, LeastNumber
  <1>6. /\ k \in DOMAIN L /\ L[k].lot = L[m].lot
        /\ \A i \in DOMAIN L : L[i].lot = L[k].lot => k <= i
    BY <1>5
  <1>7. L[k].lot > 0
    BY <1>1, <1>3, <1>6
  <1>8. \A i \in DOMAIN L :
           L[i].lot < L[k].lot \/ (L[i].lot = L[k].lot /\ k <= i)
    BY <1>1, <1>3, <1>6
  <1> QED BY <1>6, <1>7, <1>8 DEF HighestLotter

\* q has passed, or somebody has a higher lot.
Beaten(L, q) ==
    \E i, j \in DOMAIN L : L[i].member = q /\ (L[i].lot = 0 \/ L[i].lot < L[j].lot)

\* The item of slot s is not q's, nor will it be if the slot is checked now.
OutOfReach(pool, s, q) ==
    /\ pool.slots[s].item # NoItem
    /\ pool.slots[s].item \notin pool.held[q]
    /\ Beaten(pool.slots[s].Lotters, q)

\* Who is beaten is not drawn.
LEMMA BeatenNotDrawn ==
  ASSUME NEW slot \in PoolItem, NEW mem, LotsOf(slot, mem), NEW held,
         NEW q \in Player, Beaten(slot.Lotters, q)
  PROVE  q \notin Outcome(slot, held)
  <1>1. PICK L : L = slot.Lotters
    OBVIOUS
  <1>2. PICK i, j \in DOMAIN L :
           L[i].member = q /\ (L[i].lot = 0 \/ L[i].lot < L[j].lot)
    BY <1>1 DEF Beaten
  <1>3. /\ L \in Seq(LotInfo) /\ L[i].lot \in Nat /\ L[j].lot \in Nat
        /\ \A k \in DOMAIN L : L[k].member = q => k = i
    <2>1. L \in Seq(LotInfo)
      BY <1>1 DEF PoolItem
    <2>2. L[i] \in LotInfo /\ L[j] \in LotInfo
      BY <1>2, <2>1, LenProperties, ElementOfSeq
    <2> QED BY <1>1, <1>2, <2>1, <2>2 DEF LotInfo, LotsOf
  <1>4. q \notin HighestLotter(L)
    <2>1. SUFFICES ASSUME q \in HighestLotter(L)  PROVE  FALSE
      OBVIOUS
    <2>2. PICK k \in DOMAIN L :
             /\ L[k].member = q /\ L[k].lot > 0
             /\ \A l \in DOMAIN L :
                   L[l].lot < L[k].lot \/ (L[l].lot = L[k].lot /\ k <= l)
      BY <2>1 DEF HighestLotter
    <2>3. k = i /\ (L[j].lot < L[i].lot \/ L[j].lot = L[i].lot) /\ L[i].lot > 0
      BY <1>3, <2>2
    <2> QED BY <1>2, <1>3, <2>3
  <1>5. HighestLotter(L) # {} \/ HasPassedItem(q, slot)
    <2>1. CASE L[i].lot = 0
      BY <1>1, <1>2, <2>1 DEF HasPassedItem
    <2>2. CASE L[i].lot # 0
      <3>1. L[j].lot > 0
        BY <1>2, <1>3, <2>2
      <3> QED BY <1>3, <3>1, SomebodyIsHighest
    <2> QED BY <2>1, <2>2
  <1>6. q # Nobody
    BY PlayerAssumption DEF Nobody
  <1> QED BY <1>1, <1>4, <1>5, <1>6 DEF Outcome

\* A check leaves a slot as it is, or empty.
LEMMA CheckedSlots ==
  ASSUME NEW pool \in PoolType, NEW looked \in SUBSET Slot,
         NEW r \in Checked(pool, looked)
  PROVE  \A t \in Slot : r.slots[t] \in {pool.slots[t], EmptySlot}
  <1>1. PICK won \in [Slot -> Player \cup {Nobody, Stays}] : Given(pool, r, won)
    BY CheckedGiven
  <1> QED BY <1>1 DEF Given

\* It does not bring within reach what is out of reach.
LEMMA CheckedBeaten ==
  ASSUME NEW pool, NEW mem, NEW k \in Nat, PoolFine(pool, mem, k),
         NEW looked \in SUBSET Slot, NEW r \in Checked(pool, looked),
         NEW s \in Slot, NEW q \in Player, OutOfReach(pool, s, q)
  PROVE  pool.slots[s].item \notin r.held[q]
  <1>1. PICK won \in [Slot -> Player \cup {Nobody, Stays}] : Given(pool, r, won)
    BY CheckedGiven DEF PoolFine
  <1>2. won[s] # q
    <2>1. SUFFICES ASSUME won[s] = q PROVE FALSE
      OBVIOUS
    <2>2. PICK held : q \in Outcome(pool.slots[s], held)
      BY <1>1, <2>1, PlayerAssumption DEF Given, Stays
    <2>3. /\ pool.slots[s] \in PoolItem /\ LotsOf(pool.slots[s], mem)
          /\ Beaten(pool.slots[s].Lotters, q)
      BY DEF PoolFine, PoolType, LotsIn, OutOfReach
    <2> QED BY <2>2, <2>3, BeatenNotDrawn
  <1>3. ASSUME pool.slots[s].item \in r.held[q]  PROVE  FALSE
    <2>1. pool.slots[s].item \notin pool.held[q]
      BY DEF OutOfReach
    <2>2. PICK t \in Slot : won[t] = q /\ pool.slots[t].item = pool.slots[s].item
      BY <1>1, <1>3, <2>1 DEF Given
    <2>3. t = s
      BY <2>2 DEF PoolFine, OnePlaceIn, OutOfReach
    <2> QED BY <1>2, <2>2, <2>3
  <1> QED BY <1>3

\* A vote gives an item to nobody who has passed on it, nor to anybody with a
\* lower lot than somebody whose vote it is not.
LEMMA VoteBeaten ==
  ASSUME PoolInv, NEW p \in Player, NEW t \in Slot, Vote(p, t),
         NEW s \in Occupied, NEW q \in Player, m_PoolItems[s].item \notin inventory[q],
         NEW i \in DOMAIN m_PoolItems[s].Lotters, m_PoolItems[s].Lotters[i].member = q,
         NEW j \in DOMAIN m_PoolItems[s].Lotters,
         \/ m_PoolItems[s].Lotters[i].lot = 0
         \/ /\ m_PoolItems[s].Lotters[i].lot < m_PoolItems[s].Lotters[j].lot
            /\ s # t \/ m_PoolItems[s].Lotters[j].member # p
  PROVE  m_PoolItems[s].item \notin inventory'[q]
  <1>1. PICK pool, r : Votes(p, t, pool, r)
    BY VoteResult
  <1>2. /\ PoolFine(pool, members, dropped) /\ pool.held = inventory
        /\ \A u \in Slot :
              /\ pool.slots[u].item = m_PoolItems[u].item
              /\ u # t => pool.slots[u].Lotters = m_PoolItems[u].Lotters
        /\ Recast(m_PoolItems[t].Lotters, pool.slots[t].Lotters, p)
        /\ r = pool \/ r \in Checked(pool, {t})
        /\ Become(r)
    BY <1>1 DEF Votes
  <1>3. /\ s \in Slot /\ m_PoolItems[s].item # NoItem
        /\ pool.slots[s].item = m_PoolItems[s].item
    BY <1>2 DEF Occupied
  <1>4. PICK L, M : L = m_PoolItems[s].Lotters /\ M = pool.slots[s].Lotters
    OBVIOUS
  <1>5. \/ M = L
        \/ s = t /\ Recast(L, M, p)
    BY <1>2, <1>3, <1>4
  <1>6. /\ i \in DOMAIN M /\ j \in DOMAIN M /\ M[i].member = q
        /\ M[i].lot = 0 \/ M[i].lot < M[j].lot
    <2>1. CASE M = L
      BY <1>4, <2>1
    <2>2. CASE s = t /\ Recast(L, M, p)
      BY <1>4, <2>2 DEF Recast
    <2> QED BY <1>5, <2>1, <2>2
  <1>7. OutOfReach(pool, s, q)
    BY <1>2, <1>3, <1>4, <1>6 DEF OutOfReach, Beaten
  <1>8. {t} \in SUBSET Slot /\ dropped \in Nat
    BY DEF PoolInv, TypeOK
  <1>9. m_PoolItems[s].item \notin r.held[q]
    <2>1. CASE r = pool
      BY <1>2, <1>3, <2>1
    <2>2. CASE r \in Checked(pool, {t})
      BY <1>2, <1>3, <1>7, <1>8, <2>2, CheckedBeaten
    <2> QED BY <1>2, <2>1, <2>2
  <1> QED BY <1>2, <1>9 DEF Become

\* How a new item comes in: aged is the pool when the slot t is to be emptied,
\* room the one that has room, pool the one with the item, r what is left of it.
Adds(id, t, aged, room, pool, r) ==
    /\ PoolFine(aged, members, dropped) /\ aged.held = inventory
    /\ \A u \in Slot : /\ aged.slots[u].item = m_PoolItems[u].item
                       /\ aged.slots[u].Lotters = m_PoolItems[u].Lotters
    /\ room = aged \/ room \in Checked(aged, {t})
    /\ PoolFine(room, members, dropped)
    /\ pool.held = room.held /\ pool.slots[t].item = [n |-> dropped + 1, ID |-> id]
    /\ \A u \in Slot : u # t => pool.slots[u] = room.slots[u]
    /\ PoolFine(pool, members, dropped + 1)
    /\ r = pool \/ r \in Checked(pool, {t})
    /\ Become(r)

\* AddItem does that.
LEMMA AddItemResult ==
  ASSUME PoolInv, NEW id \in ItemID, AddItem(id)
  PROVE  \E t \in Slot : \E aged, room, pool, r : Adds(id, t, aged, room, pool, r)
  <1> DEFINE item == [n |-> dropped + 1, ID |-> id]
  <1>1. /\ PoolFine(Pool, members, dropped) /\ dropped \in Nat /\ uptime \in Age
        /\ dropped < MaxItems
    BY InvIsAboutPool DEF PoolInv, TypeOK, AddItem
  <1>2. PICK t \in (IF Free # {} THEN Free ELSE Evicted) :
        \E room \in (IF Free # {} THEN {Pool}
                     ELSE Checked([Pool EXCEPT !.slots[t].age = uptime], {t})) :
           \E result \in (IF m_TreasurePoolType = "SOLO"
                          THEN Checked(Put(room, t, item), {t})
                          ELSE {Put(room, t, item)}) :
              Become(result)
    BY DEF AddItem
  <1>3. t \in Slot /\ {t} \in SUBSET Slot
    BY <1>2 DEF Free, Evicted
  <1>4. PICK room \in (IF Free # {} THEN {Pool}
                      ELSE Checked([Pool EXCEPT !.slots[t].age = uptime], {t})) :
           \E result \in (IF m_TreasurePoolType = "SOLO"
                          THEN Checked(Put(room, t, item), {t})
                          ELSE {Put(room, t, item)}) :
              Become(result)
    BY <1>2
  <1>5. PICK aged : aged = IF Free # {} THEN Pool
                           ELSE [Pool EXCEPT !.slots[t].age = uptime]
    OBVIOUS
  <1>6. /\ PoolFine(aged, members, dropped) /\ aged.held = inventory
        /\ \A u \in Slot : /\ aged.slots[u].item = m_PoolItems[u].item
                           /\ aged.slots[u].Lotters = m_PoolItems[u].Lotters
    <2>1. CASE Free # {}
      BY <1>1, <1>5, <2>1 DEF Pool
    <2>2. CASE Free = {}
      <3>1. m_PoolItems \in [Slot -> PoolItem]
        BY DEF PoolInv, TypeOK
      <3>2. aged = [slots |-> [m_PoolItems EXCEPT ![t] = [@ EXCEPT !.age = uptime]],
                    count |-> m_count, held |-> inventory]
        BY <1>5, <2>2 DEF Pool
      <3>3. ASSUME NEW u \in Slot
            PROVE  /\ aged.slots[u].item = m_PoolItems[u].item
                   /\ aged.slots[u].Lotters = m_PoolItems[u].Lotters
        BY <3>1, <3>2 DEF PoolItem
      <3>4. aged.held = inventory
        BY <3>2
      <3>5. PoolFine(aged, members, dropped)
        BY <1>1, <1>3, <1>5, <2>2, AgedFine
      <3> QED BY <3>3, <3>4, <3>5
    <2> QED BY <2>1, <2>2
  <1>7. room = aged \/ room \in Checked(aged, {t})
    BY <1>4, <1>5
  <1>8. PoolFine(room, members, dropped)
    BY <1>1, <1>3, <1>6, <1>7, CheckFine
  <1>9. PICK pool : pool = Put(room, t, item)
    OBVIOUS
  <1>10. /\ pool.held = room.held /\ pool.slots[t].item = item
         /\ \A u \in Slot : u # t => pool.slots[u] = room.slots[u]
    BY <1>3, <1>8, <1>9 DEF Put, PoolFine, PoolType
  <1>11. PoolFine(pool, members, dropped + 1)
    BY <1>1, <1>3, <1>8, <1>9, PutFine
  <1>12. PICK r \in (IF m_TreasurePoolType = "SOLO" THEN Checked(pool, {t})
                    ELSE {pool}) : Become(r)
    BY <1>4, <1>9
  <1>13. r = pool \/ r \in Checked(pool, {t})
    BY <1>12
  <1>14. Adds(id, t, aged, room, pool, r)
    BY <1>6, <1>7, <1>8, <1>10, <1>11, <1>12, <1>13 DEF Adds
  <1> QED BY <1>3, <1>14

\* AddItem gives away the new item, and what it evicts.
LEMMA AddItemBeaten ==
  ASSUME PoolInv, NEW id \in ItemID, AddItem(id),
         NEW s \in Slot, NEW q \in Player, OutOfReach(Pool, s, q)
  PROVE  m_PoolItems[s].item \notin inventory'[q]
  <1> DEFINE item == [n |-> dropped + 1, ID |-> id]
             x == m_PoolItems[s].item
  <1>1. /\ PoolFine(Pool, members, dropped) /\ dropped \in Nat
    BY InvIsAboutPool DEF PoolInv, TypeOK
  <1>2. PICK t \in Slot : \E aged, room, pool, r : Adds(id, t, aged, room, pool, r)
    BY AddItemResult
  <1>3. PICK aged, room, pool, r : Adds(id, t, aged, room, pool, r)
    BY <1>2
  <1>4. {t} \in SUBSET Slot
    OBVIOUS
  <1>5. Pool.slots[s] = m_PoolItems[s] /\ x # NoItem /\ x.n <= dropped
    BY <1>1 DEF Pool, OutOfReach, PoolFine, NumbersIn
  <1>6. OutOfReach(aged, s, q)
    BY <1>3, <1>5 DEF Adds, OutOfReach, Pool
  <1>7. /\ x \notin room.held[q]
        /\ \A u \in Slot :
              /\ room.slots[u].item \in {m_PoolItems[u].item, NoItem}
              /\ room.slots[u].item # NoItem
                    => room.slots[u].Lotters = m_PoolItems[u].Lotters
    <2>1. CASE room = aged
      BY <1>3, <1>5, <1>6, <2>1 DEF Adds, OutOfReach
    <2>2. CASE room \in Checked(aged, {t})
      <3>1. PoolFine(aged, members, dropped) /\ aged \in PoolType
        BY <1>3 DEF Adds, PoolFine
      <3>2. aged.slots[s].item \notin room.held[q]
        BY <1>1, <1>4, <1>6, <2>2, <3>1, CheckedBeaten
      <3>3. \A u \in Slot : room.slots[u] \in {aged.slots[u], EmptySlot}
        BY <1>4, <2>2, <3>1, CheckedSlots
      <3> QED BY <1>3, <3>2, <3>3 DEF Adds, EmptySlot
    <2> QED BY <1>3, <2>1, <2>2 DEF Adds
  <1>8. item # x /\ item # NoItem
    BY <1>1, <1>5 DEF NoItem
  <1>9. /\ pool.held = room.held /\ pool.slots[t].item = item
        /\ \A u \in Slot : u # t => pool.slots[u] = room.slots[u]
        /\ PoolFine(pool, members, dropped + 1)
        /\ r = pool \/ r \in Checked(pool, {t})
    BY <1>3 DEF Adds
  <1> HIDE DEF item, x
  <1>10. x \notin r.held[q]
    <2>1. CASE r = pool
      BY <1>7, <1>9, <2>1
    <2>2. CASE r \in Checked(pool, {t})
      <3>1. PICK won \in [Slot -> Player \cup {Nobody, Stays}] : Given(pool, r, won)
        BY <1>4, <1>9, <2>2, CheckedGiven DEF PoolFine
      <3>2. CASE pool.slots[s].item = x
        <4>1. s # t
          BY <1>8, <1>9, <3>2
        <4>2. pool.slots[s] = room.slots[s] /\ room.slots[s].item # NoItem
          BY <1>5, <1>9, <3>2, <4>1
        <4>3. OutOfReach(pool, s, q)
          BY <1>5, <1>7, <1>9, <3>2, <4>2 DEF OutOfReach
        <4>4. dropped + 1 \in Nat
          BY <1>1
        <4> QED BY <1>4, <1>9, <2>2, <3>2, <4>3, <4>4, CheckedBeaten
      <3>3. CASE pool.slots[s].item # x
        <4>1. ASSUME NEW u \in Slot  PROVE  pool.slots[u].item # x
          <5>1. CASE u = t
            BY <1>8, <1>9, <5>1
          <5>2. CASE u # t /\ u # s
            <6>1. Pool.slots[u].item # x /\ Pool.slots[u] = m_PoolItems[u]
              BY <1>1, <1>5, <5>2 DEF PoolFine, OnePlaceIn, Pool, x
            <6> QED BY <1>5, <1>7, <1>9, <5>2, <6>1
          <5> QED BY <3>3, <5>1, <5>2
        <4> QED BY <1>7, <1>9, <3>1, <4>1 DEF Given
      <3> QED BY <3>2, <3>3
    <2> QED BY <1>9, <2>1, <2>2
  <1>11. Become(r)
    BY <1>3 DEF Adds
  <1> QED BY <1>10, <1>11 DEF Become, x

\* No step gives an item to a character that has passed on it or has a lower
\* lot than somebody who does not pass at this moment.
LEMMA BeatenNext ==
  ASSUME PoolInv, [Next]_vars, NEW s \in Occupied,
         NEW i \in DOMAIN m_PoolItems[s].Lotters,
         NEW j \in DOMAIN m_PoolItems[s].Lotters,
         \/ m_PoolItems[s].Lotters[i].lot = 0
         \/ /\ m_PoolItems[s].Lotters[i].lot < m_PoolItems[s].Lotters[j].lot
            /\ ~PassItem(m_PoolItems[s].Lotters[j].member, s)
  PROVE  m_PoolItems[s].item \notin inventory'[m_PoolItems[s].Lotters[i].member]
  <1>1. PICK q, d : /\ q = m_PoolItems[s].Lotters[i].member
                   /\ d = m_PoolItems[s].Lotters[j].member
    OBVIOUS
  <1>2. /\ s \in Slot /\ q \in Player /\ m_PoolItems[s].item \notin inventory[q]
        /\ m_PoolItems[s].item # NoItem
    BY <1>1 DEF PoolInv, TypeOK, LottersAreMembers, OnePlace, Occupied
  <1>3. OutOfReach(Pool, s, q)
    BY <1>1, <1>2 DEF OutOfReach, Beaten, Pool
  <1> SUFFICES m_PoolItems[s].item \notin inventory'[q]
    BY <1>1
  <1>4. ASSUME NEW p \in Player, NEW t \in Slot, NEW lot \in 1..MaxLot,
               LotItem(p, t, lot)
        PROVE  m_PoolItems[s].item \notin inventory'[q]
    <2>1. s # t \/ d # p
      BY <1>1, <1>4 DEF LotItem, HasLottedItem
    <2> QED BY <1>1, <1>2, <1>4, <2>1, VoteBeaten DEF Vote
  <1>5. ASSUME NEW p \in Player, NEW t \in Slot, PassItem(p, t)
        PROVE  m_PoolItems[s].item \notin inventory'[q]
    BY <1>1, <1>2, <1>5, VoteBeaten DEF Vote
  <1>6. ASSUME NEW id \in ItemID, AddItem(id)
        PROVE  m_PoolItems[s].item \notin inventory'[q]
    BY <1>2, <1>3, <1>6, AddItemBeaten
  <1>7. CASE CheckItems
    <2>1. PICK r \in Checked(Pool, Slot) : Become(r)
      BY <1>7 DEF CheckItems
    <2>2. PoolFine(Pool, members, dropped) /\ dropped \in Nat
      BY InvIsAboutPool DEF PoolInv, TypeOK
    <2>3. Pool.slots[s].item \notin r.held[q]
      BY <1>2, <1>3, <2>1, <2>2, CheckedBeaten
    <2> QED BY <2>1, <2>3 DEF Become, Pool
  <1>8. ASSUME NEW p \in Player, NEW item \in inventory[p], UseItem(p, item)
        PROVE  m_PoolItems[s].item \notin inventory'[q]
    BY <1>2, <1>8 DEF UseItem, PoolInv, TypeOK
  <1>9. CASE UNCHANGED inventory
    BY <1>2, <1>9
  <1> QED BY <1>4, <1>5, <1>6, <1>7, <1>8, <1>9
          DEF Next, vars, NewPool, AddMember, DelMember, PassTime

-----------------------------------------------------------------------------
(***************************************************************************)
(* A lot stays                                                             *)
(***************************************************************************)
\* M has the lot cast, or a pass in its place.
StillCast(M, cast) ==
    \E j \in DOMAIN M : M[j].member = cast.member /\ M[j].lot \in {cast.lot, 0}

\* DelMember removes no other member's lot.
LEMMA ForgottenKeeps ==
  ASSUME NEW slot \in PoolItem, NEW mem, LotsOf(slot, mem), NEW p,
         NEW i \in DOMAIN slot.Lotters, slot.Lotters[i].member # p
  PROVE  StillCast(LotsForgotten(slot, p).Lotters, slot.Lotters[i])
  <1> DEFINE L == slot.Lotters
             N == Without(L, LotOf(p, L))
  <1>1. L \in Seq(LotInfo) /\ Len(L) \in Nat /\ DOMAIN L = 1..Len(L)
    BY LenProperties DEF PoolItem
  <1>2. CASE \E k \in DOMAIN L : L[k].member = p
    <2>1. LotOf(p, L) \in DOMAIN L /\ L[LotOf(p, L)].member = p
      BY <1>2 DEF LotOf
    <2>2. LotsForgotten(slot, p).Lotters = N
      BY <1>2 DEF LotsForgotten, LotsRemoved, PoolItem
    <2>3. PICK k : k = LotOf(p, L)
      OBVIOUS
    <2>4. /\ DOMAIN N = 1..Len(L) - 1 /\ i # k /\ i \in 1..Len(L) /\ k \in 1..Len(L)
          /\ \A j \in 1..Len(L) - 1 : /\ j < k => N[j] = L[j]
                                      /\ j >= k => N[j] = L[j + 1]
      BY SMTT(20), <1>1, <2>1, <2>3, WithoutLot
    <2> HIDE DEF N, L
    <2>5. \E j \in DOMAIN N : N[j] = L[i]
      <3>1. CASE i < k
        BY <1>1, <2>4, <3>1
      <3>2. CASE i > k
        <4>1. i - 1 \in 1..Len(L) - 1 /\ i - 1 >= k /\ (i - 1) + 1 = i
          BY <1>1, <2>4, <3>2
        <4> QED BY <2>4, <4>1
      <3> QED BY <1>1, <2>4, <3>1, <3>2
    <2> QED BY <2>2, <2>5 DEF StillCast, L
  <1>3. CASE ~\E k \in DOMAIN L : L[k].member = p
    <2>1. LotsForgotten(slot, p) = slot
      BY <1>3 DEF LotsForgotten, LotsRemoved
    <2> QED BY <2>1 DEF StillCast
  <1> QED BY <1>2, <1>3

\* No step takes a lot of a member away, other than by its pass, while the item
\* lies in its slot.
LEMMA CastNext ==
  ASSUME PoolInv, [Next]_vars, NEW s \in Occupied,
         NEW i \in DOMAIN m_PoolItems[s].Lotters,
         m_PoolItems'[s].item = m_PoolItems[s].item,
         m_PoolItems[s].Lotters[i].member \in members'
  PROVE  StillCast(m_PoolItems'[s].Lotters, m_PoolItems[s].Lotters[i])
  <1>1. PICK slot, cast : /\ slot = m_PoolItems[s]
                         /\ cast = m_PoolItems[s].Lotters[i]
    OBVIOUS
  <1>2. /\ s \in Slot /\ slot.item # NoItem /\ slot \in PoolItem
        /\ i \in DOMAIN slot.Lotters /\ cast = slot.Lotters[i]
        /\ LotsOf(slot, members) /\ dropped \in Nat
    BY <1>1 DEF PoolInv, TypeOK, LottersAreMembers, LotsOf, Occupied
  <1>3. StillCast(slot.Lotters, cast)
    BY <1>2 DEF StillCast
  <1> SUFFICES StillCast(m_PoolItems'[s].Lotters, cast)
    BY <1>1
  <1>4. ASSUME NEW p \in Player, NEW t \in Slot, Vote(p, t)
        PROVE  StillCast(m_PoolItems'[s].Lotters, cast)
    <2>1. PICK pool, r : Votes(p, t, pool, r)
      BY <1>4, VoteResult
    <2>2. /\ pool \in PoolType /\ {t} \in SUBSET Slot /\ m_PoolItems' = r.slots
          /\ s # t => pool.slots[s].Lotters = slot.Lotters
          /\ s = t => Recast(slot.Lotters, pool.slots[s].Lotters, p)
          /\ r = pool \/ r \in Checked(pool, {t})
      BY <1>1, <1>2, <2>1 DEF Votes, PoolFine, Become
    <2>3. r.slots[s] \in {pool.slots[s], EmptySlot}
      BY <1>2, <2>2, CheckedSlots
    <2>4. r.slots[s] = pool.slots[s]
      BY <1>1, <1>2, <2>2, <2>3 DEF EmptySlot
    <2>5. CASE s # t
      BY <1>3, <2>2, <2>4, <2>5
    <2>6. CASE s = t
      <3>1. /\ i \in DOMAIN pool.slots[s].Lotters
            /\ pool.slots[s].Lotters[i].member = cast.member
            /\ pool.slots[s].Lotters[i].lot \in {cast.lot, 0}
        BY <1>2, <2>2, <2>6 DEF Recast
      <3> QED BY <2>2, <2>4, <3>1 DEF StillCast
    <2> QED BY <2>5, <2>6
  <1>5. ASSUME NEW id \in ItemID, AddItem(id)
        PROVE  StillCast(m_PoolItems'[s].Lotters, cast)
    <2>1. PICK t \in Slot : \E aged, room, pool, r : Adds(id, t, aged, room, pool, r)
      BY <1>5, AddItemResult
    <2>2. PICK aged, room, pool, r : Adds(id, t, aged, room, pool, r)
      BY <2>1
    <2>3. /\ aged \in PoolType /\ pool \in PoolType /\ {t} \in SUBSET Slot
          /\ aged.slots[s].Lotters = slot.Lotters
          /\ room = aged \/ room \in Checked(aged, {t})
          /\ pool.slots[t].item = [n |-> dropped + 1, ID |-> id]
          /\ s # t => pool.slots[s] = room.slots[s]
          /\ r = pool \/ r \in Checked(pool, {t})
          /\ m_PoolItems' = r.slots
      BY <1>1, <1>2, <2>2 DEF Adds, PoolFine, Become
    <2>4. slot.item.n <= dropped
      BY <1>1, <1>2 DEF PoolInv, NumbersIn, Pool
    <2>5. r.slots[s] = pool.slots[s]
      <3>1. r.slots[s] \in {pool.slots[s], EmptySlot}
        BY <1>2, <2>3, CheckedSlots
      <3> QED BY <1>1, <1>2, <2>3, <3>1 DEF EmptySlot
    <2>6. pool.slots[s].item = slot.item
      BY <1>1, <2>3, <2>5
    <2>7. s # t
      BY <1>2, <2>3, <2>4, <2>6
    <2>8. room.slots[s] = aged.slots[s]
      <3>1. room.slots[s] \in {aged.slots[s], EmptySlot}
        BY <1>2, <2>3, CheckedSlots
      <3> QED BY <1>2, <2>3, <2>6, <2>7, <3>1 DEF EmptySlot
    <2> QED BY <1>3, <2>3, <2>5, <2>7, <2>8
  <1>6. CASE CheckItems
    <2>1. PICK r \in Checked(Pool, Slot) : Become(r)
      BY <1>6 DEF CheckItems
    <2>2. Pool \in PoolType /\ Pool.slots[s] = slot /\ m_PoolItems' = r.slots
      BY <1>1, <2>1, InvIsAboutPool DEF PoolFine, Pool, Become
    <2>3. r.slots[s] \in {slot, EmptySlot}
      BY <1>2, <2>1, <2>2, CheckedSlots
    <2> QED BY <1>1, <1>2, <1>3, <2>2, <2>3 DEF EmptySlot
  <1>7. ASSUME NEW p \in Player, DelMember(p)
        PROVE  StillCast(m_PoolItems'[s].Lotters, cast)
    <2>1. cast.member # p /\ members' # {}
      BY <1>1, <1>7 DEF DelMember
    <2>2. m_PoolItems'[s] = LotsForgotten(slot, p)
      BY <1>1, <1>2, <1>7, <2>1 DEF DelMember
    <2> QED BY <1>2, <2>1, <2>2, ForgottenKeeps
  <1>8. CASE PassTime
    <2>1. m_PoolItems'[s].Lotters = slot.Lotters
      BY <1>1, <1>2, <1>8 DEF PassTime, PoolItem
    <2> QED BY <1>3, <2>1
  <1>9. CASE UNCHANGED m_PoolItems
    BY <1>1, <1>3, <1>9
  <1> QED BY <1>4, <1>5, <1>6, <1>7, <1>8, <1>9
          DEF Next, vars, NewPool, AddMember, UseItem, Vote

-----------------------------------------------------------------------------
(***************************************************************************)
(* The count of the items.  An item that is overwritten in its slot stays  *)
(* counted, so nothing but the number of items that fall bounds m_count,   *)
(* and from 256 on it may overflow.                                        *)
(***************************************************************************)
NoOverflow == MaxItems <= 255

Items(pool) == {s \in Slot : pool.slots[s].item # NoItem}

CountIn(pool, k) == Cardinality(Items(pool)) <= pool.count /\ pool.count <= k

\* A uint8 counts the items that fall.
LEMMA FallsFitCount ==
  ASSUME NoOverflow, TypeOK
  PROVE  dropped \in 0..255
  BY DEF NoOverflow, TypeOK

\* The items of a pool can be counted.
LEMMA ItemsFinite ==
  /\ IsFiniteSet(Slot)
  /\ \A pool : IsFiniteSet(Items(pool)) /\ Cardinality(Items(pool)) \in Nat
  <1>1. IsFiniteSet(Slot)
    <2>1. 0 \in Int /\ TREASUREPOOL_SIZE - 1 \in Int
      OBVIOUS
    <2> QED BY <2>1, FS_Interval DEF Slot
  <1>2. \A pool : Items(pool) \in SUBSET Slot
    BY DEF Items
  <1> QED BY <1>1, <1>2, FS_Subset, FS_CardinalityType

\* A check takes as many off the count as it takes items out of the slots.
LEMMA CheckedCount ==
  ASSUME NEW pool \in PoolType, NEW looked \in SUBSET Slot, NEW k \in 0..255,
         CountIn(pool, k), NEW r \in Checked(pool, looked)
  PROVE  CountIn(r, k)
  <1>1. PICK won \in [Slot -> Player \cup {Nobody, Stays}] : Given(pool, r, won)
    BY CheckedGiven
  <1> DEFINE W == {s \in Slot : won[s] # Stays}
             w == Cardinality(W)
             n == Cardinality(Items(pool))
  <1>2. W \subseteq Items(pool) /\ Items(r) = Items(pool) \ W
    BY <1>1 DEF Given, Items, EmptySlot
  <1>3. n \in Nat /\ w \in Nat /\ w <= n
    BY <1>2, ItemsFinite, FS_Subset, FS_CardinalityType
  <1>4. Cardinality(Items(r)) = n - w
    <2>1. Items(pool) \cap W = W
      BY <1>2
    <2> QED BY <1>2, <2>1, ItemsFinite, FS_Difference
  <1>5. pool.count \in 0..255 /\ n <= pool.count /\ pool.count <= k
    BY DEF PoolType, CountIn
  <1>6. r.count = Fewer(pool.count, w)
    BY <1>1 DEF Given
  <1> HIDE DEF w, n
  <1>7. r.count = pool.count - w
    <2>1. pool.count - w \in 0..255
      <3> DEFINE c == pool.count
      <3>1. c \in Nat /\ c <= 255 /\ n <= c
        BY <1>5
      <3> HIDE DEF c
      <3>2. c - w \in 0..255
        BY <1>3, <3>1
      <3> QED BY <3>2 DEF c
    <2>2. \A d \in 0..255 : d % 256 = d
      OBVIOUS
    <2> QED BY <1>6, <2>1, <2>2 DEF Fewer
  <1> QED BY <1>3, <1>4, <1>5, <1>7 DEF CountIn

\* A new item is one more, or takes the slot of another.
LEMMA PutCount ==
  ASSUME NEW room \in PoolType, NEW k \in 0..254, CountIn(room, k),
         NEW s \in Slot, NEW item
  PROVE  CountIn(Put(room, s, item), k + 1)
  <1> DEFINE new == Put(room, s, item)
             n == Cardinality(Items(room))
             m == Cardinality(Items(new))
  <1>1. /\ new.count = (room.count + 1) % 256
        /\ \A t \in Slot : t # s => new.slots[t] = room.slots[t]
    BY DEF Put, PoolType
  <1>2. Items(new) \subseteq Items(room) \cup {s}
    BY <1>1 DEF Items
  <1>3. n \in Nat /\ m \in Nat /\ m <= n + 1
    <2>1. IsFiniteSet(Items(room)) /\ n \in Nat /\ m \in Nat
      BY ItemsFinite
    <2>2. /\ IsFiniteSet(Items(room) \cup {s})
          /\ Cardinality(Items(room) \cup {s}) \in {n, n + 1}
      BY <2>1, FS_AddElement
    <2>3. m <= Cardinality(Items(room) \cup {s})
      BY <1>2, <2>2, FS_Subset
    <2> QED BY <2>1, <2>2, <2>3
  <1>4. room.count \in 0..255 /\ n <= room.count /\ room.count <= k
    BY DEF PoolType, CountIn
  <1> HIDE DEF n
  <1>5. new.count = room.count + 1
    <2>1. room.count + 1 \in 0..255
      BY <1>4
    <2>2. \A d \in 0..255 : d % 256 = d
      OBVIOUS
    <2> QED BY <1>1, <2>1, <2>2
  <1> QED BY <1>3, <1>4, <1>5 DEF CountIn

\* The same slots hold items.
LEMMA SameItems ==
  ASSUME NEW pool, NEW r, NEW k, CountIn(pool, k), r.count = pool.count,
         \A s \in Slot : r.slots[s].item = pool.slots[s].item
  PROVE  CountIn(r, k)
  <1>1. Items(r) = Items(pool)
    BY DEF Items
  <1> QED BY <1>1 DEF CountIn

CountInv == CountIn(Pool, dropped)

\* A pool that becomes the state's.
LEMMA BecomeCount ==
  ASSUME NEW r, Become(r), CountIn(r, dropped')
  PROVE  CountInv'
  <1>1. Pool'.slots = r.slots /\ Pool'.count = r.count
    BY DEF Become, Pool
  <1>2. Items(Pool)' = Items(r)
    BY <1>1 DEF Items
  <1> QED BY <1>1, <1>2 DEF CountInv, CountIn

\* Lots do not count.
LEMMA LotsCount ==
  ASSUME NoOverflow, PoolInv, CountInv, NEW s \in Slot, NEW L,
         PoolFine([Pool EXCEPT !.slots[s].Lotters = L], members, dropped),
         CheckIfAllLotted([Pool EXCEPT !.slots[s].Lotters = L], s),
         UNCHANGED dropped
  PROVE  CountInv'
  <1> DEFINE pool == [Pool EXCEPT !.slots[s].Lotters = L]
  <1>1. PICK r \in (IF Len(pool.slots[s].Lotters) = Cardinality(members)
                    THEN Checked(pool, {s}) ELSE {pool}) : Become(r)
    BY DEF CheckIfAllLotted
  <1>2. /\ pool.count = Pool.count
        /\ \A t \in Slot : pool.slots[t].item = Pool.slots[t].item
    <2>1. m_PoolItems \in [Slot -> PoolItem]
      BY DEF PoolInv, TypeOK
    <2>2. pool = [slots |-> [m_PoolItems EXCEPT ![s] = [@ EXCEPT !.Lotters = L]],
                  count |-> m_count, held |-> inventory]
      BY DEF Pool
    <2>3. [m_PoolItems[s] EXCEPT !.Lotters = L].item = m_PoolItems[s].item
      BY <2>1 DEF PoolItem
    <2>4. \A t \in Slot :
            pool.slots[t] = IF t = s THEN [m_PoolItems[s] EXCEPT !.Lotters = L]
                            ELSE m_PoolItems[t]
      BY <2>1, <2>2
    <2>5. pool.count = m_count
      BY <2>2
    <2> HIDE DEF pool
    <2> QED BY <2>3, <2>4, <2>5 DEF Pool
  <1>3. pool \in PoolType
    BY DEF PoolFine
  <1> HIDE DEF pool
  <1>4. CountIn(pool, dropped)
    BY <1>2, SameItems DEF CountInv
  <1>5. dropped \in 0..255 /\ {s} \in SUBSET Slot
    BY FallsFitCount DEF PoolInv
  <1>6. CountIn(r, dropped)
    BY <1>1, <1>3, <1>4, <1>5, CheckedCount
  <1> QED BY <1>1, <1>6, BecomeCount

\* The count after a lot.
LEMMA LotItemCount ==
  ASSUME NoOverflow, PoolInv, CountInv,
         NEW p \in Player, NEW s \in Slot, NEW lot \in 1..MaxLot, LotItem(p, s, lot)
  PROVE  CountInv'
  <1>1. PICK L : /\ PoolFine([Pool EXCEPT !.slots[s].Lotters = L], members, dropped)
                 /\ CheckIfAllLotted([Pool EXCEPT !.slots[s].Lotters = L], s)
    BY LotItemPool
  <1>2. UNCHANGED dropped
    BY DEF LotItem
  <1> QED BY <1>1, <1>2, LotsCount

\* The count after a pass.
LEMMA PassItemCount ==
  ASSUME NoOverflow, PoolInv, CountInv,
         NEW p \in Player, NEW s \in Slot, PassItem(p, s)
  PROVE  CountInv'
  <1>1. PICK L : /\ PoolFine([Pool EXCEPT !.slots[s].Lotters = L], members, dropped)
                 /\ CheckIfAllLotted([Pool EXCEPT !.slots[s].Lotters = L], s)
    BY PassItemPool
  <1>2. UNCHANGED dropped
    BY DEF PassItem
  <1> QED BY <1>1, <1>2, LotsCount

\* The count keeps up with a new item.
LEMMA AddItemCount ==
  ASSUME NoOverflow, PoolInv, CountInv, NEW id \in ItemID, AddItem(id)
  PROVE  CountInv'
  <1> DEFINE item == [n |-> dropped + 1, ID |-> id]
  <1>1. /\ PoolFine(Pool, members, dropped) /\ dropped \in Nat /\ uptime \in Age
        /\ dropped < MaxItems /\ dropped' = dropped + 1
    BY InvIsAboutPool DEF PoolInv, TypeOK, AddItem
  <1>2. dropped \in 0..254 /\ dropped \in 0..255 /\ dropped + 1 \in 0..255
    BY <1>1 DEF NoOverflow
  <1>3. PICK s \in (IF Free # {} THEN Free ELSE Evicted) :
        \E room \in (IF Free # {} THEN {Pool}
                     ELSE Checked([Pool EXCEPT !.slots[s].age = uptime], {s})) :
           \E result \in (IF m_TreasurePoolType = "SOLO"
                          THEN Checked(Put(room, s, item), {s})
                          ELSE {Put(room, s, item)}) :
              Become(result)
    BY DEF AddItem
  <1>4. s \in Slot /\ {s} \in SUBSET Slot
    BY <1>3 DEF Free, Evicted
  <1>5. PICK room \in (IF Free # {} THEN {Pool}
                      ELSE Checked([Pool EXCEPT !.slots[s].age = uptime], {s})) :
           \E result \in (IF m_TreasurePoolType = "SOLO"
                          THEN Checked(Put(room, s, item), {s})
                          ELSE {Put(room, s, item)}) :
              Become(result)
    BY <1>3
  <1>6. PoolFine(room, members, dropped) /\ CountIn(room, dropped)
    <2>1. CASE Free # {}
      BY <1>1, <1>5, <2>1 DEF CountInv
    <2>2. CASE Free = {}
      <3> DEFINE aged == [Pool EXCEPT !.slots[s].age = uptime]
      <3>1. PoolFine(aged, members, dropped)
        BY <1>1, <1>4, AgedFine
      <3>2. /\ aged.count = Pool.count
            /\ \A t \in Slot : aged.slots[t].item = Pool.slots[t].item
        <4>1. m_PoolItems \in [Slot -> PoolItem]
          BY DEF PoolInv, TypeOK
        <4>2. aged = [slots |-> [m_PoolItems EXCEPT ![s] = [@ EXCEPT !.age = uptime]],
                      count |-> m_count, held |-> inventory]
          BY DEF Pool
        <4> QED BY <4>1, <4>2 DEF Pool, PoolItem
      <3>3. room \in Checked(aged, {s})
        BY <1>5, <2>2
      <3> HIDE DEF aged
      <3>4. CountIn(aged, dropped)
        BY <3>2, SameItems DEF CountInv
      <3>5. CountIn(room, dropped)
        BY <1>2, <1>4, <3>1, <3>3, <3>4, CheckedCount DEF PoolFine
      <3> QED BY <1>1, <1>4, <3>1, <3>3, <3>5, CheckFine
    <2> QED BY <2>1, <2>2
  <1> DEFINE pool == Put(room, s, item)
  <1>7. PoolFine(pool, members, dropped + 1)
    BY <1>1, <1>4, <1>6, PutFine
  <1>8. CountIn(pool, dropped + 1)
    BY <1>2, <1>4, <1>6, PutCount DEF PoolFine
  <1>9. PICK r \in (IF m_TreasurePoolType = "SOLO" THEN Checked(pool, {s})
                   ELSE {pool}) : Become(r)
    BY <1>5
  <1> HIDE DEF pool
  <1>10. CountIn(r, dropped + 1)
    BY <1>2, <1>4, <1>7, <1>8, <1>9, CheckedCount DEF PoolFine
  <1> QED BY <1>1, <1>9, <1>10, BecomeCount

\* A step that leaves the slots of the items, the count and the falls alone.
LEMMA SameCount ==
  ASSUME CountInv, UNCHANGED <<m_count, dropped>>,
         \A s \in Slot : m_PoolItems'[s].item = m_PoolItems[s].item
  PROVE  CountInv'
  <1>1. Items(Pool)' = Items(Pool)
    BY DEF Items, Pool
  <1> QED BY <1>1 DEF CountInv, CountIn, Pool

LEMMA CountInit == Init => CountInv
  <1> SUFFICES ASSUME Init PROVE CountInv
    OBVIOUS
  <1>1. Items(Pool) = {}
    BY DEF Init, Items, Pool, EmptySlot
  <1>2. Pool.count = 0 /\ dropped = 0
    BY DEF Init, Pool
  <1> QED BY <1>1, <1>2, FS_EmptySet DEF CountInv, CountIn

LEMMA CountNext ==
  ASSUME NoOverflow
  PROVE  PoolInv /\ CountInv /\ [Next]_vars => CountInv'
  <1> SUFFICES ASSUME PoolInv, CountInv, [Next]_vars PROVE CountInv'
    OBVIOUS
  <1>1. ASSUME NEW p \in Player, DelMember(p)  PROVE  CountInv'
    <2>1. CASE members' = {} /\ m_TreasurePoolType # "ZONE"
      <3>1. /\ m_count' = 0 /\ dropped' = dropped
            /\ m_PoolItems' = [s \in Slot |-> EmptySlot]
        BY <1>1, <2>1 DEF DelMember
      <3>2. Items(Pool)' = {}
        BY <3>1 DEF Items, Pool, EmptySlot
      <3>3. dropped \in Nat
        BY DEF PoolInv, TypeOK
      <3> QED BY <3>1, <3>2, <3>3, FS_EmptySet DEF CountInv, CountIn, Pool
    <2>2. CASE ~(members' = {} /\ m_TreasurePoolType # "ZONE")
      <3>1. /\ m_PoolItems' = [s \in Slot |-> LotsForgotten(m_PoolItems[s], p)]
            /\ UNCHANGED <<m_count, dropped>>
        BY <1>1, <2>2 DEF DelMember
      <3>2. ASSUME NEW s \in Slot  PROVE  m_PoolItems'[s].item = m_PoolItems[s].item
        <4>1. m_PoolItems[s] \in PoolItem /\ LotsOf(m_PoolItems[s], members)
          BY DEF PoolInv, TypeOK, LottersAreMembers, LotsOf
        <4> QED BY <3>1, <4>1, LotsForgottenOf
      <3> QED BY <3>1, <3>2, SameCount
    <2> QED BY <2>1, <2>2
  <1>2. ASSUME NEW p \in Player, NEW s \in Slot, PassItem(p, s)
        PROVE  CountInv'
    BY <1>2, PassItemCount
  <1>3. ASSUME NEW p \in Player, NEW s \in Slot, NEW lot \in 1..MaxLot,
               LotItem(p, s, lot)
        PROVE  CountInv'
    BY <1>3, LotItemCount
  <1>4. ASSUME NEW id \in ItemID, AddItem(id)  PROVE  CountInv'
    BY <1>4, AddItemCount
  <1>5. CASE CheckItems
    <2>1. PICK r \in Checked(Pool, Slot) : Become(r)
      BY <1>5 DEF CheckItems
    <2>2. Pool \in PoolType /\ dropped \in 0..255 /\ dropped' = dropped
      BY <1>5, InvIsAboutPool DEF CheckItems, PoolFine, PoolInv, TypeOK, NoOverflow
    <2>3. CountIn(r, dropped)
      BY <2>1, <2>2, CheckedCount DEF CountInv
    <2> QED BY <2>1, <2>2, <2>3, BecomeCount
  <1>6. CASE PassTime
    <2>1. ASSUME NEW s \in Slot  PROVE  m_PoolItems'[s].item = m_PoolItems[s].item
      <3>1. m_PoolItems[s] \in PoolItem
        BY DEF PoolInv, TypeOK
      <3>2. m_PoolItems'[s] = IF s \in Occupied
                              THEN [m_PoolItems[s] EXCEPT !.age = Older(@)]
                              ELSE m_PoolItems[s]
        BY <1>6 DEF PassTime
      <3> QED BY <3>1, <3>2 DEF PoolItem
    <2> QED BY <1>6, <2>1, SameCount DEF PassTime
  <1>7. CASE UNCHANGED <<m_PoolItems, m_count, dropped>>
    BY <1>7, SameCount
  <1> QED BY <1>1, <1>2, <1>3, <1>4, <1>5, <1>6, <1>7
          DEF Next, vars, NewPool, AddMember, UseItem

-----------------------------------------------------------------------------
(***************************************************************************)
(* Theorems                                                                *)
(***************************************************************************)
\* The inductive invariant.
LEMMA PoolInvariant == Spec => []PoolInv
  BY PoolInit, PoolNext, PTL DEF Spec

\* The variables keep their types.
THEOREM TypeCorrect == Spec => []TypeOK
  <1>1. PoolInv => TypeOK
    BY DEF PoolInv
  <1> QED BY <1>1, PoolInvariant, PTL

\* Whoever has a lot is a member, and has one lot in a slot (DelMember removes
\* the lots with the member, 0x041 and PassItem look for an earlier lot).
THEOREM LottersCorrect == Spec => []LottersAreMembers
  <1>1. PoolInv => LottersAreMembers
    BY DEF PoolInv
  <1> QED BY <1>1, PoolInvariant, PTL

\* No item is in two places (TreasureWon empties the slot it gives away).
THEOREM OnePlaceCorrect == Spec => []OnePlace
  <1>1. PoolInv => OnePlace
    BY DEF PoolInv
  <1> QED BY <1>1, PoolInvariant, PTL

\* A pool of type SOLO has one member, so members[0] is all of them.
THEOREM SoloCorrect == Spec => []SoloHasOneMember
  <1>1. PoolInv => SoloHasOneMember
    BY DEF PoolInv
  <1> QED BY <1>1, PoolInvariant, PTL

\* Nobody gets an item after passing on it.
THEOREM PassedCorrect == Spec => PassedNeverWin
  <1>1. PoolInv /\ [Next]_vars =>
          [\A s \in Occupied : \A i \in DOMAIN m_PoolItems[s].Lotters :
              LET cast == m_PoolItems[s].Lotters[i]
              IN  cast.lot = 0
                  => m_PoolItems[s].item \notin inventory'[cast.member]]_vars
    BY BeatenNext
  <1> QED BY <1>1, PoolInvariant, PTL DEF Spec, PassedNeverWin

\* The highest lot wins, if anybody does: an item goes to nobody while another
\* member has a higher lot, unless that one is passing.
THEOREM HighestCorrect == Spec => HighestLotWins
  <1>1. PoolInv /\ [Next]_vars =>
          [\A s \in Occupied : \A i, j \in DOMAIN m_PoolItems[s].Lotters :
              LET low == m_PoolItems[s].Lotters[i]
                  high == m_PoolItems[s].Lotters[j]
              IN  (low.lot < high.lot /\ m_PoolItems[s].item \in inventory'[low.member])
                  => PassItem(high.member, s)]_vars
    BY BeatenNext
  <1> QED BY <1>1, PoolInvariant, PTL DEF Spec, HighestLotWins

\* There is no second throw of the dice for an item: a member's lot stays, or
\* becomes a pass.
THEOREM NoSecondCorrect == Spec => NoSecondThrow
  <1>1. PoolInv /\ [Next]_vars =>
          [\A s \in Occupied : \A i \in DOMAIN m_PoolItems[s].Lotters :
              LET cast == m_PoolItems[s].Lotters[i]
                  Lotters == m_PoolItems'[s].Lotters
              IN  (m_PoolItems'[s].item = m_PoolItems[s].item /\ cast.member \in members')
                  => \E j \in DOMAIN Lotters : /\ Lotters[j].member = cast.member
                                               /\ Lotters[j].lot \in {cast.lot, 0}]_vars
    BY CastNext DEF StillCast
  <1> QED BY <1>1, PoolInvariant, PTL DEF Spec, NoSecondThrow

\* The count CheckItems looks at is never less than the number of items, as
\* long as fewer items fall than a uint8 counts.
THEOREM CountCorrect ==
  ASSUME NoOverflow
  PROVE  Spec => []CountCoversItems
  <1>1. PoolInv /\ CountInv => CountCoversItems
    <2>1. Items(Pool) = Occupied
      BY DEF Items, Occupied, Pool
    <2> QED BY <2>1, ItemsFinite DEF PoolInv, TypeOK, CountInv, CountIn, Pool, CountCoversItems
  <1> QED BY <1>1, PoolInvariant, PoolNext, CountInit, CountNext, PTL DEF Spec
=============================================================================
