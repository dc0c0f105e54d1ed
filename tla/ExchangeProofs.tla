--------------------------- MODULE ExchangeProofs ---------------------------
(***************************************************************************)
(* What Exchange keeps for any players, items, prices and sizes of a bag.  *)
(* That nobody owns a rare item twice holds in all circumstances; what a   *)
(* trade reserves and what was agreed to, where the two are left alone     *)
(* until it ends (Baseline); that nothing is doubled, where players also   *)
(* keep from the market while they trade and from repricing what somebody  *)
(* looks at (Trouble = {}).                                                *)
(***************************************************************************)
EXTENDS Exchange, Sums

-----------------------------------------------------------------------------
(***************************************************************************)
(* Natural numbers.                                                        *)
(***************************************************************************)
\* A set of natural numbers has a least element, which Min names.
LEMMA LeastNumber ==
  ASSUME NEW S \in SUBSET Nat, S # {}
  PROVE  Min(S) \in S /\ \A x \in S : Min(S) <= x
  BY Least DEF Min

\* What holds of 0 and goes from each number to the next holds of n.
LEMMA Steps ==
  ASSUME NEW n \in Nat, NEW I, 0 \in I, \A k \in 1..n : k - 1 \in I => k \in I
  PROVE  n \in I
  <1> DEFINE Bad == (0..n) \ I
  <1>1. ASSUME Bad # {}  PROVE  FALSE
    <2>1. Bad \subseteq Nat
      OBVIOUS
    <2>2. PICK k \in Bad : \A x \in Bad : k <= x
      <3> HIDE DEF Bad
      <3> QED BY <1>1, <2>1, LeastNumber
    <2>3. k # 0 /\ k \in 1..n /\ k - 1 \in 0..n
      BY <2>2
    <2>4. k - 1 \in I
      BY <2>2, <2>3
    <2> QED BY <2>2, <2>3, <2>4
  <1> QED BY <1>1

-----------------------------------------------------------------------------
(***************************************************************************)
(* Bags without a rare item twice, whatever else is in them.               *)
(***************************************************************************)
Shape(b) == DOMAIN b = Slots /\ \A s \in Slots : "kind" \in DOMAIN b[s]
Rareful(b) ==
  /\ Shape(b)
  /\ \A k \in Rare : \A s, t \in Slots : b[s].kind = k /\ b[t].kind = k => s = t

\* Nothing in u that is not in the same slot of b.
Within(u, b) == Shape(u) /\ \A s \in Slots : u[s].kind = b[s].kind \/ u[s].kind = Nothing

LEMMA WithinRareful ==
  ASSUME NEW b, NEW u, Rareful(b), Within(u, b)
  PROVE  Rareful(u)
  <1>1. Nothing \notin Rare
    BY ExchangeAssumption
  <1> QED BY <1>1 DEF Within, Rareful

LEMMA UpdateWithin ==
  ASSUME NEW b, Shape(b), NEW s, NEW q
  PROVE  Within(UpdateItem(b, s, q), b)
  <1> DEFINE left == AtMost(b[s].qty + q, Stack[b[s].kind])
             i == IF left = 0 /\ b[s].kind # Gil THEN Empty ELSE [b[s] EXCEPT !.qty = left]
             u == [b EXCEPT ![s] = i]
  <1>1. UpdateItem(b, s, q) = b \/ UpdateItem(b, s, q) = u
    BY DEF UpdateItem
  <1>2. Within(b, b)
    BY DEF Within, Shape
  <1>3. Within(u, b)
    <2>1. s \in Slots => "kind" \in DOMAIN i /\ (i.kind = b[s].kind \/ i.kind = Nothing)
      BY DEF Shape, Empty
    <2> HIDE DEF i
    <2> QED BY <2>1 DEF Within, Shape
  <1> HIDE DEF u
  <1> QED BY <1>1, <1>2, <1>3

LEMMA WithinAgain ==
  ASSUME NEW a, NEW b, NEW c, Within(a, b), Within(b, c)
  PROVE  Within(a, c)
  BY DEF Within

\* Pointwise changes of a bag that keep the kinds.
LEMMA SameKinds ==
  ASSUME NEW b, NEW u, DOMAIN u = Slots,
         \A s \in Slots : "kind" \in DOMAIN u[s] /\ (u[s].kind = b[s].kind \/ u[s].kind = Nothing)
  PROVE  Within(u, b)
  BY DEF Within, Shape

LEMMA FreeSlot ==
  ASSUME NEW b, FreeSlots(b) # {}
  PROVE  Min(FreeSlots(b)) \in 1..BagSize /\ b[Min(FreeSlots(b))] = Empty
  <1>1. FreeSlots(b) \in SUBSET Nat
    BY DEF FreeSlots
  <1>2. Min(FreeSlots(b)) \in FreeSlots(b)
    BY <1>1, LeastNumber
  <1> QED BY <1>2 DEF FreeSlots

\* AddItem puts no second rare item into a bag, whatever it is asked to.
LEMMA AddRareful ==
  ASSUME NEW b, Rareful(b), NEW k, NEW q
  PROVE  Rareful(AddItem(b, k, q)) /\ Rareful(AddItemById(b, k, q))
  <1> DEFINE n == Min(FreeSlots(b))
             i == [kind |-> k, qty |-> q, reserve |-> 0, price |-> 0]
             u == [b EXCEPT ![n] = i]
  <1>1. Rareful(UpdateItem(b, 0, q))
    BY UpdateWithin, WithinRareful DEF Rareful
  <1>2. ASSUME FreeSlots(b) # {}, ~(k \in Rare /\ HasItem(b, k))  PROVE  Rareful(u)
    <2>1. n \in Slots
      BY <1>2, FreeSlot, ExchangeAssumption DEF Slots
    <2>2. DOMAIN u = Slots /\ u[n] = i /\ \A s \in Slots : s # n => u[s] = b[s]
      BY <2>1 DEF Rareful, Shape
    <2>3. i.kind = k /\ "kind" \in DOMAIN i
      OBVIOUS
    <2> HIDE DEF n, i, u
    <2> QED BY <1>2, <2>1, <2>2, <2>3 DEF Rareful, Shape, HasItem
  <1> HIDE DEF u
  <1>3. Rareful(AddItem(b, k, q))
    <2>1. \/ AddItem(b, k, q) = UpdateItem(b, 0, q) \/ AddItem(b, k, q) = b
          \/ AddItem(b, k, q) = u /\ FreeSlots(b) # {} /\ ~(k \in Rare /\ HasItem(b, k))
      BY DEF AddItem, u
    <2> QED BY <1>1, <1>2, <2>1
  <1> QED BY <1>3 DEF AddItemById

LEMMA UpdateRareful ==
  ASSUME NEW b, Rareful(b), NEW s, NEW q
  PROVE  Rareful(UpdateItem(b, s, q))
  BY UpdateWithin, WithinRareful DEF Rareful

LEMMA ReservedWithin ==
  ASSUME NEW b, Shape(b), NEW s, NEW r
  PROVE  Within([b EXCEPT ![s].reserve = r], b) /\ Within([b EXCEPT ![s].price = r], b)
  BY DEF Within, Shape

LEMMA UnreserveWithin ==
  ASSUME NEW b, Shape(b), NEW o
  PROVE  Within(Unreserve(b, o), b)
  BY DEF Within, Shape, Unreserve

LEMMA SpentWithin ==
  ASSUME NEW b, Shape(b), NEW m, NEW lost
  PROVE  Within(Spent(b, m, lost), b)
  <1> DEFINE r(s) == [b EXCEPT ![s].reserve = @ - Uses(m, s)]
             q(s) == 0 - Uses([i \in lost |-> m[i]], s)
             u == [s \in Slots |-> IF s \in Range(m) THEN UpdateItem(r(s), s, q(s))[s] ELSE b[s]]
  <1>1. ASSUME NEW s \in Slots
        PROVE  "kind" \in DOMAIN u[s] /\ (u[s].kind = b[s].kind \/ u[s].kind = Nothing)
    <2>1. Within(r(s), b)
      BY DEF Within, Shape
    <2>2. Within(UpdateItem(r(s), s, q(s)), b)
      <3>1. Shape(r(s))
        BY <2>1 DEF Within
      <3> HIDE DEF r, q
      <3>2. Within(UpdateItem(r(s), s, q(s)), r(s))
        BY <3>1, UpdateWithin
      <3> QED BY <2>1, <3>2, WithinAgain
    <2> HIDE DEF r, q
    <2> QED BY <2>2 DEF Within, Shape
  <1>2. DOMAIN u = Slots
    OBVIOUS
  <1> QED BY <1>1, <1>2, SameKinds DEF Spent

-----------------------------------------------------------------------------
(***************************************************************************)
(* DoTrade, slot after slot.                                               *)
(***************************************************************************)
Passed(b, s) ==
  IF s = NoOffer THEN b
  ELSE [to   |-> GivenItem(b, s),
        from |-> UpdateItem([b.from EXCEPT ![s].reserve = 0], s, 0 - b.from[s].reserve)]
GivenUpTo(x, o, n, f) ==
  f = [t \in 0..n |-> IF t = 0 THEN x ELSE Passed(f[t - 1], o[t])]

LEMMA GivenExists ==
  ASSUME NEW x, NEW o, NEW n \in Nat
  PROVE  \E f : GivenUpTo(x, o, n, f)
  <1> DEFINE I == {j \in Nat : \E f : GivenUpTo(x, o, j, f)}
  <1>1. 0 \in I
    <2> DEFINE f == [t \in 0..0 |-> x]
    <2>1. GivenUpTo(x, o, 0, f)
      BY DEF GivenUpTo
    <2> HIDE DEF f
    <2> QED BY <2>1
  <1>2. ASSUME NEW j \in 1..n, j - 1 \in I  PROVE  j \in I
    <2>1. j \in Nat /\ j # 0 /\ j - 1 \in Nat
      OBVIOUS
    <2>2. PICK f : GivenUpTo(x, o, j - 1, f)
      BY <1>2
    <2> DEFINE g == [t \in 0..j |-> IF t = j THEN Passed(f[j - 1], o[j]) ELSE f[t]]
    <2>3. \A t \in 0..j : t # j => t \in 0..(j - 1) /\ f[t] = IF t = 0 THEN x ELSE Passed(f[t - 1], o[t])
      <3>1. \A t \in 0..j : t # j => t \in 0..(j - 1)
        BY <2>1
      <3>2. \A t \in 0..(j - 1) : f[t] = IF t = 0 THEN x ELSE Passed(f[t - 1], o[t])
        <4>1. f = [t \in 0..(j - 1) |-> IF t = 0 THEN x ELSE Passed(f[t - 1], o[t])]
          BY <2>2 DEF GivenUpTo
        <4> QED BY <4>1
      <3> QED BY <3>1, <3>2
    <2>4. ASSUME NEW t \in 0..j
          PROVE  g[t] = IF t = 0 THEN x ELSE Passed(g[t - 1], o[t])
      <3>1. CASE t = 0
        BY <2>1, <2>3, <3>1
      <3>2. CASE t # 0
        <4>1. t - 1 \in 0..j /\ t - 1 # j
          BY <2>1, <3>2
        <4>2. g[t - 1] = f[t - 1]
          BY <4>1
        <4> QED BY <2>3, <3>2, <4>2
      <3> QED BY <3>1, <3>2
    <2>5. g = [t \in 0..j |-> IF t = 0 THEN x ELSE Passed(g[t - 1], o[t])]
      <3>1. g = [t \in 0..j |-> g[t]]
        OBVIOUS
      <3> HIDE DEF g
      <3> QED BY <2>4, <3>1, Zenon
    <2>6. GivenUpTo(x, o, j, g)
      BY <2>5 DEF GivenUpTo
    <2> HIDE DEF g
    <2> QED BY <2>1, <2>6
  <1>3. n \in I
    <2> HIDE DEF I
    <2> QED BY <1>1, <1>2, Steps
  <1> QED BY <1>3

\* The stages of DoTrade, the last of which is its result.
Stages(from, to, o) == CHOOSE f : GivenUpTo([from |-> from, to |-> to], o, TradeSlots, f)

LEMMA StagesOfTrade ==
  ASSUME NEW from, NEW to, NEW o
  PROVE  LET f == Stages(from, to, o) IN
         /\ TradeSlots \in Nat /\ DoTrade(from, to, o) = f[TradeSlots]
         /\ f[0] = [from |-> from, to |-> to]
         /\ \A t \in 1..TradeSlots : f[t] = Passed(f[t - 1], o[t])
  <1> DEFINE f == Stages(from, to, o)
             x == [from |-> from, to |-> to]
  <1>1. TradeSlots \in Nat
    BY ExchangeAssumption
  <1>2. DoTrade(from, to, o) = f[TradeSlots]
    BY DEF DoTrade, Stages, GivenUpTo, Passed
  <1>3. GivenUpTo(x, o, TradeSlots, f)
    BY <1>1, GivenExists DEF Stages
  <1> HIDE DEF f
  <1>4. f = [t \in 0..TradeSlots |-> IF t = 0 THEN x ELSE Passed(f[t - 1], o[t])]
    BY <1>3 DEF GivenUpTo
  <1> HIDE DEF x
  <1>5. f[0] = x
    BY <1>1, <1>4
  <1>6. \A t \in 1..TradeSlots : f[t] = Passed(f[t - 1], o[t])
    BY <1>1, <1>4
  <1> QED BY <1>1, <1>2, <1>5, <1>6 DEF f, x

LEMMA TradeRareful ==
  ASSUME NEW from, NEW to, NEW o, Rareful(from), Rareful(to)
  PROVE  Rareful(DoTrade(from, to, o).from) /\ Rareful(DoTrade(from, to, o).to)
  <1> DEFINE f == Stages(from, to, o)
             I == {t \in 0..TradeSlots : Rareful(f[t].from) /\ Rareful(f[t].to)}
  <1> HIDE DEF f
  <1>1. /\ TradeSlots \in Nat /\ DoTrade(from, to, o) = f[TradeSlots]
        /\ f[0] = [from |-> from, to |-> to]
        /\ \A t \in 1..TradeSlots : f[t] = Passed(f[t - 1], o[t])
    BY StagesOfTrade DEF f
  <1>2. 0 \in I
    BY <1>1
  <1>3. ASSUME NEW t \in 1..TradeSlots, t - 1 \in I  PROVE  t \in I
    <2> DEFINE b == f[t - 1]
               s == o[t]
               r == [b.from EXCEPT ![s].reserve = 0]
    <2>1. Rareful(b.from) /\ Rareful(b.to) /\ f[t] = Passed(b, s) /\ t \in 0..TradeSlots
      BY <1>1, <1>3
    <2> HIDE DEF b, s
    <2>2. Rareful(GivenItem(b, s))
      BY <2>1, AddRareful DEF GivenItem
    <2>3. Rareful(UpdateItem(r, s, 0 - b.from[s].reserve))
      <3>1. Rareful(r)
        <4>1. Within(r, b.from)
          BY <2>1 DEF Within, Shape, Rareful
        <4> HIDE DEF r
        <4> QED BY <2>1, <4>1, WithinRareful
      <3> HIDE DEF r
      <3> QED BY <3>1, UpdateRareful
    <2>4. Rareful(f[t].from) /\ Rareful(f[t].to)
      BY <2>1, <2>2, <2>3 DEF Passed
    <2> QED BY <2>1, <2>4
  <1>4. TradeSlots \in I
    <2> HIDE DEF I
    <2> QED BY <1>1, <1>2, <1>3, Steps
  <1> QED BY <1>1, <1>4

-----------------------------------------------------------------------------
(***************************************************************************)
(* Nobody owns a rare item twice.                                          *)
(***************************************************************************)
Refers == pending \in [Char -> Char \cup {None}] /\ view \in [Char -> Char \cup {None}]

LEMMA RefersInit == Init => Refers
  BY DEF Init, Refers

LEMMA RefersNext == Refers /\ [Next]_vars => Refers'
  <1> SUFFICES ASSUME Refers, [Next]_vars PROVE Refers'
    OBVIOUS
  <1>1. ASSUME UNCHANGED <<pending, view>>  PROVE  Refers'
    BY <1>1 DEF Refers
  <1>2. CASE UNCHANGED vars
    BY <1>1, <1>2 DEF vars, tradeVars, bazaarVars
  <1>3. ASSUME NEW c \in Char, Trade(c)  PROVE  Refers'
    <2>1. UNCHANGED bazaarVars
      BY ZenonT(30), <1>3 DEF Trade, TradeRequest, TradeBegin, TradeCancel, TradeOffer, TradeAccept
    <2>2. \/ UNCHANGED pending
          \/ \E p \in Char : pending' = [pending EXCEPT ![c] = p, ![p] = c]
          \/ pending' = [pending EXCEPT ![c] = None, ![pending[c]] = None]
      BY ZenonT(30), <1>3 DEF Trade, TradeRequest, TradeBegin, TradeCancel, TradeOffer, TradeAccept
    <2>3. UNCHANGED view
      BY <2>1 DEF bazaarVars
    <2> QED BY <2>2, <2>3 DEF Refers
  <1>4. ASSUME NEW c \in Char, Bazaar(c)  PROVE  Refers'
    <2>1. UNCHANGED tradeVars
      BY <1>4 DEF Bazaar, SetPrice, OpenBazaar, CloseBazaar, ViewWares, LeaveWares, Purchase
    <2>2. \/ UNCHANGED view
          \/ \E p \in Char \cup {None} : view' = [view EXCEPT ![c] = p]
      BY <1>4 DEF Bazaar, SetPrice, OpenBazaar, CloseBazaar, ViewWares, LeaveWares, Purchase, bazaarVars
    <2> QED BY <2>1, <2>2 DEF Refers, tradeVars
  <1>5. ASSUME NEW c \in Char, Auction(c)  PROVE  Refers'
    BY <1>1, <1>5 DEF Auction, RefreshHistory, PlaceSale, Bid, CancelSale, tradeVars, bazaarVars
  <1>6. ASSUME NEW c \in Char, Alone(c)  PROVE  Refers'
    BY <1>1, <1>6 DEF Alone, Drop, Split, SellToVendor, Merge, EnterZone, tradeVars, bazaarVars
  <1>7. ASSUME NEW c \in Char, Synthesis(c)  PROVE  Refers'
    <2>1. \/ UNCHANGED <<tradeVars, bazaarVars>>
          \/ pending' = [pending EXCEPT ![c] = None] /\ view' = [view EXCEPT ![c] = None]
      BY <1>7 DEF Synthesis, StartSynth, SynthFails, SynthSucceeds, LeaveZone
    <2> QED BY <2>1 DEF Refers, tradeVars, bazaarVars
  <1> QED BY <1>2, <1>3, <1>4, <1>5, <1>6, <1>7 DEF Next

RareInv == DOMAIN bag = Char /\ \A c \in Char : Rareful(bag[c])

LEMMA RareInit == Init => RareInv
  <1> SUFFICES ASSUME Init PROVE RareInv
    OBVIOUS
  <1>1. bag = Start /\ Start \in [Char -> [Slots -> Stacked \cup {Empty}]]
    BY ExchangeAssumption DEF Init
  <1>2. ASSUME NEW c \in Char  PROVE  Rareful(Start[c])
    <2>1. Start[c] \in [Slots -> Stacked \cup {Empty}]
      BY <1>1
    <2>2. \A i \in Stacked \cup {Empty} : "kind" \in DOMAIN i
      BY DEF Stacked, Item, Empty
    <2>3. \A s, t \in Slots : Start[c][s].kind \in Rare /\ Start[c][t].kind = Start[c][s].kind => s = t
      BY ExchangeAssumption
    <2>4. Shape(Start[c])
      BY <2>1, <2>2 DEF Shape
    <2> QED BY <2>3, <2>4 DEF Rareful
  <1> QED BY <1>1, <1>2 DEF RareInv

LEMMA RareBag ==
  ASSUME RareInv, NEW c \in Char, NEW b, Rareful(b), bag' = [bag EXCEPT ![c] = b]
  PROVE  RareInv'
  <1>1. DOMAIN bag' = Char
    BY DEF RareInv
  <1>2. ASSUME NEW x \in Char  PROVE  Rareful(bag'[x])
    <2>1. CASE x = c
      BY <2>1 DEF RareInv
    <2>2. CASE x # c
      BY <2>2 DEF RareInv
    <2> QED BY <2>1, <2>2
  <1> QED BY <1>1, <1>2 DEF RareInv

LEMMA RareClean ==
  ASSUME RareInv, NEW cs, NEW bags, \A c \in Char : Rareful(bags[c]), Clean(cs, bags)
  PROVE  RareInv'
  <1>1. bag' = [c \in Char |-> IF c \in cs THEN Unreserve(bags[c], offer[c]) ELSE bags[c]]
    BY DEF Clean
  <1>2. ASSUME NEW x \in Char  PROVE  Rareful(bag'[x])
    <2>1. Rareful(Unreserve(bags[x], offer[x]))
      BY UnreserveWithin, WithinRareful DEF Rareful
    <2>2. bag'[x] = Unreserve(bags[x], offer[x]) \/ bag'[x] = bags[x]
      BY <1>1
    <2> QED BY <2>1, <2>2
  <1> QED BY <1>1, <1>2 DEF RareInv

LEMMA RareTrade ==
  ASSUME RareInv, Refers, NEW c \in Char, Trade(c)
  PROVE  RareInv'
  <1>1. ASSUME UNCHANGED bag  PROVE  RareInv'
    BY <1>1 DEF RareInv
  <1>2. ASSUME NEW p \in Char, TradeRequest(c, p)  PROVE  RareInv'
    BY <1>1, <1>2 DEF TradeRequest
  <1>3. ASSUME NEW near \in BOOLEAN, TradeBegin(c, near)  PROVE  RareInv'
    BY <1>1, <1>3 DEF TradeBegin
  <1>4. ASSUME TradeCancel(c)  PROVE  RareInv'
    <2>1. Clean(Cleaned(c, pending[c]), bag) \/ UNCHANGED bag
      BY <1>4 DEF TradeCancel
    <2>2. \A x \in Char : Rareful(bag[x])
      BY DEF RareInv
    <2> QED BY <1>1, <2>1, <2>2, RareClean
  <1>5. ASSUME NEW t, NEW s, NEW q, TradeOffer(c, t, s, q)  PROVE  RareInv'
    <2> DEFINE old == offer[c][t]
               fresh == IF old = NoOffer THEN bag[c] ELSE [bag[c] EXCEPT ![old].reserve = 0]
               b == [fresh EXCEPT ![s].reserve = IF q > 0 THEN @ + q ELSE 0]
    <2>1. bag' = [bag EXCEPT ![c] = b]
      BY <1>5 DEF TradeOffer
    <2>2. Rareful(bag[c])
      BY DEF RareInv
    <2>3. Within(fresh, bag[c])
      BY <2>2 DEF Within, Shape, Rareful
    <2>4. Rareful(fresh)
      <3> HIDE DEF fresh
      <3> QED BY <2>2, <2>3, WithinRareful
    <2>5. Within(b, fresh)
      <3> HIDE DEF fresh
      <3> QED BY <2>4 DEF Within, Shape, Rareful
    <2>6. Rareful(b)
      <3> HIDE DEF fresh, b
      <3> QED BY <2>4, <2>5, WithinRareful
    <2> HIDE DEF b
    <2> QED BY <2>1, <2>6, RareBag
  <1>6. ASSUME TradeAccept(c)  PROVE  RareInv'
    <2> DEFINE p == pending[c]
               one == DoTrade(bag[c], bag[p], offer[c])
               two == DoTrade(one.to, one.from, offer[p])
    <2>1. p \in Char
      BY <1>6 DEF TradeAccept, Present, Refers
    <2>2. \A x \in Char : Rareful(bag[x])
      BY DEF RareInv
    <2>3. Rareful(one.from) /\ Rareful(one.to)
      BY <2>1, <2>2, TradeRareful
    <2>4. Rareful(two.from) /\ Rareful(two.to)
      <3> HIDE DEF one
      <3> QED BY <2>3, TradeRareful
    <2>5. \A x \in Char : Rareful(Exchanged(c, p)[x])
      <3>1. Exchanged(c, p) = [bag EXCEPT ![c] = two.to, ![p] = two.from]
        BY DEF Exchanged
      <3> HIDE DEF one, two, p
      <3> QED BY <2>1, <2>2, <2>4, <3>1 DEF RareInv
    <2>6. Clean({c, p}, Exchanged(c, p)) \/ Clean({c, p}, bag) \/ UNCHANGED bag
      BY <1>6 DEF TradeAccept
    <2> HIDE DEF p
    <2> QED BY <1>1, <2>2, <2>5, <2>6, RareClean
  <1> QED BY <1>2, <1>3, <1>4, <1>5, <1>6 DEF Trade

LEMMA RareBazaar ==
  ASSUME RareInv, Refers, NEW c \in Char, Bazaar(c)
  PROVE  RareInv'
  <1>0. \A x \in Char : Rareful(bag[x])
    BY DEF RareInv
  <1>1. ASSUME UNCHANGED bag  PROVE  RareInv'
    BY <1>1 DEF RareInv
  <1>2. ASSUME NEW s, NEW price, SetPrice(c, s, price)  PROVE  RareInv'
    <2> DEFINE b == [bag[c] EXCEPT ![s].price = price]
    <2>1. bag' = [bag EXCEPT ![c] = b]
      BY <1>2 DEF SetPrice
    <2>2. Within(b, bag[c])
      BY <1>0 DEF Within, Shape, Rareful
    <2> HIDE DEF b
    <2> QED BY <1>0, <2>1, <2>2, WithinRareful, RareBag
  <1>3. ASSUME OpenBazaar(c) \/ CloseBazaar(c) \/ LeaveWares(c) \/ \E p \in Char : ViewWares(c, p)
        PROVE  RareInv'
    BY <1>1, <1>3 DEF OpenBazaar, CloseBazaar, LeaveWares, ViewWares
  <1>4. ASSUME NEW s, NEW q, Purchase(c, s, q)  PROVE  RareInv'
    <2> DEFINE p == view[c]
               goods == AddItem(bag[c], bag[p][s].kind, q)
               price == bag[p][s].price
               mine == UpdateItem(goods, 0, 0 - WithTax(price * q))
               paid == UpdateItem(bag[p], 0, price * q)
               theirs == UpdateItem(paid, s, 0 - q)
    <2>1. bag' = [bag EXCEPT ![c] = mine, ![p] = theirs] /\ p \in Char
      BY <1>4 DEF Purchase, Refers
    <2>2. Rareful(goods)
      BY <1>0, AddRareful
    <2>3. Rareful(mine)
      <3> HIDE DEF goods
      <3> QED BY <2>2, UpdateRareful
    <2>4. Rareful(paid)
      <3> HIDE DEF p
      <3> QED BY <1>0, <2>1, UpdateRareful
    <2>5. Rareful(theirs)
      <3> HIDE DEF paid
      <3> QED BY <2>4, UpdateRareful
    <2> HIDE DEF mine, theirs, p
    <2> QED BY <2>1, <2>3, <2>5 DEF RareInv
  <1> QED BY <1>2, <1>3, <1>4 DEF Bazaar

LEMMA RareAuction ==
  ASSUME RareInv, NEW c \in Char, Auction(c)
  PROVE  RareInv'
  <1>0. Rareful(bag[c])
    BY DEF RareInv
  <1>1. ASSUME RefreshHistory(c)  PROVE  RareInv'
    BY <1>1 DEF RefreshHistory, RareInv
  <1>2. ASSUME NEW s, NEW stack, NEW price, PlaceSale(c, s, stack, price)  PROVE  RareInv'
    <2> DEFINE one == UpdateItem(bag[c], s, 0 - Units(bag[c][s].kind, stack))
               two == UpdateItem(one, 0, 0 - Fee)
    <2>1. bag' = [bag EXCEPT ![c] = two]
      BY <1>2 DEF PlaceSale
    <2>2. Rareful(one)
      BY <1>0, UpdateRareful
    <2>3. Rareful(two)
      <3> HIDE DEF one
      <3> QED BY <2>2, UpdateRareful
    <2> HIDE DEF two
    <2> QED BY <2>1, <2>3, RareBag
  <1>3. ASSUME NEW k, NEW stack, NEW bid, Bid(c, k, stack, bid)  PROVE  RareInv'
    <2> DEFINE one == AddItemById(bag[c], k, Units(k, stack))
               two == UpdateItem(one, 0, 0 - bid)
    <2>1. bag' = [bag EXCEPT ![c] = two]
      BY <1>3 DEF Bid
    <2>2. Rareful(one)
      BY <1>0, AddRareful
    <2>3. Rareful(two)
      <3> HIDE DEF one
      <3> QED BY <2>2, UpdateRareful
    <2> HIDE DEF two
    <2> QED BY <2>1, <2>3, RareBag
  <1>4. ASSUME NEW n, CancelSale(c, n)  PROVE  RareInv'
    <2> DEFINE h == history[c][n]
               back == AddItemById(bag[c], h.kind, Units(h.kind, h.stack))
    <2>1. bag' = [bag EXCEPT ![c] = back]
      BY <1>4 DEF CancelSale
    <2>2. Rareful(back)
      BY <1>0, AddRareful
    <2> HIDE DEF back
    <2> QED BY <2>1, <2>2, RareBag
  <1> QED BY <1>1, <1>2, <1>3, <1>4 DEF Auction

LEMMA RareAlone ==
  ASSUME RareInv, NEW c \in Char, Alone(c)
  PROVE  RareInv'
  <1>0. Rareful(bag[c])
    BY DEF RareInv
  <1>1. ASSUME EnterZone(c)  PROVE  RareInv'
    BY <1>1 DEF EnterZone, RareInv
  <1>2. ASSUME NEW s, NEW q, Drop(c, s, q)  PROVE  RareInv'
    <2>1. bag' = [bag EXCEPT ![c] = UpdateItem(bag[c], s, 0 - q)]
      BY <1>2 DEF Drop
    <2> QED BY <1>0, <2>1, UpdateRareful, RareBag
  <1>3. ASSUME NEW s, NEW q, Split(c, s, q)  PROVE  RareInv'
    <2> DEFINE more == AddItemById(bag[c], bag[c][s].kind, q)
    <2>1. bag' = [bag EXCEPT ![c] = UpdateItem(more, s, 0 - q)]
      BY <1>3 DEF Split
    <2>2. Rareful(more)
      BY <1>0, AddRareful
    <2> HIDE DEF more
    <2> QED BY <2>1, <2>2, UpdateRareful, RareBag
  <1>4. ASSUME NEW s, NEW q, SellToVendor(c, s, q)  PROVE  RareInv'
    <2> DEFINE paid == UpdateItem(bag[c], 0, q)
    <2>1. bag' = [bag EXCEPT ![c] = UpdateItem(paid, s, 0 - q)]
      BY <1>4 DEF SellToVendor
    <2>2. Rareful(paid)
      BY <1>0, UpdateRareful
    <2> HIDE DEF paid
    <2> QED BY <2>1, <2>2, UpdateRareful, RareBag
  <1>5. ASSUME NEW a, NEW b, Merge(c, a, b)  PROVE  RareInv'
    <2> DEFINE moved == AtMost(Stack[bag[c][a].kind] - bag[c][a].qty, bag[c][b].qty)
               more == UpdateItem(bag[c], a, moved)
    <2>1. bag' = [bag EXCEPT ![c] = UpdateItem(more, b, 0 - moved)]
      BY <1>5 DEF Merge
    <2> HIDE DEF moved
    <2>2. Rareful(more)
      BY <1>0, UpdateRareful
    <2> HIDE DEF more
    <2> QED BY <2>1, <2>2, UpdateRareful, RareBag
  <1> QED BY <1>1, <1>2, <1>3, <1>4, <1>5 DEF Alone

LEMMA RareSynthesis ==
  ASSUME RareInv, NEW c \in Char, Synthesis(c)
  PROVE  RareInv'
  <1>0. Rareful(bag[c])
    BY DEF RareInv
  <1>1. ASSUME NEW m, NEW lost  PROVE  Rareful(Spent(bag[c], m, lost))
    BY <1>0, SpentWithin, WithinRareful DEF Rareful
  <1>2. ASSUME NEW s, NEW m, StartSynth(c, s, m)  PROVE  RareInv'
    <2> DEFINE b == UpdateItem(bag[c], s, 0 - 1)
               r == [x \in Slots |-> [b[x] EXCEPT !.reserve = @ + Uses(m, x)]]
    <2>1. bag' = [bag EXCEPT ![c] = r]
      BY <1>2 DEF StartSynth
    <2>2. Rareful(b)
      BY <1>0, UpdateRareful
    <2>3. Within(r, b)
      <3> HIDE DEF b
      <3> QED BY <2>2 DEF Within, Shape, Rareful
    <2> HIDE DEF b, r
    <2> QED BY <2>1, <2>2, <2>3, WithinRareful, RareBag
  <1>3. ASSUME NEW lost, SynthFails(c, lost)  PROVE  RareInv'
    BY <1>1, <1>3, RareBag DEF SynthFails
  <1>4. ASSUME NEW lost, LeaveZone(c, lost)  PROVE  RareInv'
    <2>1. bag' = [bag EXCEPT ![c] = Unreserve(Spent(bag[c], craft[c], lost), offer[c])]
      BY <1>4 DEF LeaveZone
    <2>2. PICK b : b = Spent(bag[c], craft[c], lost)
      OBVIOUS
    <2>3. Rareful(b)
      BY <1>1, <2>2
    <2>4. Rareful(Unreserve(b, offer[c]))
      BY <2>3, UnreserveWithin, WithinRareful DEF Rareful
    <2> QED BY <2>1, <2>2, <2>4, RareBag
  <1>5. ASSUME NEW r, SynthSucceeds(c, r)  PROVE  RareInv'
    <2>1. bag' = [bag EXCEPT ![c] = AddItemById(Spent(bag[c], craft[c], DOMAIN craft[c]), r.kind, r.qty)]
      BY <1>5 DEF SynthSucceeds
    <2>2. PICK b : b = Spent(bag[c], craft[c], DOMAIN craft[c])
      OBVIOUS
    <2>3. Rareful(b)
      BY <1>1, <2>2
    <2>4. Rareful(AddItemById(b, r.kind, r.qty))
      BY <2>3, AddRareful
    <2> QED BY <2>1, <2>2, <2>4, RareBag
  <1> QED BY <1>2, <1>3, <1>4, <1>5 DEF Synthesis

LEMMA RareNext == RareInv /\ Refers /\ [Next]_vars => RareInv'
  <1> SUFFICES ASSUME RareInv, Refers, [Next]_vars PROVE RareInv'
    OBVIOUS
  <1>1. CASE UNCHANGED vars
    BY <1>1 DEF vars, RareInv
  <1> QED BY <1>1, RareTrade, RareBazaar, RareAuction, RareAlone, RareSynthesis DEF Next

\* Whatever circumstances occur, nobody owns a rare item twice: AddItem refuses
\* the second one, and nothing else brings a kind into a bag (charutils::AddItem).
THEOREM RareOnceAlways == Spec => []RareOnce
  <1>1. RareInv => RareOnce
    <2> SUFFICES ASSUME RareInv, NEW c \in Char, NEW k \in Rare
                 PROVE  Cardinality({s \in Slots : bag[c][s].kind = k}) <= 1
      BY DEF RareOnce
    <2> DEFINE S == {s \in Slots : bag[c][s].kind = k}
    <2>1. \A s, t \in S : s = t
      BY DEF RareInv, Rareful
    <2>2. Cardinality(S) <= 1
      <3> HIDE DEF S
      <3>1. CASE S = {}
        <4>1. Cardinality(S) = 0
          BY <3>1, FS_EmptySet
        <4> QED BY <4>1
      <3>2. CASE S # {}
        <4>1. PICK s : S = {s}
          BY <2>1, <3>2
        <4>2. Cardinality(S) = 1
          BY <4>1, FS_Singleton
        <4> QED BY <4>2
      <3> QED BY <3>1, <3>2
    <2> QED BY <2>2
  <1> QED BY <1>1, RareInit, RareNext, RefersInit, RefersNext, PTL DEF Spec

-----------------------------------------------------------------------------
(***************************************************************************)
(* Bags as they are as long as no player leaves a trade, no request meets  *)
(* another and no offer is changed after the OK: an item is not more than  *)
(* a stack and not less than what is reserved of it, and gil is in slot 0. *)
(***************************************************************************)
Good == {i \in Stacked : i.reserve <= i.qty}
Bag == {b \in [Slots -> Good \cup {Empty}] : \A s \in 1..BagSize : b[s].kind # Gil}

\* u reserves what b does, of the same kinds.
Holds(u, b) ==
  \A s \in Slots : u[s].reserve = b[s].reserve /\ (b[s].reserve > 0 => u[s].kind = b[s].kind)

LEMMA ItemFacts ==
  ASSUME NEW i \in Good
  PROVE  /\ i \in Item /\ i # Empty
         /\ i.kind \in Kind \cup {Gil} /\ i.qty \in Nat /\ i.reserve \in Nat /\ i.price \in Nat
         /\ i.reserve <= i.qty /\ i.qty <= Stack[i.kind]
         /\ Stack[i.kind] \in Nat /\ Stack[i.kind] >= 1
  <1>1. i \in Item /\ i.qty <= Stack[i.kind] /\ i.reserve <= i.qty
    BY DEF Good, Stacked
  <1>2. i.kind \in Kind \cup {Gil} /\ i.qty \in Nat /\ i.reserve \in Nat /\ i.price \in Nat
    BY <1>1 DEF Item
  <1>3. i # Empty
    BY <1>2, ExchangeAssumption DEF Empty
  <1>4. Stack[i.kind] \in Nat \ {0}
    BY <1>2, ExchangeAssumption
  <1> QED BY <1>1, <1>2, <1>3, <1>4

LEMMA EmptyFacts ==
  Empty.kind = Nothing /\ Empty.qty = 0 /\ Empty.reserve = 0 /\ Empty.price = 0
  BY DEF Empty

LEMMA BagFacts ==
  ASSUME NEW b \in Bag, NEW s \in Slots
  PROVE  /\ DOMAIN b = Slots /\ b[s] \in Good \cup {Empty}
         /\ b[s].kind \in Kind \cup {Gil, Nothing} /\ (b[s].kind = Gil => s = 0)
         /\ (b[s] # Empty => b[s] \in Good)
         /\ b[s].qty \in Nat /\ b[s].reserve \in Nat /\ b[s].price \in Nat
         /\ b[s].reserve <= b[s].qty
  <1>1. DOMAIN b = Slots /\ b[s] \in Good \cup {Empty} /\ (b[s].kind = Gil => s = 0)
    <2>1. b \in [Slots -> Good \cup {Empty}] /\ \A x \in 1..BagSize : b[x].kind # Gil
      BY DEF Bag
    <2>2. s = 0 \/ s \in 1..BagSize
      BY ExchangeAssumption DEF Slots
    <2> QED BY <2>1, <2>2
  <1> QED BY <1>1, ItemFacts, EmptyFacts

\* One item of a bag is changed.
LEMMA PutBag ==
  ASSUME NEW b \in Bag, NEW s \in Slots, NEW i \in Good \cup {Empty}, i.kind = Gil => s = 0
  PROVE  /\ [b EXCEPT ![s] = i] \in Bag
         /\ (i.reserve = b[s].reserve /\ (b[s].reserve > 0 => i.kind = b[s].kind)
               => Holds([b EXCEPT ![s] = i], b))
  <1> DEFINE u == [b EXCEPT ![s] = i]
  <1>1. b \in [Slots -> Good \cup {Empty}] /\ \A x \in 1..BagSize : b[x].kind # Gil
    BY DEF Bag
  <1>2. u \in [Slots -> Good \cup {Empty}] /\ u[s] = i /\ \A x \in Slots : x # s => u[x] = b[x]
    BY <1>1
  <1> HIDE DEF u
  <1>3. u \in Bag
    <2>1. ASSUME NEW x \in 1..BagSize  PROVE  u[x].kind # Gil
      <3>1. x \in Slots /\ x # 0
        BY ExchangeAssumption DEF Slots
      <3> QED BY <1>1, <1>2, <3>1
    <2> QED BY <1>2, <2>1 DEF Bag
  <1>4. i.reserve = b[s].reserve /\ (b[s].reserve > 0 => i.kind = b[s].kind) => Holds(u, b)
    BY <1>2 DEF Holds
  <1> QED BY <1>3, <1>4 DEF u

LEMMA HoldsAgain ==
  ASSUME NEW a, NEW b, NEW c, Holds(a, b), Holds(b, c)
  PROVE  Holds(a, c)
  BY DEF Holds

LEMMA HoldsSame == \A b : Holds(b, b)
  BY DEF Holds

\* UpdateItem respects what is reserved, whatever it is asked to take or add.
LEMMA UpdateBag ==
  ASSUME NEW b \in Bag, NEW s \in Slots, NEW q \in Int
  PROVE  UpdateItem(b, s, q) \in Bag /\ Holds(UpdateItem(b, s, q), b)
  <1> DEFINE left == AtMost(b[s].qty + q, Stack[b[s].kind])
             i == IF left = 0 /\ b[s].kind # Gil THEN Empty ELSE [b[s] EXCEPT !.qty = left]
  <1>1. CASE b[s] = Empty \/ Unreserved(b[s]) + q < 0
    BY <1>1, HoldsSame DEF UpdateItem
  <1>2. CASE ~(b[s] = Empty \/ Unreserved(b[s]) + q < 0)
    <2>1. UpdateItem(b, s, q) = [b EXCEPT ![s] = i]
      BY <1>2 DEF UpdateItem
    <2>2. /\ b[s] \in Item /\ b[s].qty \in Nat /\ b[s].reserve \in Nat
          /\ Stack[b[s].kind] \in Nat /\ Stack[b[s].kind] >= 1
          /\ b[s].reserve <= b[s].qty /\ b[s].qty <= Stack[b[s].kind]
          /\ (b[s].kind = Gil => s = 0)
      BY <1>2, BagFacts, ItemFacts
    <2>3. left \in Nat /\ b[s].reserve <= left /\ left <= Stack[b[s].kind]
      <3>1. b[s].qty - b[s].reserve + q >= 0
        BY <1>2, <2>2 DEF Unreserved
      <3> QED BY <2>2, <3>1 DEF AtMost
    <2>4. CASE left = 0 /\ b[s].kind # Gil
      <3>1. i = Empty /\ b[s].reserve = 0
        BY <2>2, <2>3, <2>4
      <3>2. Empty.reserve = 0 /\ (Empty.kind = Gil => s = 0)
        BY EmptyFacts, ExchangeAssumption
      <3> HIDE DEF i, left
      <3>3. i \in Good \cup {Empty} /\ (i.kind = Gil => s = 0) /\ i.reserve = b[s].reserve
        BY <3>1, <3>2
      <3>4. b[s].reserve > 0 => i.kind = b[s].kind
        BY <3>1
      <3>5. [b EXCEPT ![s] = i] \in Bag /\ Holds([b EXCEPT ![s] = i], b)
        BY <3>3, <3>4, PutBag
      <3> QED BY <2>1, <3>5
    <2>5. CASE ~(left = 0 /\ b[s].kind # Gil)
      <3> DEFINE j == [b[s] EXCEPT !.qty = left]
      <3> HIDE DEF left
      <3>1. j \in Item /\ j.qty = left /\ j.kind = b[s].kind /\ j.reserve = b[s].reserve
        BY <2>2, <2>3 DEF Item
      <3> HIDE DEF j
      <3>2. j \in Good
        BY <2>3, <3>1 DEF Good, Stacked
      <3>3. i = j
        BY <2>5 DEF j, left
      <3> HIDE DEF i
      <3>4. i \in Good \cup {Empty} /\ (i.kind = Gil => s = 0) /\ i.reserve = b[s].reserve
        BY <2>2, <3>1, <3>2, <3>3
      <3>5. b[s].reserve > 0 => i.kind = b[s].kind
        BY <3>1, <3>3
      <3>6. [b EXCEPT ![s] = i] \in Bag /\ Holds([b EXCEPT ![s] = i], b)
        BY <3>4, <3>5, PutBag
      <3> QED BY <2>1, <3>6
    <2> QED BY <2>4, <2>5
  <1> QED BY <1>1, <1>2

\* AddItem puts a new item where nothing was.
LEMMA AddBag ==
  ASSUME NEW b \in Bag, NEW k \in Kind \cup {Gil}, NEW q \in Nat, q <= Stack[k]
  PROVE  /\ AddItem(b, k, q) \in Bag /\ Holds(AddItem(b, k, q), b)
         /\ AddItemById(b, k, q) \in Bag /\ Holds(AddItemById(b, k, q), b)
  <1> DEFINE n == Min(FreeSlots(b))
             i == [kind |-> k, qty |-> q, reserve |-> 0, price |-> 0]
             u == [b EXCEPT ![n] = i]
  <1>1. 0 \in Slots /\ Holds(b, b)
    BY HoldsSame, ExchangeAssumption DEF Slots
  <1>2. UpdateItem(b, 0, q) \in Bag /\ Holds(UpdateItem(b, 0, q), b)
    BY <1>1, UpdateBag
  <1>3. ASSUME FreeSlots(b) # {}, k # Gil  PROVE  u \in Bag /\ Holds(u, b)
    <2>1. n \in Slots /\ b[n] = Empty
      BY <1>3, FreeSlot, ExchangeAssumption DEF Slots
    <2>2. i \in Good /\ i.kind = k /\ i.reserve = 0
      BY DEF Good, Stacked, Item
    <2>3. b[n].reserve = 0
      BY <2>1, EmptyFacts
    <2> HIDE DEF n, i
    <2> QED BY <1>3, <2>1, <2>2, <2>3, PutBag
  <1> HIDE DEF u
  <1>4. \/ AddItem(b, k, q) = UpdateItem(b, 0, q) \/ AddItem(b, k, q) = b
        \/ AddItem(b, k, q) = u /\ FreeSlots(b) # {} /\ k # Gil
    BY DEF AddItem, u
  <1>5. AddItem(b, k, q) \in Bag /\ Holds(AddItem(b, k, q), b)
    BY <1>1, <1>2, <1>3, <1>4
  <1> QED BY <1>1, <1>5 DEF AddItemById

\* The reserve or the price of an item is set.
LEMMA ReserveItem ==
  ASSUME NEW i \in Good, NEW r \in Nat, r <= i.qty
  PROVE  LET j == [i EXCEPT !.reserve = r] IN
         /\ j \in Good /\ j # Empty /\ j.reserve = r
         /\ j.kind = i.kind /\ j.qty = i.qty /\ j.price = i.price
  <1> DEFINE j == [i EXCEPT !.reserve = r]
  <1>1. i \in Item /\ i.qty <= Stack[i.kind]
    BY ItemFacts
  <1>2. j \in Item /\ j.reserve = r /\ j.kind = i.kind /\ j.qty = i.qty /\ j.price = i.price
    BY <1>1 DEF Item
  <1> HIDE DEF j
  <1>3. j \in Good
    BY <1>1, <1>2 DEF Good, Stacked
  <1>4. j # Empty
    BY <1>3, ItemFacts
  <1> QED BY <1>2, <1>3, <1>4 DEF j

LEMMA PriceItem ==
  ASSUME NEW i \in Good, NEW r \in Nat
  PROVE  LET j == [i EXCEPT !.price = r] IN
         j \in Good /\ j.reserve = i.reserve /\ j.kind = i.kind
  <1> DEFINE j == [i EXCEPT !.price = r]
  <1>1. i \in Item /\ i.qty <= Stack[i.kind] /\ i.reserve <= i.qty
    BY ItemFacts
  <1>2. j \in Item /\ j.reserve = i.reserve /\ j.kind = i.kind /\ j.qty = i.qty
    BY <1>1 DEF Item
  <1> HIDE DEF j
  <1>3. j \in Good
    BY <1>1, <1>2 DEF Good, Stacked
  <1> QED BY <1>2, <1>3 DEF j

LEMMA SameKindBag ==
  ASSUME NEW b \in Bag, NEW s \in Slots, NEW i \in Good, i.kind = b[s].kind
  PROVE  LET u == [b EXCEPT ![s] = i] IN
         u \in Bag /\ u[s] = i /\ \A x \in Slots : x # s => u[x] = b[x]
  <1>1. DOMAIN b = Slots /\ (b[s].kind = Gil => s = 0)
    BY BagFacts
  <1>2. i \in Good \cup {Empty} /\ (i.kind = Gil => s = 0)
    BY <1>1
  <1>3. [b EXCEPT ![s] = i] \in Bag
    BY <1>2, PutBag
  <1> QED BY <1>1, <1>3

LEMMA UnreserveBag ==
  ASSUME NEW b \in Bag, NEW o
  PROVE  /\ Unreserve(b, o) \in Bag
         /\ \A s \in Slots : /\ Unreserve(b, o)[s].kind = b[s].kind
                             /\ Unreserve(b, o)[s].reserve = IF s \in Range(o) THEN 0 ELSE b[s].reserve
  <1> DEFINE u == Unreserve(b, o)
  <1>1. ASSUME NEW s \in Slots
        PROVE  /\ u[s] \in Good \cup {Empty} /\ u[s].kind = b[s].kind
               /\ u[s].reserve = IF s \in Range(o) THEN 0 ELSE b[s].reserve
    <2> DEFINE i == [b[s] EXCEPT !.reserve = 0]
    <2>1. u[s] = IF s \in Range(o) THEN i ELSE b[s]
      BY DEF Unreserve
    <2>2. i \in Good \cup {Empty} /\ i.kind = b[s].kind /\ i.reserve = 0
      <3>1. CASE b[s] = Empty
        BY <3>1 DEF Empty
      <3>2. CASE b[s] # Empty
        <4>1. b[s] \in Item /\ b[s].qty \in Nat /\ b[s].qty <= Stack[b[s].kind]
          BY <3>2, BagFacts, ItemFacts
        <4>2. i \in Item /\ i.kind = b[s].kind /\ i.reserve = 0 /\ i.qty = b[s].qty
          BY <4>1 DEF Item
        <4> HIDE DEF i
        <4>3. i \in Good
          BY <4>1, <4>2 DEF Good, Stacked
        <4> QED BY <4>2, <4>3
      <3> QED BY <3>1, <3>2
    <2> HIDE DEF i, u
    <2> QED BY <2>1, <2>2, BagFacts
  <1>2. u = [s \in Slots |-> u[s]]
    BY DEF Unreserve
  <1> HIDE DEF u
  <1>3. u \in [Slots -> Good \cup {Empty}]
    BY <1>1, <1>2
  <1>4. ASSUME NEW s \in 1..BagSize  PROVE  u[s].kind # Gil
    <2>1. s \in Slots
      BY ExchangeAssumption DEF Slots
    <2> QED BY <1>1, <2>1 DEF Bag
  <1>5. u \in Bag
    BY <1>3, <1>4 DEF Bag
  <1> QED BY <1>1, <1>5 DEF u

\* What a trade gives: bags, in which nothing is reserved that was not before.
Freed(u, b) == \A s \in Slots : u[s].reserve = 0 \/ u[s].reserve = b[s].reserve

LEMMA PassedBag ==
  ASSUME NEW b, b.from \in Bag, b.to \in Bag, NEW s \in Slots \cup {NoOffer}
  PROVE  /\ Passed(b, s).from \in Bag /\ Freed(Passed(b, s).from, b.from)
         /\ Passed(b, s).to \in Bag /\ Freed(Passed(b, s).to, b.to)
  <1>1. CASE s = NoOffer
    BY <1>1 DEF Passed, Freed
  <1>2. CASE s # NoOffer
    <2> DEFINE r == [b.from EXCEPT ![s].reserve = 0]
               k == b.from[s].kind
               n == b.from[s].reserve
    <2>1. s \in Slots /\ k \in Kind \cup {Gil, Nothing} /\ n \in Nat
      BY <1>2, BagFacts
    <2>2. GivenItem(b, s) \in Bag /\ Holds(GivenItem(b, s), b.to)
      <3>1. CASE b.from[s] = Empty
        <4>1. n = 0
          BY <3>1, EmptyFacts
        <4>2. GivenItem(b, s) = b.to
          BY <4>1 DEF GivenItem, AddItemById
        <4> QED BY <4>2, HoldsSame
      <3>2. CASE b.from[s] # Empty
        <4>1. b.from[s] \in Good
          BY <2>1, <3>2, BagFacts
        <4>2. /\ k \in Kind \cup {Gil} /\ n <= Stack[k]
              /\ b.from[s].qty \in Nat /\ b.from[s].qty <= Stack[k]
          BY <4>1, ItemFacts
        <4>3. \/ GivenItem(b, s) = AddItem(b.to, k, b.from[s].qty)
              \/ GivenItem(b, s) = AddItemById(b.to, k, n)
          BY DEF GivenItem
        <4> HIDE DEF k, n
        <4> QED BY <2>1, <4>2, <4>3, AddBag
      <3> QED BY <3>1, <3>2
    <2>3. r \in Bag /\ Freed(r, b.from)
      <3>1. CASE b.from[s] = Empty
        <4>1. PICK a : a = b.from
          OBVIOUS
        <4>2. [Empty EXCEPT !.reserve = 0] = Empty
          BY DEF Empty
        <4>3. a \in [Slots -> Good \cup {Empty}] /\ a[s] = Empty
          BY <3>1, <4>1 DEF Bag
        <4>4. r = [a EXCEPT ![s] = Empty]
          BY <4>1, <4>2, <4>3
        <4>5. [a EXCEPT ![s] = Empty] = a
          BY <4>3
        <4> QED BY <4>1, <4>4, <4>5 DEF Freed
      <3>2. CASE b.from[s] # Empty
        <4>1. PICK a \in Bag : a = b.from
          OBVIOUS
        <4>2. PICK j \in Good : j = a[s]
          BY <2>1, <3>2, <4>1, BagFacts
        <4>3. 0 \in Nat /\ 0 <= j.qty
          BY ItemFacts
        <4>4. PICK i : i = [j EXCEPT !.reserve = 0]
          OBVIOUS
        <4>5. i \in Good /\ i.reserve = 0 /\ i.kind = j.kind
          BY <4>3, <4>4, ReserveItem
        <4>6. r = [a EXCEPT ![s] = i]
          BY <4>1, <4>2, <4>4
        <4>7. r \in Bag /\ r[s] = i /\ \A x \in Slots : x # s => r[x] = a[x]
          <5>1. s \in Slots /\ i \in Good /\ i.kind = a[s].kind
            BY <2>1, <4>2, <4>5
          <5>2. /\ [a EXCEPT ![s] = i] \in Bag /\ [a EXCEPT ![s] = i][s] = i
                /\ \A x \in Slots : x # s => [a EXCEPT ![s] = i][x] = a[x]
            BY <5>1, SameKindBag
          <5> HIDE DEF r
          <5> QED BY <4>6, <5>2
        <4> HIDE DEF r
        <4> QED BY <4>1, <4>5, <4>7 DEF Freed
      <3> QED BY <3>1, <3>2
    <2> HIDE DEF r
    <2>4. UpdateItem(r, s, 0 - n) \in Bag /\ Holds(UpdateItem(r, s, 0 - n), r)
      <3>1. 0 - n \in Int
        BY <2>1
      <3> HIDE DEF n
      <3> QED BY <2>1, <2>3, <3>1, UpdateBag
    <2>5. Passed(b, s).from = UpdateItem(r, s, 0 - n) /\ Passed(b, s).to = GivenItem(b, s)
      BY <1>2 DEF Passed, r
    <2> HIDE DEF n
    <2> QED BY <2>2, <2>3, <2>4, <2>5 DEF Freed, Holds
  <1> QED BY <1>1, <1>2

LEMMA TradeBag ==
  ASSUME NEW from \in Bag, NEW to \in Bag, NEW o \in [1..TradeSlots -> Slots \cup {NoOffer}]
  PROVE  LET d == DoTrade(from, to, o) IN
         d.from \in Bag /\ Freed(d.from, from) /\ d.to \in Bag /\ Freed(d.to, to)
  <1> DEFINE f == Stages(from, to, o)
             I == {t \in 0..TradeSlots : /\ f[t].from \in Bag /\ Freed(f[t].from, from)
                                         /\ f[t].to \in Bag /\ Freed(f[t].to, to)}
  <1> HIDE DEF f
  <1>1. /\ TradeSlots \in Nat /\ DoTrade(from, to, o) = f[TradeSlots]
        /\ f[0] = [from |-> from, to |-> to]
        /\ \A t \in 1..TradeSlots : f[t] = Passed(f[t - 1], o[t])
    BY StagesOfTrade DEF f
  <1>2. 0 \in I
    BY <1>1 DEF Freed
  <1>3. ASSUME NEW t \in 1..TradeSlots, t - 1 \in I  PROVE  t \in I
    <2>1. PICK b : b = f[t - 1]
      OBVIOUS
    <2>2. /\ b.from \in Bag /\ Freed(b.from, from) /\ b.to \in Bag /\ Freed(b.to, to)
          /\ f[t] = Passed(b, o[t]) /\ t \in 0..TradeSlots /\ o[t] \in Slots \cup {NoOffer}
      BY <1>1, <1>3, <2>1
    <2>3. /\ f[t].from \in Bag /\ Freed(f[t].from, b.from)
          /\ f[t].to \in Bag /\ Freed(f[t].to, b.to)
      BY <2>2, PassedBag
    <2>4. Freed(f[t].from, from) /\ Freed(f[t].to, to)
      BY <2>2, <2>3 DEF Freed
    <2> QED BY <2>2, <2>3, <2>4
  <1>4. TradeSlots \in I
    <2> HIDE DEF I
    <2> QED BY <1>1, <1>2, <1>3, Steps
  <1> QED BY <1>1, <1>4

-----------------------------------------------------------------------------
(***************************************************************************)
(* The rows of the auction house and what players saw of them.             *)
(***************************************************************************)
\* The n-th of a finite set of rows, by id, exists for each n.
LEMMA RanksExist ==
  ASSUME NEW S, IsFiniteSet(S), \A r \in S : r.id \in Nat,
         \A x, y \in S : x.id = y.id => x = y,
         NEW n \in 1..Cardinality(S)
  PROVE  \E r \in S : Cardinality({x \in S : x.id < r.id}) = n - 1
  <1> DEFINE Before(r) == {x \in S : x.id < r.id}
             k == Cardinality(S)
             T == (0..(k - 1)) \ {n - 1}
             f == [r \in S |-> Cardinality(Before(r))]
  <1>1. k \in Nat /\ k >= 1 /\ n - 1 \in 0..(k - 1)
    BY FS_CardinalityType
  <1>2. IsFiniteSet(T) /\ Cardinality(T) = k - 1
    <2> HIDE DEF k
    <2>1. k - 1 \in Int /\ 0 \in Int
      BY <1>1
    <2>2. IsFiniteSet(0..(k - 1)) /\ Cardinality(0..(k - 1)) = k
      <3>1. /\ IsFiniteSet(0..(k - 1))
            /\ Cardinality(0..(k - 1)) = IF 0 > k - 1 THEN 0 ELSE (k - 1) - 0 + 1
        BY <2>1, FS_Interval
      <3> QED BY <1>1, <3>1
    <2> DEFINE J == 0..(k - 1)
    <2>3. n - 1 \in J /\ IsFiniteSet(J) /\ Cardinality(J) = k /\ T = J \ {n - 1}
      BY <1>1, <2>2
    <2> HIDE DEF J, T
    <2>4. IsFiniteSet(J \ {n - 1}) /\ Cardinality(J \ {n - 1}) = k - 1
      BY <2>3, FS_RemoveElement
    <2> QED BY <2>3, <2>4
  <1>3. ASSUME NEW r \in S
        PROVE  IsFiniteSet(Before(r)) /\ Cardinality(Before(r)) \in 0..(k - 1)
    <2>1. Before(r) \in SUBSET (S \ {r})
      OBVIOUS
    <2>2. IsFiniteSet(S \ {r}) /\ Cardinality(S \ {r}) = k - 1
      BY FS_RemoveElement
    <2> HIDE DEF Before, k
    <2>3. IsFiniteSet(Before(r)) /\ Cardinality(Before(r)) <= k - 1
      BY <2>1, <2>2, FS_Subset
    <2> QED BY <1>1, <2>3, FS_CardinalityType
  <1>4. ASSUME NEW x \in S, NEW y \in S, x.id < y.id
        PROVE  Cardinality(Before(x)) # Cardinality(Before(y))
    <2>1. Before(x) \in SUBSET Before(y) /\ x \in Before(y) /\ x \notin Before(x)
      <3>1. x.id \in Nat /\ y.id \in Nat /\ ~(x.id < x.id)
        OBVIOUS
      <3>2. ASSUME NEW z \in S, z.id < x.id  PROVE  z.id < y.id
        <4>1. z.id \in Nat
          OBVIOUS
        <4> QED BY <1>4, <3>1, <3>2, <4>1
      <3> QED BY <1>4, <3>1, <3>2
    <2>2. IsFiniteSet(Before(y))
      BY <1>3
    <2> HIDE DEF Before
    <2> QED BY <2>1, <2>2, FS_Subset
  <1>5. CASE \A r \in S : Cardinality(Before(r)) # n - 1
    <2>1. f \in [S -> T]
      <3> HIDE DEF Before, k
      <3> QED BY <1>3, <1>5
    <2>2. Cardinality(T) < Cardinality(S)
      BY <1>1, <1>2
    <2> HIDE DEF f, T, k
    <2>3. \E x, y \in S : x # y /\ f[x] = f[y]
      BY <1>2, <2>1, <2>2, FS_PigeonHole
    <2>4. PICK x \in S, y \in S : x # y /\ f[x] = f[y]
      BY <2>3
    <2>5. Cardinality(Before(x)) = Cardinality(Before(y))
      BY <2>4 DEF f
    <2>6. x.id < y.id \/ y.id < x.id
      BY <2>4
    <2> HIDE DEF Before
    <2> QED BY <1>4, <2>5, <2>6
  <1> QED BY <1>5

\* A bounded set of natural numbers has a greatest element, which Max names.
LEMMA GreatestNumber ==
  ASSUME NEW S \in SUBSET Nat, S # {}, NEW n \in Nat, \A x \in S : x <= n
  PROVE  Max(S) \in S /\ \A x \in S : x <= Max(S)
  <1> DEFINE U == {u \in Nat : \A x \in S : x <= u}
             m == Min(U)
  <1>1. m \in U /\ \A u \in U : m <= u
    <2>1. U \in SUBSET Nat /\ U # {}
      OBVIOUS
    <2> HIDE DEF U
    <2> QED BY <2>1, LeastNumber
  <1> HIDE DEF m
  <1>2. m \in S
    <2>1. CASE m \notin S
      <3>1. \A x \in S : x <= m - 1
        BY <1>1, <2>1
      <3>2. m - 1 \in Nat
        <4>1. PICK x \in S : TRUE
          OBVIOUS
        <4>2. x \in Nat /\ m \in Nat /\ x <= m - 1
          BY <1>1, <3>1
        <4> QED BY <4>2
      <3> QED BY <1>1, <3>1, <3>2
    <2> QED BY <2>1
  <1>3. \A x \in S : m >= x
    BY <1>1
  <1>4. Max(S) \in S /\ \A x \in S : Max(S) >= x
    BY <1>2, <1>3 DEF Max
  <1>5. Max(S) \in Nat
    BY <1>4
  <1> QED BY <1>4, <1>5

Ledger ==
  /\ rows \subseteq Row /\ IsFiniteSet(rows)
  /\ \A x, y \in rows : x.id = y.id => x = y
  /\ DOMAIN history = Char
  /\ \A c \in Char : \A n \in DOMAIN history[c] : history[c][n].kind \in Kind
  /\ mail \in [Char -> Nat]

LEMMA RowFacts ==
  ASSUME Ledger, NEW r \in rows
  PROVE  /\ r \in Row /\ r.id \in 1..MaxRows /\ r.id \in Nat /\ r.kind \in Kind
         /\ r.stack \in BOOLEAN /\ r.seller \in Char /\ r.price \in Prices /\ r.price \in Nat
  <1>1. r \in Row /\ MaxRows \in Nat /\ Prices \subseteq Nat
    BY ExchangeAssumption DEF Ledger
  <1>2. /\ r.id \in 1..MaxRows /\ r.kind \in Kind /\ r.stack \in BOOLEAN
        /\ r.seller \in Char /\ r.price \in Prices
    BY <1>1 DEF Row
  <1>3. r.id \in Nat
    <2>1. \A i \in 1..MaxRows : i \in Nat
      BY <1>1
    <2> QED BY <1>2, <2>1
  <1>4. r.price \in Nat
    BY <1>1, <1>2
  <1> QED BY <1>1, <1>2, <1>3, <1>4

\* The id of a new row is above all others.
LEMMA NewIdIsNew ==
  ASSUME Ledger
  PROVE  NewId \in Nat /\ NewId >= 1 /\ \A r \in rows : r.id < NewId
  <1> DEFINE S == {r.id : r \in rows} \cup {0}
  <1>1. MaxRows \in Nat
    BY ExchangeAssumption
  <1>2. S \in SUBSET Nat /\ S # {} /\ \A x \in S : x <= MaxRows
    BY <1>1, RowFacts
  <1>3. Max(S) \in S /\ \A x \in S : x <= Max(S)
    <2> HIDE DEF S
    <2> QED BY <1>1, <1>2, GreatestNumber
  <1>4. Max(S) \in Nat /\ \A r \in rows : r.id \in Nat /\ r.id <= Max(S)
    BY <1>2, <1>3
  <1> DEFINE m == Max(S)
  <1>5. NewId = 1 + m
    BY DEF NewId
  <1>6. m \in Nat /\ \A r \in rows : r.id \in Nat /\ r.id <= m
    BY <1>4
  <1> HIDE DEF m
  <1>7. ASSUME NEW r \in rows  PROVE  r.id < NewId
    BY <1>5, <1>6
  <1> QED BY <1>5, <1>6, <1>7

-----------------------------------------------------------------------------
(***************************************************************************)
(* The invariant, where a trade is neither left nor crossed by another     *)
(* request nor its offer changed after the own OK.  Markets used and       *)
(* prices changed while a trade is open do it no harm.                     *)
(***************************************************************************)
Baseline == Trouble \subseteq {"in_trade", "reprice"}

Bags == bag \in [Char -> Bag]

\* Who trades has an open window and trades with one who trades with him, and
\* in the TradePending of neither is a third player's.
Pairs ==
  /\ Refers
  /\ trading \in [Char -> BOOLEAN] /\ window \in [Char -> BOOLEAN]
  /\ here \in [Char -> BOOLEAN] /\ lock \in [Char -> BOOLEAN]
  /\ \A c \in Char : pending[c] # c
  /\ \A c, p, x \in Char : pending[c] = p /\ pending[p] = c /\ pending[x] = c => x = p
  /\ \A c \in Char : trading[c] =>
       /\ here[c] /\ window[c] /\ pending[c] \in Char
       /\ trading[pending[c]] /\ pending[pending[c]] = c
  /\ \A c \in Char : ~trading[c] => ~window[c] /\ ~lock[c] /\ offer[c] = NoOffers

\* What is offered is reserved, and offered once.
Offers ==
  /\ offer \in [Char -> [1..TradeSlots -> Slots \cup {NoOffer}]]
  /\ \A c \in Char : \A t, u \in 1..TradeSlots :
       offer[c][t] = offer[c][u] /\ offer[c][t] # NoOffer => t = u
  /\ \A c \in Char : craft[c] = <<>> =>
       \A s \in Slots : bag[c][s].reserve > 0 <=> s \in Range(offer[c])

\* An OK is for the two offers as they are.
Seals ==
  /\ DOMAIN agreed = Char
  /\ \A c, p \in Char : lock[c] /\ pending[c] = p => agreed[c] = <<Offered(c), Offered(p)>>

\* The ingredients of a synthesis are reserved, and nothing else is.
Crafted(m, b) ==
  /\ m \in [DOMAIN Ingredients -> 1..BagSize]
  /\ \A s \in Slots : b[s].reserve = Uses(m, s)
  /\ \A i \in DOMAIN Ingredients : b[m[i]].kind = Ingredients[i]
Crafts ==
  /\ DOMAIN craft = Char
  /\ \A c \in Char : craft[c] # <<>> =>
       offer[c] = NoOffers /\ ~lock[c] /\ Crafted(craft[c], bag[c])

TradeInv == Bags /\ Pairs /\ Offers /\ Seals /\ Crafts

\* How many ingredients are in a slot.
LEMMA UsesFacts ==
  ASSUME NEW D, IsFiniteSet(D), NEW m, D = DOMAIN m, NEW s
  PROVE  /\ Uses(m, s) \in Nat /\ (Uses(m, s) > 0 <=> s \in Range(m))
         /\ \A lost \in SUBSET D : /\ Uses([i \in lost |-> m[i]], s) \in Nat
                                   /\ Uses([i \in lost |-> m[i]], s) <= Uses(m, s)
  <1> DEFINE U == {i \in D : m[i] = s}
  <1>1. Uses(m, s) = Cardinality(U)
    BY DEF Uses
  <1>2. IsFiniteSet(U)
    <2>1. U \in SUBSET D
      OBVIOUS
    <2> HIDE DEF U
    <2> QED BY <2>1, FS_Subset
  <1>3. U = {} <=> s \notin Range(m)
    BY DEF Range
  <1>4. ASSUME NEW lost \in SUBSET D
        PROVE  /\ Uses([i \in lost |-> m[i]], s) \in Nat
               /\ Uses([i \in lost |-> m[i]], s) <= Cardinality(U)
    <2> DEFINE L == {i \in lost : [j \in lost |-> m[j]][i] = s}
    <2>1. Uses([i \in lost |-> m[i]], s) = Cardinality(L)
      BY DEF Uses
    <2>2. L \in SUBSET U
      OBVIOUS
    <2> HIDE DEF L, U
    <2> QED BY <1>2, <2>1, <2>2, FS_Subset, FS_CardinalityType
  <1>5. Cardinality(U) \in Nat /\ (Cardinality(U) = 0 <=> U = {})
    <2> HIDE DEF U
    <2> QED BY <1>2, FS_CardinalityType, FS_EmptySet
  <1> HIDE DEF U
  <1>6. \A lost \in SUBSET D : /\ Uses([i \in lost |-> m[i]], s) \in Nat
                               /\ Uses([i \in lost |-> m[i]], s) <= Uses(m, s)
    BY <1>1, <1>4
  <1>7. Uses(m, s) \in Nat /\ (Uses(m, s) > 0 <=> s \in Range(m))
    BY <1>1, <1>3, <1>5
  <1> QED BY <1>6, <1>7

LEMMA RecipeFacts ==
  /\ IsFiniteSet(DOMAIN Ingredients) /\ DOMAIN Ingredients # {}
  /\ \A i \in DOMAIN Ingredients : Ingredients[i] \in Kind /\ Ingredients[i] # Crystal
  <1>1. Ingredients \in Seq(Kind) /\ Ingredients # <<>> /\ Crystal \notin Range(Ingredients)
    BY ExchangeAssumption
  <1>2. DOMAIN Ingredients = 1..Len(Ingredients) /\ Len(Ingredients) \in Nat /\ Len(Ingredients) # 0
    BY <1>1
  <1>3. \A i \in DOMAIN Ingredients : Ingredients[i] \in Kind /\ Ingredients[i] # Crystal
    BY <1>1 DEF Range
  <1>4. IsFiniteSet(1..Len(Ingredients))
    BY <1>2, FS_Interval
  <1> QED BY <1>2, <1>3, <1>4

\* At the end of a synthesis nothing is reserved.
LEMMA SpentBag ==
  ASSUME NEW b \in Bag, NEW m, Crafted(m, b), NEW lost \in SUBSET DOMAIN m
  PROVE  Spent(b, m, lost) \in Bag /\ \A s \in Slots : Spent(b, m, lost)[s].reserve = 0
  <1> DEFINE u == Spent(b, m, lost)
  <1>1. IsFiniteSet(DOMAIN m) /\ \A s \in Slots : b[s].reserve = Uses(m, s)
    BY RecipeFacts DEF Crafted
  <1>2. ASSUME NEW s \in Slots
        PROVE  u[s] \in Good \cup {Empty} /\ u[s].reserve = 0 /\ (u[s].kind = Gil => s = 0)
    <2> DEFINE taken == Uses([i \in lost |-> m[i]], s)
               r == [b EXCEPT ![s].reserve = @ - Uses(m, s)]
    <2>1. /\ Uses(m, s) \in Nat /\ (Uses(m, s) > 0 <=> s \in Range(m)) /\ taken \in Nat
          /\ b[s].reserve = Uses(m, s)
      BY <1>1, UsesFacts
    <2>2. u[s] = IF s \in Range(m) THEN UpdateItem(r, s, 0 - taken)[s] ELSE b[s]
      BY DEF Spent
    <2>3. CASE s \notin Range(m)
      BY <2>1, <2>2, <2>3, BagFacts
    <2>4. CASE s \in Range(m)
      <3>1. b[s] # Empty
        BY <2>1, <2>4, EmptyFacts
      <3>2. PICK j \in Good : j = b[s]
        BY <3>1, BagFacts
      <3>3. PICK i : i = [j EXCEPT !.reserve = 0]
        OBVIOUS
      <3>4. i \in Good /\ i.reserve = 0 /\ i.kind = b[s].kind
        <4>1. 0 \in Nat /\ 0 <= j.qty
          BY ItemFacts
        <4> QED BY <3>2, <3>3, <4>1, ReserveItem
      <3>5. r = [b EXCEPT ![s] = i]
        <4>1. j.reserve - Uses(m, s) = 0
          BY <2>1, <3>2
        <4> QED BY <3>2, <3>3, <4>1
      <3>6. r \in Bag /\ r[s] = i
        <4>1. [b EXCEPT ![s] = i] \in Bag /\ [b EXCEPT ![s] = i][s] = i
          BY <3>4, SameKindBag
        <4> HIDE DEF r
        <4> QED BY <3>5, <4>1
      <3> HIDE DEF r
      <3>7. PICK v : v = UpdateItem(r, s, 0 - taken)
        OBVIOUS
      <3>8. v \in Bag /\ Holds(v, r)
        <4>1. 0 - taken \in Int
          BY <2>1
        <4> HIDE DEF taken
        <4> QED BY <3>6, <3>7, <4>1, UpdateBag
      <3>9. v[s] \in Good \cup {Empty} /\ v[s].reserve = 0 /\ (v[s].kind = Gil => s = 0)
        BY <3>4, <3>6, <3>8, BagFacts DEF Holds
      <3> HIDE DEF u
      <3> QED BY <2>2, <2>4, <3>7, <3>9
    <2> QED BY <2>3, <2>4
  <1>3. u = [s \in Slots |-> u[s]]
    BY DEF Spent
  <1> HIDE DEF u
  <1>4. u \in [Slots -> Good \cup {Empty}]
    BY <1>2, <1>3
  <1>5. ASSUME NEW s \in 1..BagSize  PROVE  u[s].kind # Gil
    <2>1. s \in Slots /\ s # 0
      BY ExchangeAssumption DEF Slots
    <2> QED BY <1>2, <2>1
  <1>6. u \in Bag
    BY <1>4, <1>5 DEF Bag
  <1> QED BY <1>2, <1>6 DEF u

\* Without a synthesis there is nothing to spend.
LEMMA SpentNothing ==
  ASSUME NEW b \in Bag, NEW lost
  PROVE  Spent(b, <<>>, lost) = b
  <1>1. Range(<<>>) = {}
    BY DEF Range
  <1>2. b = [s \in Slots |-> b[s]]
    BY DEF Bag
  <1> QED BY <1>1, <1>2 DEF Spent

LEMMA NoOffersFacts ==
  /\ NoOffers \in [1..TradeSlots -> Slots \cup {NoOffer}]
  /\ \A t \in 1..TradeSlots : NoOffers[t] = NoOffer
  /\ \A s \in Slots : s \notin Range(NoOffers) /\ s # NoOffer
  <1>1. \A s \in Slots : s # NoOffer
    BY ExchangeAssumption DEF Slots, NoOffer
  <1>2. NoOffers = [t \in 1..TradeSlots |-> NoOffer]
    BY DEF NoOffers
  <1> QED BY <1>1, <1>2 DEF Range

LEMMA TradeInit == Init => TradeInv
  <1> SUFFICES ASSUME Init PROVE TradeInv
    OBVIOUS
  <1>1. /\ bag = Start /\ Start \in [Char -> [Slots -> Stacked \cup {Empty}]]
        /\ \A c \in Char, s \in Slots : Start[c][s].reserve = 0 /\ (Start[c][s].kind = Gil <=> s = 0)
    BY ExchangeAssumption DEF Init
  <1>2. ASSUME NEW c \in Char  PROVE  Start[c] \in Bag
    <2>1. ASSUME NEW s \in Slots  PROVE  Start[c][s] \in Good \cup {Empty}
      <3>1. Start[c][s] \in Stacked \cup {Empty} /\ Start[c][s].reserve = 0
        BY <1>1
      <3>2. CASE Start[c][s] \in Stacked
        <4>1. Start[c][s].qty \in Nat
          BY <3>2 DEF Stacked, Item
        <4> QED BY <3>1, <3>2, <4>1 DEF Good
      <3> QED BY <3>1, <3>2
    <2>2. Start[c] \in [Slots -> Good \cup {Empty}]
      BY <1>1, <2>1
    <2>3. ASSUME NEW s \in 1..BagSize  PROVE  Start[c][s].kind # Gil
      <3>1. s \in Slots /\ s # 0
        BY ExchangeAssumption DEF Slots
      <3> QED BY <1>1, <3>1
    <2> QED BY <2>2, <2>3 DEF Bag
  <1>3. Bags
    BY <1>1, <1>2 DEF Bags
  <1>4. Pairs
    BY ExchangeAssumption DEF Init, Pairs, Refers
  <1>5. Offers
    <2>1. offer = [c \in Char |-> NoOffers]
      BY DEF Init
    <2>2. offer \in [Char -> [1..TradeSlots -> Slots \cup {NoOffer}]]
      BY <2>1, NoOffersFacts
    <2>3. \A c \in Char : \A t \in 1..TradeSlots : offer[c][t] = NoOffer
      BY <2>1, NoOffersFacts
    <2>4. \A c \in Char : \A s \in Slots : bag[c][s].reserve > 0 <=> s \in Range(offer[c])
      BY <1>1, <2>1, NoOffersFacts
    <2> QED BY <2>2, <2>3, <2>4 DEF Offers
  <1>6. Seals /\ Crafts
    BY DEF Init, Seals, Crafts
  <1> QED BY <1>3, <1>4, <1>5, <1>6 DEF TradeInv

\* What is offered stays as it is when nothing reserved is touched.
LEMMA OfferedHolds ==
  ASSUME Offers, Crafts, NEW c \in Char, Holds(bag'[c], bag[c]), offer'[c] = offer[c]
  PROVE  Offered(c)' = Offered(c)
  <1>1. ASSUME NEW t \in 1..TradeSlots, offer[c][t] # NoOffer
        PROVE  /\ bag'[c][offer[c][t]].kind = bag[c][offer[c][t]].kind
               /\ bag'[c][offer[c][t]].reserve = bag[c][offer[c][t]].reserve
    <2>1. offer[c] \in [1..TradeSlots -> Slots \cup {NoOffer}]
      BY DEF Offers
    <2>2. craft[c] = <<>>
      BY <1>1, NoOffersFacts DEF Crafts
    <2>3. offer[c][t] \in Slots /\ offer[c][t] \in Range(offer[c])
      BY <1>1, <2>1 DEF Range
    <2>4. bag[c][offer[c][t]].reserve > 0
      BY <2>2, <2>3 DEF Offers
    <2> QED BY <2>3, <2>4 DEF Holds
  <1>2. Offered(c)' = [t \in 1..TradeSlots |->
                         IF offer'[c][t] = NoOffer THEN <<Nothing, 0>>
                         ELSE <<bag'[c][offer'[c][t]].kind, bag'[c][offer'[c][t]].reserve>>]
    BY DEF Offered
  <1>3. Offered(c) = [t \in 1..TradeSlots |->
                        IF offer[c][t] = NoOffer THEN <<Nothing, 0>>
                        ELSE <<bag[c][offer[c][t]].kind, bag[c][offer[c][t]].reserve>>]
    BY DEF Offered
  <1> QED BY <1>1, <1>2, <1>3

\* Without offers, nothing is offered, whatever is in the bag.
LEMMA OfferedNothing ==
  ASSUME NEW c, offer[c] = NoOffers, offer'[c] = NoOffers
  PROVE  Offered(c)' = Offered(c)
  BY NoOffersFacts DEF Offered

\* A step that leaves trades alone, and in every bag what is reserved.
LEMMA MarketKeeps ==
  ASSUME TradeInv, bag' \in [Char -> Bag], \A c \in Char : Holds(bag'[c], bag[c]),
         UNCHANGED <<tradeVars, craft>>, Refers',
         here' \in [Char -> BOOLEAN], \A c \in Char : here[c] => here'[c]
  PROVE  TradeInv'
  <1>1. UNCHANGED <<pending, trading, lock, count, offer, window, agreed, craft>>
    BY DEF tradeVars
  <1>2. Bags' /\ Pairs'
    BY <1>1 DEF TradeInv, Bags, Pairs
  <1>3. Offers'
    BY <1>1 DEF TradeInv, Offers, Holds
  <1>4. Seals'
    <2>1. \A c \in Char : Offered(c)' = Offered(c)
      BY <1>1, OfferedHolds DEF TradeInv
    <2>2. ASSUME NEW c \in Char, NEW p \in Char, lock'[c], pending'[c] = p
          PROVE  (agreed[c] = <<Offered(c), Offered(p)>>)'
      <3>1. agreed[c] = <<Offered(c), Offered(p)>>
        BY <1>1, <2>2 DEF TradeInv, Seals
      <3>2. Offered(p)' = Offered(p) /\ Offered(c)' = Offered(c) /\ agreed'[c] = agreed[c]
        BY <1>1, <2>1
      <3> QED BY <3>1, <3>2
    <2>3. DOMAIN agreed' = Char
      BY <1>1 DEF TradeInv, Seals
    <2> QED BY <2>2, <2>3 DEF Seals
  <1>5. Crafts'
    <2>1. ASSUME NEW c \in Char, craft[c] # <<>>  PROVE  Crafted(craft[c], bag'[c])
      <3>1. PICK m : m = craft[c]
        OBVIOUS
      <3>2. /\ m \in [DOMAIN Ingredients -> 1..BagSize]
            /\ \A s \in Slots : bag[c][s].reserve = Uses(m, s)
            /\ \A i \in DOMAIN Ingredients : bag[c][m[i]].kind = Ingredients[i]
        BY <2>1, <3>1 DEF TradeInv, Crafts, Crafted
      <3>3. \A s \in Slots : bag'[c][s].reserve = Uses(m, s)
        BY <3>2 DEF Holds
      <3>4. ASSUME NEW i \in DOMAIN Ingredients  PROVE  bag'[c][m[i]].kind = Ingredients[i]
        <4>1. m[i] \in Slots
          BY <3>2, ExchangeAssumption DEF Slots
        <4>2. m[i] \in Range(m) /\ DOMAIN m = DOMAIN Ingredients
          BY <3>2 DEF Range
        <4>3. Uses(m, m[i]) > 0
          BY <4>2, RecipeFacts, UsesFacts
        <4> QED BY <3>2, <4>1, <4>3 DEF Holds
      <3> QED BY <3>1, <3>2, <3>3, <3>4 DEF Crafted
    <2> QED BY <1>1, <2>1 DEF TradeInv, Crafts
  <1> QED BY <1>2, <1>3, <1>4, <1>5 DEF TradeInv

\* One bag changes, and nothing reserved in it.
LEMMA BagKeeps ==
  ASSUME TradeInv, NEW c \in Char, NEW b \in Bag, Holds(b, bag[c]), bag' = [bag EXCEPT ![c] = b],
         UNCHANGED <<here, tradeVars, craft>>, Refers'
  PROVE  TradeInv'
  <1>1. bag' \in [Char -> Bag]
    BY DEF TradeInv, Bags
  <1>2. \A x \in Char : Holds(bag'[x], bag[x])
    <2>1. ASSUME NEW x \in Char  PROVE  Holds(bag'[x], bag[x])
      <3>1. CASE x = c
        BY <3>1 DEF TradeInv, Bags
      <3>2. CASE x # c
        BY <3>2, HoldsSame DEF TradeInv, Bags
      <3> QED BY <3>1, <3>2
    <2> QED BY <2>1
  <1>3. here' \in [Char -> BOOLEAN] /\ \A x \in Char : here[x] => here'[x]
    BY DEF TradeInv, Pairs
  <1> QED BY <1>1, <1>2, <1>3, MarketKeeps

LEMMA NoBagKeeps ==
  ASSUME TradeInv, UNCHANGED <<bag, tradeVars, craft>>, Refers',
         here' \in [Char -> BOOLEAN], \A x \in Char : here[x] => here'[x]
  PROVE  TradeInv'
  <1>1. bag' \in [Char -> Bag] /\ \A x \in Char : Holds(bag'[x], bag[x])
    BY HoldsSame DEF TradeInv, Bags
  <1> QED BY <1>1, MarketKeeps

\* Slots that players name, and the items in them.
LEMMA SlotFacts ==
  ASSUME TradeInv, NEW c \in Char, NEW s \in 1..BagSize, bag[c][s] # Empty
  PROVE  /\ s \in Slots /\ bag[c] \in Bag /\ bag[c][s] \in Good /\ bag[c][s].kind \in Kind
         /\ bag[c][s].qty \in Nat /\ bag[c][s].qty <= Stack[bag[c][s].kind]
         /\ Stack[bag[c][s].kind] \in Nat /\ Stack[bag[c][s].kind] >= 1
         /\ bag[c][s].reserve \in Nat
  <1>1. s \in Slots /\ s # 0 /\ bag[c] \in Bag
    BY ExchangeAssumption DEF Slots, TradeInv, Bags
  <1>2. bag[c][s] \in Good /\ bag[c][s].kind # Gil
    BY <1>1, BagFacts
  <1> QED BY <1>1, <1>2, ItemFacts

LEMMA Zero == 0 \in Slots
  BY ExchangeAssumption DEF Slots

LEMMA BazaarKeeps ==
  ASSUME TradeInv, Refers', NEW c \in Char, Bazaar(c), UNCHANGED craft
  PROVE  TradeInv'
  <1>0. here \in [Char -> BOOLEAN] /\ bag[c] \in Bag /\ \A x \in Char : bag[x] \in Bag
    BY DEF TradeInv, Pairs, Bags
  <1>1. ASSUME OpenBazaar(c) \/ CloseBazaar(c) \/ LeaveWares(c) \/ \E p \in Char : ViewWares(c, p)
        PROVE  TradeInv'
    <2>1. UNCHANGED <<bag, tradeVars, craft, here>>
      BY <1>1 DEF OpenBazaar, CloseBazaar, LeaveWares, ViewWares
    <2> QED BY <1>0, <2>1, NoBagKeeps
  <1>2. ASSUME NEW s \in 1..BagSize, NEW price \in {0} \cup Prices, SetPrice(c, s, price)
        PROVE  TradeInv'
    <2>1. /\ bag' = [bag EXCEPT ![c][s].price = price] /\ UNCHANGED <<here, tradeVars, craft>>
          /\ bag[c][s] # Empty
      BY <1>2 DEF SetPrice
    <2>2. s \in Slots /\ bag[c][s] \in Good /\ price \in Nat
      BY <2>1, SlotFacts, ExchangeAssumption
    <2>3. PICK i \in Good : i = bag[c][s]
      BY <2>2
    <2>4. PICK j : j = [i EXCEPT !.price = price]
      OBVIOUS
    <2>5. j \in Good /\ j.reserve = bag[c][s].reserve /\ j.kind = bag[c][s].kind
      BY <2>2, <2>3, <2>4, PriceItem
    <2>6. PICK b : b = [bag[c] EXCEPT ![s] = j]
      OBVIOUS
    <2>7. b \in Bag /\ Holds(b, bag[c])
      <3>1. j.kind = Gil => s = 0
        BY <1>0, <2>2, <2>5, BagFacts
      <3>2. j \in Good \cup {Empty}
        BY <2>5
      <3>3. PICK a \in Bag : a = bag[c]
        BY <1>0
      <3>4. [a EXCEPT ![s] = j] \in Bag /\ Holds([a EXCEPT ![s] = j], a)
        BY <2>2, <2>5, <3>1, <3>2, <3>3, PutBag
      <3> QED BY <2>6, <3>3, <3>4
    <2>8. bag' = [bag EXCEPT ![c] = b]
      BY <2>1, <2>3, <2>4, <2>6
    <2> QED BY <2>1, <2>7, <2>8, BagKeeps
  <1>3. ASSUME NEW s \in 1..BagSize, NEW q \in Quantity, Purchase(c, s, q)  PROVE  TradeInv'
    <2>1. PICK p : p = view[c]
      OBVIOUS
    <2>2. PICK goods : goods = AddItem(bag[c], bag[p][s].kind, q)
      OBVIOUS
    <2>3. PICK cost, sum : cost = 0 - WithTax(bag[p][s].price * q) /\ sum = bag[p][s].price * q
      OBVIOUS
    <2>4. PICK mine : mine = UpdateItem(goods, 0, cost)
      OBVIOUS
    <2>5. PICK paid : paid = UpdateItem(bag[p], 0, sum)
      OBVIOUS
    <2>6. PICK theirs : theirs = UpdateItem(paid, s, 0 - q)
      OBVIOUS
    <2>7. /\ bag' = [bag EXCEPT ![c] = mine, ![p] = theirs] /\ UNCHANGED <<here, tradeVars, craft>>
          /\ p \in Char /\ bag[p][s].price # 0 /\ bag[p][s].qty >= q
      BY SMTT(20), <1>3, <2>1, <2>2, <2>3, <2>4, <2>5, <2>6 DEF Purchase, TradeInv, Pairs, Refers
    <2>8. q \in Nat
      <3>1. q \in Int /\ q >= 1
        BY DEF Quantity
      <3> QED BY <3>1
    <2>9. bag[p][s] # Empty /\ bag[p][s].price \in Nat
      <3>1. s \in Slots /\ bag[p] \in Bag
        BY <1>0, <2>7, ExchangeAssumption DEF Slots
      <3> QED BY <2>7, <3>1, EmptyFacts, BagFacts
    <2>10. cost \in Int /\ sum \in Int
      <3> DEFINE price == bag[p][s].price
      <3>1. Tax \in Nat /\ price \in Nat
        BY <2>9, ExchangeAssumption
      <3> HIDE DEF price
      <3>2. price * q \in Nat
        BY <2>8, <3>1
      <3>3. (Tax * (price * q)) \div 10000 \in Int
        <4>1. Tax * (price * q) \in Nat
          BY <3>1, <3>2
        <4> QED BY <4>1
      <3> QED BY <2>3, <3>2, <3>3 DEF WithTax, price
    <2>11. goods \in Bag /\ Holds(goods, bag[c])
      <3>1. bag[p][s].kind \in Kind \cup {Gil} /\ q <= Stack[bag[p][s].kind]
        BY <2>7, <2>8, <2>9, SlotFacts
      <3> QED BY <1>0, <2>2, <2>8, <3>1, AddBag
    <2>12. mine \in Bag /\ Holds(mine, bag[c])
      BY <2>4, <2>10, <2>11, Zero, UpdateBag, HoldsAgain
    <2>13. paid \in Bag /\ Holds(paid, bag[p])
      BY <1>0, <2>5, <2>7, <2>10, Zero, UpdateBag
    <2>14. theirs \in Bag /\ Holds(theirs, bag[p])
      <3>1. s \in Slots /\ 0 - q \in Int
        BY <2>8, ExchangeAssumption DEF Slots
      <3> QED BY <2>6, <2>13, <3>1, UpdateBag, HoldsAgain
    <2>15. bag' \in [Char -> Bag]
      BY <2>7, <2>12, <2>14 DEF TradeInv, Bags
    <2>16. \A x \in Char : Holds(bag'[x], bag[x])
      <3>1. ASSUME NEW x \in Char
            PROVE  bag'[x] = bag[x] \/ (x = c /\ bag'[x] = mine) \/ (x = p /\ bag'[x] = theirs)
        BY <2>7 DEF TradeInv, Bags
      <3> QED BY <2>12, <2>14, <3>1, HoldsSame
    <2> QED BY <1>0, <2>7, <2>15, <2>16, MarketKeeps
  <1> QED BY <1>1, <1>2, <1>3 DEF Bazaar

\* Two UpdateItems, one after the other.
LEMMA TwiceKeeps ==
  ASSUME TradeInv, Refers', NEW c \in Char, NEW b \in Bag, Holds(b, bag[c]),
         NEW s \in Slots, NEW q \in Int, bag' = [bag EXCEPT ![c] = UpdateItem(b, s, q)],
         UNCHANGED <<here, tradeVars, craft>>
  PROVE  TradeInv'
  <1>1. PICK u : u = UpdateItem(b, s, q)
    OBVIOUS
  <1>2. u \in Bag /\ Holds(u, b)
    BY <1>1, UpdateBag
  <1>3. Holds(u, bag[c])
    BY <1>2, HoldsAgain
  <1> QED BY <1>1, <1>2, <1>3, BagKeeps

LEMMA UnitsFacts ==
  ASSUME NEW k \in Kind, NEW stack
  PROVE  Units(k, stack) \in Nat /\ Units(k, stack) <= Stack[k]
  <1>1. Stack[k] \in Nat /\ Stack[k] >= 1
    BY ExchangeAssumption
  <1> QED BY <1>1 DEF Units

LEMMA AuctionKeeps ==
  ASSUME TradeInv, Ledger, Refers', NEW c \in Char, Auction(c), UNCHANGED craft
  PROVE  TradeInv'
  <1>0. here \in [Char -> BOOLEAN] /\ bag[c] \in Bag
    BY DEF TradeInv, Pairs, Bags
  <1>1. ASSUME RefreshHistory(c)  PROVE  TradeInv'
    <2>1. UNCHANGED <<bag, tradeVars, craft, here>>
      BY <1>1 DEF RefreshHistory
    <2> QED BY <1>0, <2>1, NoBagKeeps
  <1>2. ASSUME NEW s \in 1..BagSize, NEW stack, NEW price, PlaceSale(c, s, stack, price)
        PROVE  TradeInv'
    <2>1. PICK n : n = 0 - Units(bag[c][s].kind, stack)
      OBVIOUS
    <2>2. PICK one : one = UpdateItem(bag[c], s, n)
      OBVIOUS
    <2>3. PICK fee : fee = 0 - Fee
      OBVIOUS
    <2>4. /\ bag' = [bag EXCEPT ![c] = UpdateItem(one, 0, fee)] /\ bag[c][s] # Empty
          /\ UNCHANGED <<here, tradeVars, craft>>
      BY <1>2, <2>1, <2>2, <2>3 DEF PlaceSale
    <2>5. n \in Int /\ fee \in Int /\ s \in Slots
      <3>1. s \in Slots /\ bag[c][s].kind \in Kind /\ Fee \in Nat
        BY <2>4, SlotFacts, ExchangeAssumption
      <3>2. Units(bag[c][s].kind, stack) \in Nat
        BY <3>1, UnitsFacts
      <3> QED BY <2>1, <2>3, <3>1, <3>2
    <2>6. one \in Bag /\ Holds(one, bag[c])
      BY <1>0, <2>2, <2>5, UpdateBag
    <2> QED BY <2>4, <2>5, <2>6, Zero, TwiceKeeps
  <1>3. ASSUME NEW k \in Kind, NEW stack, NEW bid \in Prices, Bid(c, k, stack, bid)  PROVE  TradeInv'
    <2>1. PICK one : one = AddItemById(bag[c], k, Units(k, stack))
      OBVIOUS
    <2>2. PICK cost : cost = 0 - bid
      OBVIOUS
    <2>3. /\ bag' = [bag EXCEPT ![c] = UpdateItem(one, 0, cost)]
          /\ UNCHANGED <<here, tradeVars, craft>>
      BY <1>3, <2>1, <2>2 DEF Bid
    <2>4. cost \in Int
      <3>1. bid \in Nat
        BY ExchangeAssumption
      <3> QED BY <2>2, <3>1
    <2>5. one \in Bag /\ Holds(one, bag[c])
      <3>1. k \in Kind \cup {Gil}
        OBVIOUS
      <3> QED BY <1>0, <2>1, <3>1, UnitsFacts, AddBag
    <2> QED BY <2>3, <2>4, <2>5, Zero, TwiceKeeps
  <1>4. ASSUME NEW n \in DOMAIN history[c], CancelSale(c, n)  PROVE  TradeInv'
    <2>1. PICK h : h = history[c][n]
      OBVIOUS
    <2>2. PICK back : back = AddItemById(bag[c], h.kind, Units(h.kind, h.stack))
      OBVIOUS
    <2>3. bag' = [bag EXCEPT ![c] = back] /\ UNCHANGED <<here, tradeVars, craft>>
      BY <1>4, <2>1, <2>2 DEF CancelSale
    <2>4. h.kind \in Kind
      BY <2>1 DEF Ledger
    <2>5. back \in Bag /\ Holds(back, bag[c])
      <3>1. h.kind \in Kind \cup {Gil}
        BY <2>4
      <3>2. Units(h.kind, h.stack) \in Nat /\ Units(h.kind, h.stack) <= Stack[h.kind]
        BY <2>4, UnitsFacts
      <3> QED BY <1>0, <2>2, <3>1, <3>2, AddBag
    <2> QED BY <2>3, <2>5, BagKeeps
  <1> QED BY <1>1, <1>2, <1>3, <1>4 DEF Auction

LEMMA AloneKeeps ==
  ASSUME TradeInv, Refers', NEW c \in Char, Alone(c), UNCHANGED craft
  PROVE  TradeInv'
  <1>0. here \in [Char -> BOOLEAN] /\ bag[c] \in Bag
    BY DEF TradeInv, Pairs, Bags
  <1>1. ASSUME EnterZone(c)  PROVE  TradeInv'
    <2>1. UNCHANGED <<bag, tradeVars, craft>> /\ here' = [here EXCEPT ![c] = TRUE]
      BY <1>1 DEF EnterZone
    <2>2. here' \in [Char -> BOOLEAN] /\ \A x \in Char : here[x] => here'[x]
      BY <1>0, <2>1
    <2> QED BY <2>1, <2>2, NoBagKeeps
  <1>2. \A q \in Quantity : q \in Nat /\ q >= 1 /\ q \in Int /\ 0 - q \in Int
    <2>1. ASSUME NEW q \in Quantity  PROVE  q \in Int /\ q >= 1
      BY DEF Quantity
    <2> QED BY <2>1
  <1>3. ASSUME NEW s \in 1..BagSize, NEW q \in Quantity, Drop(c, s, q)  PROVE  TradeInv'
    <2>1. bag' = [bag EXCEPT ![c] = UpdateItem(bag[c], s, 0 - q)] /\ UNCHANGED <<here, tradeVars, craft>>
      BY <1>3 DEF Drop
    <2>2. s \in Slots /\ Holds(bag[c], bag[c])
      BY ExchangeAssumption, HoldsSame DEF Slots
    <2> QED BY <1>0, <1>2, <2>1, <2>2, TwiceKeeps
  <1>4. ASSUME NEW s \in 1..BagSize, NEW q \in Quantity, Split(c, s, q)  PROVE  TradeInv'
    <2>1. PICK more : more = AddItemById(bag[c], bag[c][s].kind, q)
      OBVIOUS
    <2>2. /\ bag' = [bag EXCEPT ![c] = UpdateItem(more, s, 0 - q)] /\ UNCHANGED <<here, tradeVars, craft>>
          /\ bag[c][s] # Empty /\ q < bag[c][s].qty
      BY <1>4, <2>1 DEF Split
    <2>3. /\ s \in Slots /\ bag[c][s].kind \in Kind \cup {Gil}
          /\ bag[c][s].qty \in Nat /\ bag[c][s].qty <= Stack[bag[c][s].kind]
          /\ Stack[bag[c][s].kind] \in Nat
      BY <2>2, SlotFacts
    <2>4. q <= Stack[bag[c][s].kind]
      BY <1>2, <2>2, <2>3
    <2>5. more \in Bag /\ Holds(more, bag[c])
      BY <1>0, <1>2, <2>1, <2>3, <2>4, AddBag
    <2> QED BY <1>2, <2>2, <2>3, <2>5, TwiceKeeps
  <1>5. ASSUME NEW s \in 1..BagSize, NEW q \in Quantity, SellToVendor(c, s, q)  PROVE  TradeInv'
    <2>1. PICK paid : paid = UpdateItem(bag[c], 0, q)
      OBVIOUS
    <2>2. bag' = [bag EXCEPT ![c] = UpdateItem(paid, s, 0 - q)] /\ UNCHANGED <<here, tradeVars, craft>>
      BY <1>5, <2>1 DEF SellToVendor
    <2>3. s \in Slots
      BY ExchangeAssumption DEF Slots
    <2>4. paid \in Bag /\ Holds(paid, bag[c])
      BY <1>0, <1>2, <2>1, Zero, UpdateBag
    <2> QED BY <1>2, <2>2, <2>3, <2>4, TwiceKeeps
  <1>6. ASSUME NEW a \in 1..BagSize, NEW b \in 1..BagSize, Merge(c, a, b)  PROVE  TradeInv'
    <2>1. PICK moved : moved = AtMost(Stack[bag[c][a].kind] - bag[c][a].qty, bag[c][b].qty)
      OBVIOUS
    <2>2. PICK more : more = UpdateItem(bag[c], a, moved)
      OBVIOUS
    <2>3. /\ bag' = [bag EXCEPT ![c] = UpdateItem(more, b, 0 - moved)] /\ UNCHANGED <<here, tradeVars, craft>>
          /\ bag[c][a] # Empty
      BY <1>6, <2>1, <2>2 DEF Merge
    <2>4. a \in Slots /\ b \in Slots
      BY ExchangeAssumption DEF Slots
    <2>5. moved \in Int /\ 0 - moved \in Int
      <3>1. bag[c][a].qty \in Nat /\ Stack[bag[c][a].kind] \in Nat /\ bag[c][b].qty \in Nat
        BY <1>0, <2>3, <2>4, SlotFacts, BagFacts
      <3> QED BY <2>1, <3>1 DEF AtMost
    <2>6. more \in Bag /\ Holds(more, bag[c])
      BY <1>0, <2>2, <2>4, <2>5, UpdateBag
    <2> QED BY <2>3, <2>4, <2>5, <2>6, TwiceKeeps
  <1> QED BY <1>1, <1>3, <1>4, <1>5, <1>6 DEF Alone

\* The bag of one who offers nothing changes with what his synthesis reserves.
LEMMA LoneKeeps ==
  ASSUME TradeInv, Refers', NEW c \in Char, offer[c] = NoOffers, ~lock[c],
         NEW b \in Bag, bag' = [bag EXCEPT ![c] = b],
         UNCHANGED <<trading, lock, offer, window>>,
         \/ UNCHANGED <<here, pending, agreed>>
         \/ /\ ~trading[c] /\ pending' = [pending EXCEPT ![c] = None]
            /\ here' = [here EXCEPT ![c] = FALSE] /\ agreed' = [agreed EXCEPT ![c] = <<>>],
         NEW m, craft' = [craft EXCEPT ![c] = m],
         m = <<>> => \A s \in Slots : b[s].reserve = 0,
         m # <<>> => Crafted(m, b)
  PROVE  TradeInv'
  <1>1. UNCHANGED <<trading, lock, offer, window>>
    OBVIOUS
  <1>2. Bags' /\ \A x \in Char : bag'[x] = IF x = c THEN b ELSE bag[x]
    BY DEF TradeInv, Bags
  <1>3. craft'[c] = m /\ DOMAIN craft' = Char /\ \A x \in Char : x # c => craft'[x] = craft[x]
    BY DEF TradeInv, Crafts
  <1>4. None \notin Char
    BY ExchangeAssumption
  <1>5. Pairs'
    <2>1. CASE UNCHANGED <<here, pending, agreed>>
      BY <1>1, <2>1 DEF TradeInv, Pairs
    <2>2. CASE /\ ~trading[c] /\ pending' = [pending EXCEPT ![c] = None]
               /\ here' = [here EXCEPT ![c] = FALSE] /\ agreed' = [agreed EXCEPT ![c] = <<>>]
      <3>1. Pairs
        BY DEF TradeInv
      <3>2. \A x \in Char : trading[x] => x # c /\ pending[x] # c
        BY <2>2, <3>1 DEF Pairs
      <3>3. /\ pending'[c] = None /\ \A x \in Char : x # c => pending'[x] = pending[x]
            /\ \A x \in Char : x # c => here'[x] = here[x]
            /\ here' \in [Char -> BOOLEAN]
        BY <2>2, <3>1 DEF Pairs, Refers
      <3>4. \A x, y, z \in Char : pending'[x] = y /\ pending'[y] = x /\ pending'[z] = x => z = y
        BY <1>4, <3>1, <3>3 DEF Pairs
      <3>5. \A x \in Char : pending'[x] # x
        BY <1>4, <3>1, <3>3 DEF Pairs
      <3>6. ASSUME NEW x \in Char, trading'[x]
            PROVE  /\ here'[x] /\ window'[x] /\ pending'[x] \in Char
                   /\ trading'[pending'[x]] /\ pending'[pending'[x]] = x
        BY <1>1, <3>1, <3>2, <3>3, <3>6 DEF Pairs
      <3>7. /\ trading' \in [Char -> BOOLEAN] /\ window' \in [Char -> BOOLEAN]
            /\ lock' \in [Char -> BOOLEAN]
            /\ \A x \in Char : ~trading'[x] => ~window'[x] /\ ~lock'[x] /\ offer'[x] = NoOffers
        BY <1>1, <3>1 DEF Pairs
      <3> QED BY <3>3, <3>4, <3>5, <3>6, <3>7 DEF Pairs
    <2> QED BY <2>1, <2>2
  <1>6. Offers'
    <2>1. ASSUME NEW x \in Char, craft'[x] = <<>>, NEW s \in Slots
          PROVE  bag'[x][s].reserve > 0 <=> s \in Range(offer[x])
      <3>1. CASE x = c
        BY <1>2, <1>3, <2>1, <3>1, NoOffersFacts
      <3>2. CASE x # c
        BY <1>2, <1>3, <2>1, <3>2 DEF TradeInv, Offers
      <3> QED BY <3>1, <3>2
    <2> QED BY <1>1, <2>1 DEF TradeInv, Offers
  <1>7. Seals'
    <2>1. \A x \in Char : Offered(x)' = Offered(x)
      <3>1. ASSUME NEW x \in Char  PROVE  Offered(x)' = Offered(x)
        <4>1. CASE x = c
          BY <1>1, <4>1, OfferedNothing
        <4>2. CASE x # c
          <5>1. Holds(bag'[x], bag[x]) /\ offer'[x] = offer[x]
            BY <1>1, <1>2, <4>2, HoldsSame
          <5> QED BY <5>1, OfferedHolds DEF TradeInv
        <4> QED BY <4>1, <4>2
      <3> QED BY <3>1
    <2>2. ASSUME NEW x \in Char, NEW p \in Char, lock'[x], pending'[x] = p
          PROVE  (agreed[x] = <<Offered(x), Offered(p)>>)'
      <3>1. lock[x] /\ x # c
        BY <1>1, <2>2
      <3>2. agreed'[x] = agreed[x] /\ pending'[x] = pending[x]
        BY <3>1 DEF TradeInv, Seals, Pairs, Refers
      <3>3. agreed[x] = <<Offered(x), Offered(p)>>
        BY <2>2, <3>1, <3>2 DEF TradeInv, Seals
      <3>4. Offered(p)' = Offered(p) /\ Offered(x)' = Offered(x)
        BY <2>1
      <3> QED BY <3>2, <3>3, <3>4
    <2>3. DOMAIN agreed' = Char
      BY DEF TradeInv, Seals
    <2> QED BY <2>2, <2>3 DEF Seals
  <1>8. Crafts'
    <2>1. ASSUME NEW x \in Char, craft'[x] # <<>>
          PROVE  offer'[x] = NoOffers /\ ~lock'[x] /\ Crafted(craft'[x], bag'[x])
      <3>1. CASE x = c
        BY <1>1, <1>2, <1>3, <2>1, <3>1
      <3>2. CASE x # c
        BY <1>1, <1>2, <1>3, <2>1, <3>2 DEF TradeInv, Crafts
      <3> QED BY <3>1, <3>2
    <2>2. ASSUME NEW x \in Char, craft'[x] # <<>>
          PROVE  Crafted(craft[x], bag[x])'
      BY <2>1, <2>2 DEF Crafted
    <2> QED BY <1>3, <2>1, <2>2 DEF Crafts
  <1> QED BY <1>2, <1>5, <1>6, <1>7, <1>8 DEF TradeInv

\* The start of a synthesis, in a bag in which nothing is reserved.
LEMMA ReservedBag ==
  ASSUME NEW b \in Bag, \A s \in Slots : b[s].reserve = 0,
         NEW m \in [DOMAIN Ingredients -> 1..BagSize],
         \A i \in DOMAIN m : b[m[i]].kind = Ingredients[i] /\ Uses(m, m[i]) <= b[m[i]].qty,
         NEW r, r = [s \in Slots |-> [b[s] EXCEPT !.reserve = @ + Uses(m, s)]]
  PROVE  r \in Bag /\ Crafted(m, r)
  <1>1. ASSUME NEW s \in Slots
        PROVE  r[s] \in Good \cup {Empty} /\ r[s].reserve = Uses(m, s) /\ r[s].kind = b[s].kind
    <2>1. Uses(m, s) \in Nat /\ (Uses(m, s) > 0 <=> s \in Range(m))
      BY RecipeFacts, UsesFacts
    <2>2. b[s].reserve + Uses(m, s) = Uses(m, s)
      BY <2>1
    <2>3. r[s] = [b[s] EXCEPT !.reserve = Uses(m, s)]
      BY <2>2
    <2>4. CASE b[s] = Empty
      <3>1. s \notin Range(m)
        <4>1. ASSUME s \in Range(m)  PROVE  FALSE
          <5>1. PICK i \in DOMAIN m : m[i] = s
            BY <4>1 DEF Range
          <5>2. b[s].kind \in Kind
            BY <5>1, RecipeFacts
          <5> QED BY <2>4, <5>2, EmptyFacts, ExchangeAssumption
        <4> QED BY <4>1
      <3>2. Uses(m, s) = 0
        BY <2>1, <3>1
      <3>3. [Empty EXCEPT !.reserve = 0] = Empty
        BY DEF Empty
      <3>4. r[s] = Empty
        BY <2>3, <2>4, <3>2, <3>3
      <3> QED BY <2>4, <3>2, <3>4, EmptyFacts
    <2>5. CASE b[s] # Empty
      <3>1. PICK j \in Good : j = b[s]
        BY <2>5, BagFacts
      <3>2. PICK u \in Nat : u = Uses(m, s)
        BY <2>1
      <3>3. u <= j.qty
        <4>1. CASE s \in Range(m)
          <5>1. PICK i \in DOMAIN m : m[i] = s
            BY <4>1 DEF Range
          <5> QED BY <3>1, <3>2, <5>1
        <4>2. CASE s \notin Range(m)
          <5>1. u = 0 /\ j.qty \in Nat
            BY <2>1, <3>2, <4>2, ItemFacts
          <5> QED BY <5>1
        <4> QED BY <4>1, <4>2
      <3>4. PICK i : i = [j EXCEPT !.reserve = u]
        OBVIOUS
      <3>5. i \in Good /\ i.reserve = u /\ i.kind = j.kind
        BY <3>2, <3>3, <3>4, ReserveItem
      <3>6. r[s] = i
        BY <2>3, <3>1, <3>2, <3>4
      <3> QED BY <3>1, <3>2, <3>5, <3>6
    <2> QED BY <2>4, <2>5
  <1>2. r \in [Slots -> Good \cup {Empty}]
    <2>1. r = [s \in Slots |-> r[s]]
      OBVIOUS
    <2> QED BY <1>1, <2>1
  <1>3. ASSUME NEW s \in 1..BagSize  PROVE  s \in Slots /\ r[s].kind # Gil
    <2>1. s \in Slots /\ s # 0
      BY ExchangeAssumption DEF Slots
    <2> QED BY <1>1, <2>1, BagFacts
  <1>4. r \in Bag
    BY <1>2, <1>3 DEF Bag
  <1>5. \A i \in DOMAIN Ingredients : r[m[i]].kind = Ingredients[i]
    BY <1>1, <1>3
  <1> QED BY <1>1, <1>4, <1>5 DEF Crafted

\* Who does not trade offers nothing, and has nothing reserved but ingredients.
LEMMA NothingReserved ==
  ASSUME TradeInv, NEW c \in Char, craft[c] = <<>>, offer[c] = NoOffers, NEW s \in Slots
  PROVE  bag[c][s].reserve = 0
  <1>1. bag[c] \in Bag
    BY DEF TradeInv, Bags
  <1>2. bag[c][s].reserve \in Nat
    BY <1>1, BagFacts
  <1>3. ~(bag[c][s].reserve > 0)
    BY NoOffersFacts DEF TradeInv, Offers
  <1> QED BY <1>2, <1>3

LEMMA SynthesisKeeps ==
  ASSUME Baseline, TradeInv, Refers', NEW c \in Char, Synthesis(c)
  PROVE  TradeInv'
  <1>0. bag[c] \in Bag
    BY DEF TradeInv, Bags
  <1>1. ASSUME NEW s \in 1..BagSize, NEW m \in [DOMAIN Ingredients -> 1..BagSize], StartSynth(c, s, m)
        PROVE  TradeInv'
    <2>1. ~trading[c] /\ offer[c] = NoOffers /\ ~lock[c] /\ craft[c] = <<>>
      BY <1>1 DEF StartSynth, TradeInv, Pairs
    <2>2. PICK b : b = UpdateItem(bag[c], s, 0 - 1)
      OBVIOUS
    <2>3. PICK r : r = [x \in Slots |-> [b[x] EXCEPT !.reserve = @ + Uses(m, x)]]
      OBVIOUS
    <2>4. /\ bag' = [bag EXCEPT ![c] = r] /\ craft' = [craft EXCEPT ![c] = m]
          /\ UNCHANGED <<here, pending, agreed, trading, lock, offer, window>>
          /\ bag[c][s].kind = Crystal
          /\ \A i \in DOMAIN m : /\ bag[c][m[i]].kind = Ingredients[i]
                                 /\ Uses(m, m[i]) <= Unreserved(bag[c][m[i]])
      BY <1>1, <2>2, <2>3 DEF StartSynth, tradeVars
    <2>5. s \in Slots /\ \A i \in DOMAIN m : m[i] \in Slots
      BY ExchangeAssumption DEF Slots
    <2>6. b \in Bag /\ Holds(b, bag[c]) /\ \A x \in Slots : x # s => b[x] = bag[c][x]
      <3>1. 0 - 1 \in Int
        OBVIOUS
      <3>2. \A x \in Slots : x # s => b[x] = bag[c][x]
        BY <1>0, <2>2 DEF UpdateItem, Bag
      <3> QED BY <1>0, <2>2, <2>5, <3>1, <3>2, UpdateBag
    <2>7. \A x \in Slots : b[x].reserve = 0 /\ bag[c][x].reserve = 0
      BY <2>1, <2>6, NothingReserved DEF Holds
    <2>8. ASSUME NEW i \in DOMAIN m
          PROVE  b[m[i]].kind = Ingredients[i] /\ Uses(m, m[i]) <= b[m[i]].qty
      <3>1. m[i] # s
        BY <2>4, RecipeFacts
      <3>2. b[m[i]] = bag[c][m[i]] /\ bag[c][m[i]].reserve = 0 /\ bag[c][m[i]].qty \in Nat
        BY <1>0, <2>5, <2>6, <2>7, <3>1, BagFacts
      <3> QED BY <2>4, <3>2 DEF Unreserved
    <2>9. r \in Bag /\ Crafted(m, r)
      BY <2>3, <2>6, <2>7, <2>8, ReservedBag
    <2>10. m # <<>>
      BY RecipeFacts
    <2> QED BY <2>1, <2>4, <2>9, <2>10, LoneKeeps
  <1>2. ASSUME NEW lost \in SUBSET DOMAIN craft[c], craft[c] # <<>>
        PROVE  /\ Spent(bag[c], craft[c], lost) \in Bag
               /\ \A s \in Slots : Spent(bag[c], craft[c], lost)[s].reserve = 0
               /\ offer[c] = NoOffers /\ ~lock[c]
    BY <1>0, <1>2, SpentBag DEF TradeInv, Crafts
  <1>3. ASSUME NEW lost \in SUBSET DOMAIN craft[c], SynthFails(c, lost)  PROVE  TradeInv'
    <2>1. PICK b : b = Spent(bag[c], craft[c], lost)
      OBVIOUS
    <2>2. /\ bag' = [bag EXCEPT ![c] = b] /\ craft' = [craft EXCEPT ![c] = <<>>] /\ craft[c] # <<>>
          /\ UNCHANGED <<here, pending, agreed, trading, lock, offer, window>>
      BY <1>3, <2>1 DEF SynthFails, tradeVars
    <2>3. b \in Bag /\ (\A s \in Slots : b[s].reserve = 0) /\ offer[c] = NoOffers /\ ~lock[c]
      BY <1>2, <2>1, <2>2
    <2>4. PICK m : m = <<>>
      OBVIOUS
    <2> QED BY <2>2, <2>3, <2>4, LoneKeeps
  <1>4. ASSUME NEW r \in Results, SynthSucceeds(c, r)  PROVE  TradeInv'
    <2>1. PICK u : u = Spent(bag[c], craft[c], DOMAIN craft[c])
      OBVIOUS
    <2>2. PICK b : b = AddItemById(u, r.kind, r.qty)
      OBVIOUS
    <2>3. /\ bag' = [bag EXCEPT ![c] = b] /\ craft' = [craft EXCEPT ![c] = <<>>] /\ craft[c] # <<>>
          /\ UNCHANGED <<here, pending, agreed, trading, lock, offer, window>>
      BY <1>4, <2>1, <2>2 DEF SynthSucceeds, tradeVars
    <2>4. u \in Bag /\ (\A s \in Slots : u[s].reserve = 0) /\ offer[c] = NoOffers /\ ~lock[c]
      BY <1>2, <2>1, <2>3
    <2>5. r.kind \in Kind \cup {Gil} /\ r.qty \in Nat /\ r.qty <= Stack[r.kind]
      <3>1. r \in [kind : Kind, qty : Nat \ {0}] /\ r.qty <= Stack[r.kind]
        BY ExchangeAssumption
      <3> QED BY <3>1
    <2>6. b \in Bag /\ \A s \in Slots : b[s].reserve = 0
      BY <2>2, <2>4, <2>5, AddBag DEF Holds
    <2>7. PICK m : m = <<>>
      OBVIOUS
    <2> QED BY <2>3, <2>4, <2>6, <2>7, LoneKeeps
  <1>5. ASSUME NEW lost \in SUBSET DOMAIN craft[c], LeaveZone(c, lost)  PROVE  TradeInv'
    <2>1. PICK u : u = Spent(bag[c], craft[c], lost)
      OBVIOUS
    <2>2. PICK b : b = Unreserve(u, offer[c])
      OBVIOUS
    <2>3. /\ ~trading[c] /\ bag' = [bag EXCEPT ![c] = b] /\ craft' = [craft EXCEPT ![c] = <<>>]
          /\ pending' = [pending EXCEPT ![c] = None] /\ here' = [here EXCEPT ![c] = FALSE]
          /\ agreed' = [agreed EXCEPT ![c] = <<>>]
      BY <1>5, <2>1, <2>2 DEF LeaveZone, Baseline
    <2>4. offer[c] = NoOffers /\ ~lock[c] /\ ~window[c]
      BY <2>3 DEF TradeInv, Pairs
    <2>5. UNCHANGED <<trading, lock, offer, window>>
      <3>1. /\ trading' = [trading EXCEPT ![c] = FALSE] /\ lock' = [lock EXCEPT ![c] = FALSE]
            /\ window' = [window EXCEPT ![c] = FALSE] /\ offer' = [offer EXCEPT ![c] = NoOffers]
        BY <1>5 DEF LeaveZone
      <3>2. trading' = trading /\ lock' = lock /\ window' = window
        BY <2>3, <2>4, <3>1 DEF TradeInv, Pairs
      <3>3. offer' = offer
        BY <2>4, <3>1 DEF TradeInv, Offers
      <3> QED BY <3>2, <3>3
    <2>6. u \in Bag /\ \A s \in Slots : u[s].reserve = 0
      <3>1. CASE craft[c] = <<>>
        <4>1. u = bag[c]
          BY <1>0, <2>1, <3>1, SpentNothing
        <4> QED BY <1>0, <2>4, <3>1, <4>1, NothingReserved
      <3>2. CASE craft[c] # <<>>
        BY <1>2, <2>1, <3>2
      <3> QED BY <3>1, <3>2
    <2>7. b \in Bag /\ \A s \in Slots : b[s].reserve = 0
      BY <2>2, <2>6, UnreserveBag
    <2>8. PICK m : m = <<>>
      OBVIOUS
    <2> QED BY <2>3, <2>4, <2>5, <2>7, <2>8, LoneKeeps
  <1> QED BY <1>1, <1>3, <1>4, <1>5 DEF Synthesis

\* Who has no third player in his TradePending is in that of no other who trades.
LEMMA NoThird ==
  ASSUME TradeInv, NEW c \in Char, NEW p \in Char, pending[c] = p,
         NEW x \in Char, trading[x], x \notin {c, p}
  PROVE  pending[x] \in Char /\ pending[x] \notin {c, p}
  <1>1. Pairs
    BY DEF TradeInv
  <1>2. pending[x] \in Char /\ trading[pending[x]] /\ pending[pending[x]] = x
    BY <1>1 DEF Pairs
  <1>3. CASE pending[x] = c
    BY <1>2, <1>3
  <1>4. CASE pending[x] = p
    <2>1. pending[p] = x /\ pending[x] = p /\ pending[c] = p
      BY <1>2, <1>4
    <2> QED BY <1>1, <2>1 DEF Pairs
  <1> QED BY <1>2, <1>3, <1>4

\* The end of a trade: the containers of c and of the other are cleaned, after
\* bags have changed hands or without that.
LEMMA CleanKeeps ==
  ASSUME TradeInv, Refers', NEW c \in Char, NEW p \in Char, pending[c] = p,
         NEW cs \in SUBSET {c, p}, trading[c] => c \in cs, trading[p] => p \in cs,
         NEW bags \in [Char -> Bag], \A x \in Char : x \notin cs => bags[x] = bag[x],
         \A x \in cs : bags[x] = bag[x] \/ (craft[x] = <<>> /\ Freed(bags[x], bag[x])),
         Clean(cs, bags), UNCHANGED <<here, craft>>,
         pending' = [pending EXCEPT ![c] = None, ![p] = None],
         window' = [window EXCEPT ![c] = FALSE, ![p] = FALSE]
  PROVE  TradeInv'
  <1>1. /\ bag' = [x \in Char |-> IF x \in cs THEN Unreserve(bags[x], offer[x]) ELSE bags[x]]
        /\ trading' = [x \in Char |-> x \notin cs /\ trading[x]]
        /\ lock' = [x \in Char |-> x \notin cs /\ lock[x]]
        /\ offer' = [x \in Char |-> IF x \in cs THEN NoOffers ELSE offer[x]]
        /\ agreed' = [x \in Char |-> IF x \in cs THEN <<>> ELSE agreed[x]]
    BY DEF Clean
  <1>2. Pairs /\ None \notin Char
    BY ExchangeAssumption DEF TradeInv
  <1>3. /\ \A x \in Char : pending'[x] = IF x \in {c, p} THEN None ELSE pending[x]
        /\ \A x \in Char : x \in {c, p} => ~window'[x]
        /\ \A x \in Char : x \notin {c, p} => window'[x] = window[x]
        /\ window' \in [Char -> BOOLEAN]
    <2>1. DOMAIN pending = Char /\ window \in [Char -> BOOLEAN]
      BY <1>2 DEF Pairs, Refers
    <2>2. \A x \in Char : pending'[x] = IF x \in {c, p} THEN None ELSE pending[x]
      BY <2>1
    <2>3. \A x \in Char : /\ x \in {c, p} => ~window'[x]
                          /\ x \notin {c, p} => window'[x] = window[x]
      BY <2>1
    <2>4. window' \in [Char -> BOOLEAN]
      BY <2>1
    <2> QED BY <2>2, <2>3, <2>4
  <1>4. ASSUME NEW x \in Char, trading'[x]
        PROVE  /\ trading[x] /\ x \notin {c, p} /\ x \notin cs
               /\ pending[x] \in Char /\ pending[x] \notin {c, p} /\ pending[x] \notin cs
    <2>1. trading[x] /\ x \notin {c, p} /\ x \notin cs
      BY <1>1, <1>4
    <2> QED BY <2>1, NoThird
  <1>5. Pairs'
    <2>1. ASSUME NEW x \in Char, trading'[x]
          PROVE  /\ here'[x] /\ window'[x] /\ pending'[x] \in Char
                 /\ trading'[pending'[x]] /\ pending'[pending'[x]] = x
      <3>1. PICK y \in Char : y = pending[x]
        BY <1>4, <2>1
      <3>2. /\ here[x] /\ window[x] /\ trading[y] /\ pending[y] = x
            /\ y \notin {c, p} /\ y \notin cs /\ x \notin {c, p}
        BY <1>2, <1>4, <2>1, <3>1 DEF Pairs
      <3>3. pending'[x] = y /\ pending'[y] = x /\ trading'[y] /\ window'[x] /\ here'[x]
        BY ZenonT(30), <1>1, <1>3, <3>1, <3>2
      <3> QED BY <3>3
    <2>2. ASSUME NEW x \in Char, ~trading'[x]
          PROVE  ~window'[x] /\ ~lock'[x] /\ offer'[x] = NoOffers
      <3>1. x \in cs \/ ~trading[x]
        BY <1>1, <2>2
      <3>2. CASE x \in cs
        BY <1>1, <1>3, <3>2
      <3>3. CASE x \notin cs
        BY <1>1, <1>2, <1>3, <3>1, <3>3 DEF Pairs
      <3> QED BY <3>2, <3>3
    <2>3. ASSUME NEW x \in Char  PROVE  pending'[x] # x
      <3>1. pending[x] # x /\ None # x
        BY <1>2 DEF Pairs
      <3>2. pending'[x] = pending[x] \/ pending'[x] = None
        BY <1>3
      <3> QED BY <3>1, <3>2
    <2>4. \A x, y, z \in Char : pending'[x] = y /\ pending'[y] = x /\ pending'[z] = x => z = y
      BY <1>2, <1>3 DEF Pairs
    <2>5. trading' \in [Char -> BOOLEAN] /\ lock' \in [Char -> BOOLEAN] /\ here' \in [Char -> BOOLEAN]
      BY <1>1, <1>2 DEF Pairs
    <2> QED BY <1>3, <2>1, <2>2, <2>3, <2>4, <2>5 DEF Pairs
  <1>6. ASSUME NEW x \in Char
        PROVE  /\ bag'[x] \in Bag
               /\ x \notin cs => bag'[x] = bag[x]
               /\ craft[x] # <<>> => \A s \in Slots : /\ bag'[x][s].reserve = bag[x][s].reserve
                                                      /\ bag'[x][s].kind = bag[x][s].kind
               /\ craft[x] = <<>> /\ x \in cs => \A s \in Slots : bag'[x][s].reserve = 0
    <2>1. CASE x \notin cs
      BY <1>1, <2>1
    <2>2. CASE x \in cs
      <3>1. PICK b \in Bag : b = bags[x]
        OBVIOUS
      <3>2. PICK o : o = offer[x]
        OBVIOUS
      <3>3. bag'[x] = Unreserve(b, o)
        BY <1>1, <2>2, <3>1, <3>2
      <3>4. /\ Unreserve(b, o) \in Bag
            /\ \A s \in Slots : /\ Unreserve(b, o)[s].kind = b[s].kind
                                /\ Unreserve(b, o)[s].reserve = IF s \in Range(o) THEN 0 ELSE b[s].reserve
        BY UnreserveBag
      <3>5. CASE craft[x] # <<>>
        <4>1. b = bag[x] /\ o = NoOffers
          BY <2>2, <3>1, <3>2, <3>5 DEF TradeInv, Crafts
        <4> QED BY <2>2, <3>3, <3>4, <3>5, <4>1, NoOffersFacts
      <3>6. CASE craft[x] = <<>>
        <4>1. Freed(b, bag[x])
          BY <2>2, <3>1 DEF Freed
        <4>2. ASSUME NEW s \in Slots  PROVE  s \in Range(o) \/ bag[x][s].reserve = 0
          <5>1. bag[x][s].reserve > 0 <=> s \in Range(o)
            BY <3>2, <3>6 DEF TradeInv, Offers
          <5>2. bag[x][s].reserve \in Nat
            BY BagFacts DEF TradeInv, Bags
          <5> QED BY <5>1, <5>2
        <4> QED BY <2>2, <3>3, <3>4, <3>6, <4>1, <4>2 DEF Freed
      <3> QED BY <3>5, <3>6
    <2> QED BY <2>1, <2>2
  <1>7. Bags'
    <2>1. bag' = [x \in Char |-> bag'[x]]
      BY <1>1
    <2> QED BY <1>6, <2>1 DEF Bags
  <1>8. Offers'
    <2>1. offer' \in [Char -> [1..TradeSlots -> Slots \cup {NoOffer}]]
      BY <1>1, NoOffersFacts DEF TradeInv, Offers
    <2>2. ASSUME NEW x \in Char, NEW t \in 1..TradeSlots, NEW u \in 1..TradeSlots,
                 offer'[x][t] = offer'[x][u], offer'[x][t] # NoOffer
          PROVE  t = u
      BY <1>1, <2>2, NoOffersFacts DEF TradeInv, Offers
    <2>3. ASSUME NEW x \in Char, craft'[x] = <<>>, NEW s \in Slots
          PROVE  bag'[x][s].reserve > 0 <=> s \in Range(offer'[x])
      <3>1. craft[x] = <<>>
        BY <2>3
      <3>2. CASE x \in cs
        <4>1. bag'[x][s].reserve = 0 /\ offer'[x] = NoOffers
          BY <1>1, <1>6, <3>1, <3>2
        <4> QED BY <4>1, NoOffersFacts
      <3>3. CASE x \notin cs
        <4>1. bag'[x] = bag[x] /\ offer'[x] = offer[x]
          BY <1>1, <1>6, <3>3
        <4> QED BY <3>1, <4>1 DEF TradeInv, Offers
      <3> QED BY <3>2, <3>3
    <2> QED BY <2>1, <2>2, <2>3 DEF Offers
  <1>9. Seals'
    <2>1. ASSUME NEW x \in Char, NEW y \in Char, lock'[x], pending'[x] = y
          PROVE  (agreed[x] = <<Offered(x), Offered(y)>>)'
      <3>1. trading'[x] /\ lock[x]
        BY <1>1, <1>5, <2>1 DEF Pairs
      <3>2. y = pending[x]
        BY <1>3, <1>4, <2>1, <3>1
      <3>3. /\ x \notin cs /\ x \notin {c, p} /\ y \notin cs
            /\ agreed[x] = <<Offered(x), Offered(y)>>
        BY <1>4, <3>1, <3>2 DEF TradeInv, Seals
      <3>4. offer'[x] = offer[x] /\ offer'[y] = offer[y] /\ agreed'[x] = agreed[x]
        BY <1>1, <3>3
      <3>5. bag'[x] = bag[x] /\ bag'[y] = bag[y]
        BY <1>6, <3>3
      <3>6. Offered(x)' = Offered(x) /\ Offered(y)' = Offered(y)
        BY <3>4, <3>5 DEF Offered
      <3> QED BY <3>3, <3>4, <3>6
    <2> QED BY <1>1, <2>1 DEF Seals
  <1>10. Crafts'
    <2>1. ASSUME NEW x \in Char, craft'[x] # <<>>
          PROVE  offer'[x] = NoOffers /\ ~lock'[x] /\ Crafted(craft[x], bag[x])'
      <3>1. PICK m : m = craft[x]
        OBVIOUS
      <3>2. /\ offer[x] = NoOffers /\ ~lock[x] /\ m \in [DOMAIN Ingredients -> 1..BagSize]
            /\ \A s \in Slots : bag[x][s].reserve = Uses(m, s)
            /\ \A i \in DOMAIN Ingredients : bag[x][m[i]].kind = Ingredients[i]
        BY <2>1, <3>1 DEF TradeInv, Crafts, Crafted
      <3>3. \A s \in Slots : /\ bag'[x][s].reserve = bag[x][s].reserve
                             /\ bag'[x][s].kind = bag[x][s].kind
        BY <1>6, <2>1
      <3>4. \A i \in DOMAIN Ingredients : m[i] \in Slots
        BY <3>2, ExchangeAssumption DEF Slots
      <3>5. /\ \A s \in Slots : bag'[x][s].reserve = Uses(m, s)
            /\ \A i \in DOMAIN Ingredients : bag'[x][m[i]].kind = Ingredients[i]
        BY <3>2, <3>3, <3>4
      <3>6. offer'[x] = NoOffers /\ ~lock'[x]
        BY <1>1, <3>2
      <3>7. Crafted(m, bag'[x])
        BY <3>2, <3>5 DEF Crafted
      <3>8. craft'[x] = m
        BY <3>1
      <3> QED BY <3>6, <3>7, <3>8 DEF Crafted
    <2> QED BY <2>1 DEF Crafts, TradeInv
  <1> QED BY <1>5, <1>7, <1>8, <1>9, <1>10 DEF TradeInv

\* Only TradePending changes, and not that of players who trade.
LEMMA PendingKeeps ==
  ASSUME TradeInv, Refers',
         UNCHANGED <<here, bag, trading, lock, offer, window, agreed, craft>>,
         \A x \in Char : trading[x] => pending'[x] = pending[x],
         \A x \in Char : pending'[x] # x,
         \A x, y, z \in Char : pending'[x] = y /\ pending'[y] = x /\ pending'[z] = x => z = y
  PROVE  TradeInv'
  <1>1. Pairs /\ UNCHANGED <<here, bag, trading, lock, offer, window, agreed, craft>>
    BY DEF TradeInv
  <1>2. ASSUME NEW x \in Char, trading[x]
        PROVE  /\ here[x] /\ window[x] /\ pending'[x] \in Char
               /\ trading[pending'[x]] /\ pending'[pending'[x]] = x
    BY <1>1, <1>2 DEF Pairs
  <1>3. Pairs'
    BY <1>1, <1>2 DEF Pairs
  <1>4. Bags' /\ Offers' /\ Crafts'
    BY <1>1 DEF TradeInv, Bags, Offers, Crafts, Crafted
  <1>5. Seals'
    <2>1. ASSUME NEW x \in Char, NEW y \in Char, lock'[x], pending'[x] = y
          PROVE  (agreed[x] = <<Offered(x), Offered(y)>>)'
      <3>1. trading[x] /\ lock[x]
        BY <1>1, <2>1 DEF Pairs
      <3>2. agreed[x] = <<Offered(x), Offered(y)>>
        BY <2>1, <3>1 DEF TradeInv, Seals
      <3>3. Offered(x)' = Offered(x) /\ Offered(y)' = Offered(y)
        BY <1>1 DEF Offered
      <3> QED BY <1>1, <3>2, <3>3
    <2> QED BY <1>1, <2>1 DEF TradeInv, Seals
  <1> QED BY <1>3, <1>4, <1>5 DEF TradeInv

LEMMA RequestKeeps ==
  ASSUME Baseline, TradeInv, Refers', NEW c \in Char, NEW p \in Char, TradeRequest(c, p), UNCHANGED craft
  PROVE  TradeInv'
  <1>1. /\ pending' = [pending EXCEPT ![c] = p, ![p] = c] /\ c # p /\ ~window[c] /\ ~trading[p]
        /\ UNCHANGED <<here, bag, trading, lock, offer, window, agreed, craft>>
    BY DEF TradeRequest
  <1>2. Pairs
    BY DEF TradeInv
  <1>3. \A x \in {c, p}, y \in Char : pending[x] = y \/ pending[y] = x => y \in {c, p}
    BY DEF TradeRequest, Baseline
  <1>4. /\ pending'[c] = p /\ pending'[p] = c
        /\ \A x \in Char : x \notin {c, p} => pending'[x] = pending[x] /\ pending[x] \notin {c, p}
    <2>1. DOMAIN pending = Char
      BY <1>2 DEF Pairs, Refers
    <2>2. pending'[c] = p /\ pending'[p] = c /\ \A x \in Char : x \notin {c, p} => pending'[x] = pending[x]
      BY <1>1, <2>1
    <2>3. \A x \in Char : x \notin {c, p} => pending[x] \notin {c, p}
      BY <1>3
    <2> QED BY <2>2, <2>3
  <1>5. ~trading[c]
    BY <1>1, <1>2 DEF Pairs
  <1>6. \A x \in Char : trading[x] => pending'[x] = pending[x]
    BY <1>1, <1>4, <1>5
  <1>7. \A x \in Char : pending'[x] # x
    BY ZenonT(30), <1>1, <1>2, <1>4 DEF Pairs
  <1>8. ASSUME NEW x \in Char, NEW y \in Char, NEW z \in Char,
               pending'[x] = y, pending'[y] = x, pending'[z] = x
        PROVE  z = y
    <2>1. CASE x \in {c, p}
      <3>1. y \in {c, p} /\ z \in {c, p}
        BY <1>4, <1>8, <2>1
      <3> QED BY <1>7, <1>8, <2>1, <3>1
    <2>2. CASE x \notin {c, p}
      <3>1. y \notin {c, p} /\ z \notin {c, p}
        BY <1>4, <1>8, <2>2
      <3>2. pending[x] = y /\ pending[y] = x /\ pending[z] = x
        BY <1>4, <1>8, <2>2, <3>1
      <3> QED BY <1>2, <3>2 DEF Pairs
    <2> QED BY <2>1, <2>2
  <1>9. \A x, y, z \in Char : pending'[x] = y /\ pending'[y] = x /\ pending'[z] = x => z = y
    BY <1>8
  <1>10. UNCHANGED <<here, bag, trading, lock, offer, window, agreed, craft>>
    BY <1>1
  <1> QED BY <1>6, <1>7, <1>9, <1>10, PendingKeeps

LEMMA BeginKeeps ==
  ASSUME TradeInv, Refers', NEW c \in Char, NEW near \in BOOLEAN, TradeBegin(c, near), UNCHANGED craft
  PROVE  TradeInv'
  <1>1. Pairs
    BY DEF TradeInv
  <1>2. PICK p \in Char : p = pending[c] /\ here[p] /\ pending[p] = c
    BY <1>1 DEF TradeBegin, Present, Mutual, Pairs, Refers
  <1>3. here[c] /\ ~window[c] /\ UNCHANGED <<here, bag, lock, offer, agreed, craft>>
    BY DEF TradeBegin
  <1>4. ~trading[c] /\ ~trading[p]
    <2>1. ~trading[c]
      BY <1>1, <1>3 DEF Pairs
    <2>2. trading[p] => trading[pending[p]]
      BY <1>1 DEF Pairs
    <2> QED BY <1>2, <2>1, <2>2
  <1>5. CASE /\ trading' = [trading EXCEPT ![c] = TRUE, ![p] = TRUE]
             /\ window' = [window EXCEPT ![c] = TRUE, ![p] = TRUE] /\ UNCHANGED pending
    <2>1. /\ trading' \in [Char -> BOOLEAN] /\ window' \in [Char -> BOOLEAN]
          /\ \A x \in Char : trading'[x] = (x \in {c, p} \/ trading[x])
          /\ \A x \in Char : window'[x] = (x \in {c, p} \/ window[x])
      <3>1. trading \in [Char -> BOOLEAN] /\ window \in [Char -> BOOLEAN]
        BY <1>1 DEF Pairs
      <3>2. trading' \in [Char -> BOOLEAN] /\ window' \in [Char -> BOOLEAN]
        BY <1>5, <3>1
      <3>3. ASSUME NEW x \in Char
            PROVE  trading'[x] = (x \in {c, p} \/ trading[x]) /\ window'[x] = (x \in {c, p} \/ window[x])
        BY <1>5, <3>1
      <3> QED BY <3>2, <3>3
    <2>2. ASSUME NEW x \in Char, trading'[x]
          PROVE  /\ here[x] /\ window'[x] /\ pending[x] \in Char
                 /\ trading'[pending[x]] /\ pending[pending[x]] = x
      <3>1. CASE x \in {c, p}
        BY <1>2, <1>3, <2>1, <3>1
      <3>2. CASE x \notin {c, p}
        <4>1. trading[x]
          BY <2>1, <2>2, <3>2
        <4> QED BY <1>1, <2>1, <4>1 DEF Pairs
      <3> QED BY <3>1, <3>2
    <2>3. Pairs'
      <3>1. \A x \in Char : ~trading'[x] => ~window'[x] /\ ~lock'[x] /\ offer'[x] = NoOffers
        BY <1>1, <1>3, <2>1 DEF Pairs
      <3>2. /\ \A x \in Char : pending'[x] # x
            /\ \A x, y, z \in Char : pending'[x] = y /\ pending'[y] = x /\ pending'[z] = x => z = y
        BY <1>1, <1>5 DEF Pairs
      <3>3. ASSUME NEW x \in Char, trading'[x]
            PROVE  /\ here'[x] /\ window'[x] /\ pending'[x] \in Char
                   /\ trading'[pending'[x]] /\ pending'[pending'[x]] = x
        BY <1>3, <1>5, <2>2, <3>3
      <3>4. here' \in [Char -> BOOLEAN] /\ lock' \in [Char -> BOOLEAN]
        BY <1>1, <1>3 DEF Pairs
      <3> QED BY <2>1, <3>1, <3>2, <3>3, <3>4 DEF Pairs
    <2>4. Bags' /\ Offers' /\ Crafts'
      BY <1>3 DEF TradeInv, Bags, Offers, Crafts, Crafted
    <2>5. Seals'
      <3>1. \A x \in Char : Offered(x)' = Offered(x)
        BY <1>3 DEF Offered
      <3>2. UNCHANGED <<agreed, lock, pending>>
        BY <1>3, <1>5
      <3>3. ASSUME NEW x \in Char, NEW y \in Char, lock'[x], pending'[x] = y
            PROVE  (agreed[x] = <<Offered(x), Offered(y)>>)'
        BY <3>1, <3>2, <3>3 DEF TradeInv, Seals
      <3> QED BY <3>2, <3>3 DEF TradeInv, Seals
    <2> QED BY <2>3, <2>4, <2>5 DEF TradeInv
  <1>6. CASE pending' = [pending EXCEPT ![c] = None, ![p] = None] /\ UNCHANGED <<trading, window>>
    <2>1. \A x \in Char : pending'[x] = IF x \in {c, p} THEN None ELSE pending[x]
      <3>1. DOMAIN pending = Char
        BY <1>1 DEF Pairs, Refers
      <3> QED BY <1>6, <3>1
    <2>2. None \notin Char
      BY ExchangeAssumption
    <2>3. \A x \in Char : trading[x] => pending'[x] = pending[x]
      BY <1>4, <2>1
    <2>4. \A x \in Char : pending'[x] # x
      BY <1>1, <2>1, <2>2 DEF Pairs
    <2>5. \A x, y, z \in Char : pending'[x] = y /\ pending'[y] = x /\ pending'[z] = x => z = y
      BY <1>1, <2>1, <2>2 DEF Pairs
    <2> QED BY <1>3, <1>6, <2>3, <2>4, <2>5, PendingKeeps
  <1> QED BY <1>2, <1>5, <1>6 DEF TradeBegin

LEMMA CancelKeeps ==
  ASSUME TradeInv, Refers', NEW c \in Char, TradeCancel(c), UNCHANGED craft
  PROVE  TradeInv'
  <1>1. Pairs
    BY DEF TradeInv
  <1>2. CASE Present(c)
    <2>1. PICK p \in Char : p = pending[c]
      BY <1>1, <1>2 DEF Present, Pairs, Refers
    <2>2. PICK cs : cs = Cleaned(c, p)
      OBVIOUS
    <2>3. /\ Clean(cs, bag) /\ UNCHANGED <<here, craft>>
          /\ pending' = [pending EXCEPT ![c] = None, ![p] = None]
          /\ window' = [window EXCEPT ![c] = FALSE, ![p] = FALSE]
      BY <1>2, <2>1, <2>2 DEF TradeCancel
    <2>4. cs \in SUBSET {c, p} /\ (trading[c] => c \in cs)
      BY <2>2 DEF Cleaned
    <2>5. trading[p] => p \in cs
      <3>1. ASSUME trading[p]  PROVE  pending[p] = c
        <4>1. pending[p] \in Char /\ pending[pending[p]] = p
          BY <1>1, <3>1 DEF Pairs
        <4> QED BY <1>1, <2>1, <4>1 DEF Pairs
      <3> QED BY <2>1, <2>2, <3>1 DEF Cleaned, Mutual
    <2>6. bag \in [Char -> Bag]
      BY DEF TradeInv, Bags
    <2> QED BY <2>1, <2>3, <2>4, <2>5, <2>6, CleanKeeps
  <1>3. CASE ~Present(c)
    <2>1. window[c]
      BY <1>3 DEF TradeCancel
    <2>2. trading[c]
      BY <1>1, <2>1 DEF Pairs
    <2>3. pending[c] \in Char /\ trading[pending[c]] /\ here[pending[c]]
      BY <1>1, <2>2 DEF Pairs
    <2> QED BY <1>3, <2>3, ExchangeAssumption DEF Present
  <1> QED BY <1>2, <1>3

\* Some of an item is reserved, or none any more.
LEMMA ReserveInBag ==
  ASSUME NEW b \in Bag, NEW s \in Slots, b[s] # Empty, NEW r \in Nat, r <= b[s].qty
  PROVE  LET u == [b EXCEPT ![s].reserve = r] IN
         /\ u \in Bag
         /\ \A x \in Slots : /\ u[x].kind = b[x].kind /\ u[x].qty = b[x].qty
                             /\ u[x].reserve = IF x = s THEN r ELSE b[x].reserve
                             /\ u[x] = Empty => b[x] = Empty
  <1> DEFINE u == [b EXCEPT ![s].reserve = r]
  <1>1. PICK j \in Good : j = b[s]
    BY BagFacts
  <1>2. PICK i : i = [j EXCEPT !.reserve = r]
    OBVIOUS
  <1>3. i \in Good /\ i # Empty /\ i.reserve = r /\ i.kind = j.kind /\ i.qty = j.qty
    BY <1>1, <1>2, ReserveItem
  <1>4. u = [b EXCEPT ![s] = i]
    BY <1>1, <1>2
  <1>5. /\ [b EXCEPT ![s] = i] \in Bag /\ [b EXCEPT ![s] = i][s] = i
        /\ \A x \in Slots : x # s => [b EXCEPT ![s] = i][x] = b[x]
    <2>1. i.kind = b[s].kind
      BY <1>1, <1>3
    <2> QED BY <1>3, <2>1, SameKindBag
  <1> HIDE DEF u
  <1>6. u \in Bag /\ u[s] = i /\ \A x \in Slots : x # s => u[x] = b[x]
    BY <1>4, <1>5
  <1> QED BY <1>1, <1>3, <1>6 DEF u

\* The bag and the offers of c after a change of its offer: what the slot of the
\* window held before is free, what is put there is reserved.
Changed(c, t, s, q, old, fresh, b, o) ==
  /\ old = offer[c][t]
  /\ fresh = IF old = NoOffer THEN bag[c] ELSE [bag[c] EXCEPT ![old].reserve = 0]
  /\ IF q = 0 THEN s = old ELSE s # old /\ s \notin Range(offer[c])
  /\ bag[c][s] # Empty /\ q + fresh[s].reserve <= fresh[s].qty
  /\ b = [fresh EXCEPT ![s].reserve = IF q > 0 THEN @ + q ELSE 0]
  /\ o = [offer[c] EXCEPT ![t] = IF q > 0 THEN s ELSE NoOffer]

LEMMA OfferBag ==
  ASSUME TradeInv, NEW c \in Char, craft[c] = <<>>,
         NEW t \in 1..TradeSlots, NEW s \in Slots, NEW q \in Nat,
         NEW old, NEW fresh, NEW b, NEW o, Changed(c, t, s, q, old, fresh, b, o)
  PROVE  /\ b \in Bag /\ o \in [1..TradeSlots -> Slots \cup {NoOffer}]
         /\ \A v, w \in 1..TradeSlots : o[v] = o[w] /\ o[v] # NoOffer => v = w
         /\ \A x \in Slots : b[x].reserve > 0 <=> x \in Range(o)
  <1>0. /\ old = offer[c][t]
        /\ fresh = IF old = NoOffer THEN bag[c] ELSE [bag[c] EXCEPT ![old].reserve = 0]
        /\ IF q = 0 THEN s = old ELSE s # old /\ s \notin Range(offer[c])
        /\ bag[c][s] # Empty /\ q + fresh[s].reserve <= fresh[s].qty
        /\ b = [fresh EXCEPT ![s].reserve = IF q > 0 THEN @ + q ELSE 0]
        /\ o = [offer[c] EXCEPT ![t] = IF q > 0 THEN s ELSE NoOffer]
    BY DEF Changed
  <1>1. /\ bag[c] \in Bag /\ offer[c] \in [1..TradeSlots -> Slots \cup {NoOffer}]
        /\ \A v, w \in 1..TradeSlots : offer[c][v] = offer[c][w] /\ offer[c][v] # NoOffer => v = w
        /\ \A x \in Slots : bag[c][x].reserve > 0 <=> x \in Range(offer[c])
    BY DEF TradeInv, Bags, Offers
  <1>2. \A x \in Slots : bag[c][x].reserve \in Nat /\ (bag[c][x].reserve = 0 <=> x \notin Range(offer[c]))
    BY <1>1, BagFacts
  <1>3. old \in Slots \cup {NoOffer} /\ (old # NoOffer => old \in Range(offer[c]))
    BY <1>0, <1>1 DEF Range
  <1>4. /\ fresh \in Bag
        /\ \A x \in Slots : /\ fresh[x].reserve = IF x = old THEN 0 ELSE bag[c][x].reserve
                            /\ fresh[x] = Empty => bag[c][x] = Empty
    <2>1. CASE old = NoOffer
      BY <1>0, <1>1, <2>1, NoOffersFacts
    <2>2. CASE old # NoOffer
      <3>1. PICK a \in Bag : a = bag[c]
        BY <1>1
      <3>2. old \in Slots /\ a[old].reserve # 0 /\ a[old] # Empty
        BY <1>2, <1>3, <2>2, <3>1, EmptyFacts
      <3>3. 0 \in Nat /\ 0 <= a[old].qty
        BY <3>2, BagFacts
      <3>4. fresh = [a EXCEPT ![old].reserve = 0]
        BY <1>0, <2>2, <3>1
      <3>5. /\ [a EXCEPT ![old].reserve = 0] \in Bag
            /\ \A x \in Slots : /\ [a EXCEPT ![old].reserve = 0][x].reserve = IF x = old THEN 0 ELSE a[x].reserve
                                /\ [a EXCEPT ![old].reserve = 0][x] = Empty => a[x] = Empty
        BY <3>2, <3>3, ReserveInBag
      <3> QED BY <3>1, <3>4, <3>5
    <2> QED BY <2>1, <2>2
  <1>5. fresh[s] # Empty /\ fresh[s].reserve = 0 /\ fresh[s].qty \in Nat
    BY <1>0, <1>2, <1>4, BagFacts
  <1>6. b \in Bag /\ \A x \in Slots : b[x].reserve = IF x = s THEN q ELSE fresh[x].reserve
    <2>1. PICK a \in Bag : a = fresh
      BY <1>4
    <2>2. b = [a EXCEPT ![s].reserve = q]
      <3>1. (IF q > 0 THEN fresh[s].reserve + q ELSE 0) = q
        BY <1>5
      <3> QED BY <1>0, <2>1, <3>1
    <2>3. q <= a[s].qty /\ a[s] # Empty
      <3>1. q + fresh[s].reserve <= fresh[s].qty
        BY <1>0
      <3>2. a[s].reserve = 0 /\ q + a[s].reserve <= a[s].qty /\ a[s] # Empty
        BY <1>5, <2>1, <3>1
      <3> QED BY <3>2
    <2>4. /\ [a EXCEPT ![s].reserve = q] \in Bag
          /\ \A x \in Slots : /\ [a EXCEPT ![s].reserve = q][x].kind = a[x].kind
                              /\ [a EXCEPT ![s].reserve = q][x].qty = a[x].qty
                              /\ [a EXCEPT ![s].reserve = q][x].reserve = IF x = s THEN q ELSE a[x].reserve
                              /\ [a EXCEPT ![s].reserve = q][x] = Empty => a[x] = Empty
      BY <2>3, ReserveInBag
    <2> QED BY <2>1, <2>2, <2>4
  <1>7. o \in [1..TradeSlots -> Slots \cup {NoOffer}]
    BY <1>0, <1>1
  <1>8. /\ o[t] = IF q > 0 THEN s ELSE NoOffer
        /\ \A v \in 1..TradeSlots : v # t => o[v] = offer[c][v]
    BY <1>0, <1>1
  <1>9. \A v \in 1..TradeSlots : offer[c][v] \in Range(offer[c])
    BY <1>1 DEF Range
  <1>10. ASSUME NEW v \in 1..TradeSlots, NEW w \in 1..TradeSlots, o[v] = o[w], o[v] # NoOffer
         PROVE  v = w
    BY <1>0, <1>1, <1>8, <1>9, <1>10
  <1>11. ASSUME NEW x \in Slots  PROVE  b[x].reserve > 0 <=> x \in Range(o)
    <2>1. x # NoOffer
      BY NoOffersFacts
    <2>2. x \in Range(o) <=> \E v \in 1..TradeSlots : o[v] = x
      BY <1>7 DEF Range
    <2>3. x \in Range(offer[c]) <=> \E v \in 1..TradeSlots : offer[c][v] = x
      BY <1>1 DEF Range
    <2>4. CASE x = s
      <3>1. CASE q > 0
        BY <1>6, <1>8, <2>2, <2>4, <3>1
      <3>2. CASE q = 0
        <4>1. offer[c][t] = x
          BY <1>0, <2>4, <3>2
        <4>2. ASSUME NEW v \in 1..TradeSlots, o[v] = x  PROVE  FALSE
          BY <1>1, <1>8, <2>1, <3>2, <4>1, <4>2
        <4>3. b[x].reserve = 0
          BY <1>6, <2>4, <3>2
        <4> QED BY <2>2, <4>2, <4>3
      <3> QED BY <3>1, <3>2
    <2>5. CASE x # s
      <3>1. CASE x = old
        <4>1. ASSUME NEW v \in 1..TradeSlots, o[v] = x  PROVE  FALSE
          BY <1>0, <1>1, <1>8, <2>1, <2>5, <3>1, <4>1
        <4>2. b[x].reserve = 0
          BY <1>4, <1>6, <2>5, <3>1
        <4> QED BY <2>2, <4>1, <4>2
      <3>2. CASE x # old
        <4>1. b[x].reserve = bag[c][x].reserve
          BY <1>4, <1>6, <2>5, <3>2
        <4>2. (\E v \in 1..TradeSlots : o[v] = x) <=> \E v \in 1..TradeSlots : offer[c][v] = x
          BY <1>0, <1>8, <2>1, <2>5, <3>2
        <4> QED BY <1>1, <2>2, <2>3, <4>1, <4>2
      <3> QED BY <3>1, <3>2
    <2> QED BY <2>4, <2>5
  <1> QED BY <1>6, <1>7, <1>10, <1>11

LEMMA OfferKeeps ==
  ASSUME Baseline, TradeInv, Refers', NEW c \in Char, craft[c] = <<>>, UNCHANGED craft,
         NEW t \in 1..TradeSlots, NEW s \in Slots, NEW q \in Nat, TradeOffer(c, t, s, q)
  PROVE  TradeInv'
  <1>1. Pairs
    BY DEF TradeInv
  <1>2. trading[c]
    BY <1>1 DEF TradeOffer, Pairs
  <1>3. PICK p \in Char : p = pending[c]
    BY <1>1, <1>2 DEF Pairs
  <1>4. PICK old : old = offer[c][t]
    OBVIOUS
  <1>5. PICK fresh : fresh = IF old = NoOffer THEN bag[c] ELSE [bag[c] EXCEPT ![old].reserve = 0]
    OBVIOUS
  <1>6. ~lock[c]
    BY DEF TradeOffer, Baseline
  <1>7. PICK b : b = [fresh EXCEPT ![s].reserve = IF q > 0 THEN @ + q ELSE 0]
    OBVIOUS
  <1>8. PICK o : o = [offer[c] EXCEPT ![t] = IF q > 0 THEN s ELSE NoOffer]
    OBVIOUS
  <1>9. /\ bag' = [bag EXCEPT ![c] = b] /\ lock' = [lock EXCEPT ![c] = FALSE, ![p] = FALSE]
        /\ agreed' = [x \in Char |-> IF lock'[x] THEN agreed[x] ELSE <<>>]
        /\ UNCHANGED <<here, pending, trading, window, craft>>
        /\ bag[c][s] # Empty /\ q + fresh[s].reserve <= fresh[s].qty
        /\ IF q = 0 THEN s = old ELSE s # old /\ s \notin Range(offer[c])
    BY SMTT(60), <1>3, <1>4, <1>5, <1>7 DEF TradeOffer, Unlocked
  <1>10. offer' = [offer EXCEPT ![c] = o]
    <2>1. offer' = [offer EXCEPT ![c][t] = IF q > 0 THEN s ELSE NoOffer]
      BY <1>6 DEF TradeOffer
    <2> QED BY <1>8, <2>1
  <1>11. /\ b \in Bag /\ o \in [1..TradeSlots -> Slots \cup {NoOffer}]
         /\ \A v, w \in 1..TradeSlots : o[v] = o[w] /\ o[v] # NoOffer => v = w
         /\ \A x \in Slots : b[x].reserve > 0 <=> x \in Range(o)
    <2>1. Changed(c, t, s, q, old, fresh, b, o)
      BY <1>4, <1>5, <1>7, <1>8, <1>9 DEF Changed
    <2> QED BY <2>1, OfferBag
  <1>12. /\ bag' \in [Char -> Bag] /\ bag'[c] = b /\ \A x \in Char : x # c => bag'[x] = bag[x]
         /\ offer' \in [Char -> [1..TradeSlots -> Slots \cup {NoOffer}]]
         /\ offer'[c] = o /\ \A x \in Char : x # c => offer'[x] = offer[x]
    BY <1>9, <1>10, <1>11 DEF TradeInv, Bags, Offers
  <1>13. lock' \in [Char -> BOOLEAN] /\ \A x \in Char : lock'[x] => lock[x] /\ x \notin {c, p}
    BY ZenonT(30), <1>1, <1>9 DEF Pairs
  <1>14. Pairs'
    <2>1. \A x \in Char : ~trading'[x] => ~window'[x] /\ ~lock'[x] /\ offer'[x] = NoOffers
      BY <1>1, <1>2, <1>9, <1>12, <1>13 DEF Pairs
    <2>2. /\ trading' \in [Char -> BOOLEAN] /\ window' \in [Char -> BOOLEAN] /\ here' \in [Char -> BOOLEAN]
          /\ \A x \in Char : pending'[x] # x
          /\ \A x, y, z \in Char : pending'[x] = y /\ pending'[y] = x /\ pending'[z] = x => z = y
          /\ \A x \in Char : trading'[x] =>
               /\ here'[x] /\ window'[x] /\ pending'[x] \in Char
               /\ trading'[pending'[x]] /\ pending'[pending'[x]] = x
      <3>1. UNCHANGED <<here, pending, trading, window>>
        BY <1>9
      <3> QED BY <1>1, <3>1 DEF Pairs
    <2> QED BY <1>13, <2>1, <2>2 DEF Pairs
  <1>15. Offers'
    <2>1. ASSUME NEW x \in Char, NEW v \in 1..TradeSlots, NEW w \in 1..TradeSlots,
                 offer'[x][v] = offer'[x][w], offer'[x][v] # NoOffer
          PROVE  v = w
      <3>1. CASE x = c
        BY <1>11, <1>12, <2>1, <3>1
      <3>2. CASE x # c
        BY <1>12, <2>1, <3>2 DEF TradeInv, Offers
      <3> QED BY <3>1, <3>2
    <2>2. ASSUME NEW x \in Char, craft'[x] = <<>>, NEW y \in Slots
          PROVE  bag'[x][y].reserve > 0 <=> y \in Range(offer'[x])
      <3>1. CASE x = c
        BY <1>11, <1>12, <3>1
      <3>2. CASE x # c
        BY <1>9, <1>12, <2>2, <3>2 DEF TradeInv, Offers
      <3> QED BY <3>1, <3>2
    <2> QED BY <1>12, <2>1, <2>2 DEF Offers
  <1>16. Seals'
    <2>1. ASSUME NEW x \in Char, NEW y \in Char, lock'[x], pending'[x] = y
          PROVE  (agreed[x] = <<Offered(x), Offered(y)>>)'
      <3>1. lock[x] /\ x \notin {c, p} /\ pending[x] = y
        BY <1>9, <1>13, <2>1
      <3>2. trading[x]
        BY <1>1, <3>1 DEF Pairs
      <3>3. y \notin {c, p}
        BY <1>3, <3>1, <3>2, NoThird
      <3>4. agreed'[x] = agreed[x] /\ agreed[x] = <<Offered(x), Offered(y)>>
        BY <1>9, <2>1, <3>1 DEF TradeInv, Seals
      <3>5. bag'[x] = bag[x] /\ offer'[x] = offer[x] /\ bag'[y] = bag[y] /\ offer'[y] = offer[y]
        BY <1>12, <3>1, <3>3
      <3>6. Offered(x)' = Offered(x) /\ Offered(y)' = Offered(y)
        BY <3>5 DEF Offered
      <3> QED BY <3>4, <3>6
    <2> QED BY <1>9, <2>1 DEF Seals
  <1>17. Crafts'
    <2>1. ASSUME NEW x \in Char, craft'[x] # <<>>
          PROVE  offer'[x] = NoOffers /\ ~lock'[x] /\ Crafted(craft[x], bag[x])'
      <3>1. x # c /\ craft[x] # <<>> /\ craft'[x] = craft[x]
        BY <1>9, <2>1
      <3>2. offer'[x] = offer[x] /\ bag'[x] = bag[x]
        BY <1>12, <3>1
      <3>3. offer[x] = NoOffers /\ ~lock[x] /\ Crafted(craft[x], bag[x])
        BY <3>1 DEF TradeInv, Crafts
      <3>4. Crafted(craft'[x], bag'[x])
        BY <3>1, <3>2, <3>3
      <3> QED BY <1>13, <3>2, <3>3, <3>4 DEF Crafted
    <2> QED BY <1>9, <2>1 DEF Crafts, TradeInv
  <1>18. Bags'
    BY <1>12 DEF Bags
  <1> QED BY <1>14, <1>15, <1>16, <1>17, <1>18 DEF TradeInv

\* What both give in an exchange: bags, in which nothing is reserved that was not.
LEMMA ExchangedBags ==
  ASSUME TradeInv, NEW c \in Char, NEW p \in Char, c # p
  PROVE  /\ Exchanged(c, p) \in [Char -> Bag]
         /\ \A x \in Char : x \notin {c, p} => Exchanged(c, p)[x] = bag[x]
         /\ Freed(Exchanged(c, p)[c], bag[c]) /\ Freed(Exchanged(c, p)[p], bag[p])
  <1>0. /\ bag \in [Char -> Bag]
        /\ \A x \in Char : offer[x] \in [1..TradeSlots -> Slots \cup {NoOffer}]
    BY DEF TradeInv, Bags, Offers
  <1>1. PICK f \in Bag, g \in Bag : f = bag[c] /\ g = bag[p]
    BY <1>0
  <1>2. PICK o \in [1..TradeSlots -> Slots \cup {NoOffer}], u \in [1..TradeSlots -> Slots \cup {NoOffer}] :
          o = offer[c] /\ u = offer[p]
    BY <1>0
  <1>3. PICK one : one = DoTrade(f, g, o)
    OBVIOUS
  <1>4. one.from \in Bag /\ Freed(one.from, f) /\ one.to \in Bag /\ Freed(one.to, g)
    BY <1>3, TradeBag
  <1>5. PICK h \in Bag, k \in Bag : h = one.to /\ k = one.from
    BY <1>4
  <1>6. PICK two : two = DoTrade(h, k, u)
    OBVIOUS
  <1>7. two.from \in Bag /\ Freed(two.from, h) /\ two.to \in Bag /\ Freed(two.to, k)
    BY <1>6, TradeBag
  <1>8. PICK mine \in Bag, theirs \in Bag : mine = two.to /\ theirs = two.from
    BY <1>7
  <1>9. Freed(mine, bag[c]) /\ Freed(theirs, bag[p])
    <2>1. Freed(mine, k) /\ Freed(k, f) /\ Freed(theirs, h) /\ Freed(h, g)
      BY <1>4, <1>5, <1>7, <1>8
    <2> QED BY <1>1, <2>1 DEF Freed
  <1>10. Exchanged(c, p) = [bag EXCEPT ![c] = mine, ![p] = theirs]
    BY <1>1, <1>2, <1>3, <1>5, <1>6, <1>8 DEF Exchanged
  <1> QED BY <1>0, <1>9, <1>10

LEMMA AcceptKeeps ==
  ASSUME TradeInv, Refers', NEW c \in Char, craft[c] = <<>>, UNCHANGED craft, TradeAccept(c)
  PROVE  TradeInv'
  <1>1. Pairs /\ here[c] /\ window[c] /\ ~lock[c] /\ UNCHANGED <<here, craft>>
    BY DEF TradeInv, TradeAccept
  <1>2. trading[c]
    BY <1>1 DEF Pairs
  <1>3. PICK p \in Char : p = pending[c] /\ p # c /\ pending[p] = c /\ trading[p]
    BY <1>1, <1>2 DEF Pairs
  <1>4. CASE lock[p]
    <2>1. PICK bags : bags = IF CanTrade(c, p) /\ CanTrade(p, c) THEN Exchanged(c, p) ELSE bag
      OBVIOUS
    <2>2. PICK cs : cs = {c, p}
      OBVIOUS
    <2>3. /\ Clean(cs, bags) /\ pending' = [pending EXCEPT ![c] = None, ![p] = None]
          /\ window' = [window EXCEPT ![c] = FALSE, ![p] = FALSE]
      BY <1>3, <1>4, <2>1, <2>2 DEF TradeAccept
    <2>4. craft[c] = <<>> /\ craft[p] = <<>>
      BY <1>4 DEF TradeInv, Crafts
    <2>5. bags \in [Char -> Bag] /\ \A x \in Char : x \notin cs => bags[x] = bag[x]
      <3>1. bag \in [Char -> Bag]
        BY DEF TradeInv, Bags
      <3> QED BY <1>3, <2>1, <2>2, <3>1, ExchangedBags
    <2>6. \A x \in cs : bags[x] = bag[x] \/ (craft[x] = <<>> /\ Freed(bags[x], bag[x]))
      <3>1. CASE bags = bag
        BY <3>1
      <3>2. CASE bags = Exchanged(c, p)
        BY <1>3, <2>2, <2>4, <3>2, ExchangedBags
      <3> QED BY <2>1, <3>1, <3>2
    <2>7. cs \in SUBSET {c, p} /\ (trading[c] => c \in cs) /\ (trading[p] => p \in cs) /\ pending[c] = p
      BY <1>3, <2>2
    <2> QED BY <1>1, <2>3, <2>5, <2>6, <2>7, CleanKeeps
  <1>5. CASE ~lock[p]
    <2>1. /\ lock' = [lock EXCEPT ![c] = TRUE]
          /\ agreed' = [agreed EXCEPT ![c] = <<Offered(c), Offered(p)>>]
          /\ UNCHANGED <<bag, pending, trading, offer, window>>
      BY <1>3, <1>5 DEF TradeAccept
    <2>2. lock' \in [Char -> BOOLEAN] /\ \A x \in Char : lock'[x] <=> (lock[x] \/ x = c)
      BY <1>1, <2>1 DEF Pairs
    <2>3. Pairs'
      <3>1. UNCHANGED <<here, pending, trading, window, offer>>
        BY <1>1, <2>1
      <3>2. \A x \in Char : ~trading'[x] => ~window'[x] /\ ~lock'[x] /\ offer'[x] = NoOffers
        BY <1>1, <1>2, <2>1, <2>2 DEF Pairs
      <3> QED BY <1>1, <2>2, <3>1, <3>2 DEF Pairs
    <2>4. Bags' /\ Offers'
      BY <1>1, <2>1 DEF TradeInv, Bags, Offers
    <2>5. Crafts'
      <3>1. ASSUME NEW x \in Char, craft'[x] # <<>>
            PROVE  offer'[x] = NoOffers /\ ~lock'[x] /\ Crafted(craft[x], bag[x])'
        <4>1. x # c /\ craft[x] # <<>>
          BY <1>1, <3>1
        <4> QED BY <1>1, <2>1, <2>2, <4>1 DEF TradeInv, Crafts, Crafted
      <3> QED BY <1>1, <3>1 DEF Crafts, TradeInv
    <2>6. Seals'
      <3>1. \A x \in Char : Offered(x)' = Offered(x)
        BY <2>1 DEF Offered
      <3>2. ASSUME NEW x \in Char, NEW y \in Char, lock'[x], pending'[x] = y
            PROVE  (agreed[x] = <<Offered(x), Offered(y)>>)'
        <4>1. pending[x] = y
          BY <2>1, <3>2
        <4>2. CASE x = c
          <5>1. y = p /\ agreed'[x] = <<Offered(x), Offered(y)>>
            BY <1>3, <2>1, <4>1, <4>2 DEF TradeInv, Seals
          <5> QED BY <3>1, <5>1
        <4>3. CASE x # c
          <5>1. agreed'[x] = agreed[x] /\ lock[x]
            BY <2>1, <2>2, <3>2, <4>3 DEF TradeInv, Seals
          <5>2. agreed[x] = <<Offered(x), Offered(y)>>
            BY <4>1, <5>1 DEF TradeInv, Seals
          <5> QED BY <3>1, <5>1, <5>2
        <4> QED BY <4>2, <4>3
      <3> QED BY <2>1, <3>2 DEF Seals, TradeInv
    <2> QED BY <2>3, <2>4, <2>5, <2>6 DEF TradeInv
  <1> QED BY <1>4, <1>5

LEMMA TradeKeeps ==
  ASSUME Baseline, TradeInv, Refers', NEW c \in Char, craft[c] = <<>>, UNCHANGED craft, Trade(c)
  PROVE  TradeInv'
  <1>1. \A q \in 0..Max(Quantity) : q \in Nat
    <2>1. ASSUME NEW q \in 0..Max(Quantity)  PROVE  q \in Int /\ q >= 0
      OBVIOUS
    <2> QED BY <2>1
  <1> QED BY <1>1, RequestKeeps, BeginKeeps, CancelKeeps, OfferKeeps, AcceptKeeps DEF Trade

LEMMA TradeNext == Baseline /\ TradeInv /\ Ledger /\ Refers' /\ [Next]_vars => TradeInv'
  <1> SUFFICES ASSUME Baseline, TradeInv, Ledger, Refers', [Next]_vars  PROVE  TradeInv'
    OBVIOUS
  <1>1. CASE UNCHANGED vars
    <2>1. UNCHANGED <<here, bag, tradeVars, craft>>
      BY <1>1 DEF vars
    <2>2. here' \in [Char -> BOOLEAN] /\ \A x \in Char : here[x] => here'[x]
      BY <2>1 DEF TradeInv, Pairs
    <2> QED BY <2>1, <2>2, NoBagKeeps
  <1> QED BY <1>1, TradeKeeps, BazaarKeeps, AuctionKeeps, AloneKeeps, SynthesisKeeps DEF Next

-----------------------------------------------------------------------------
LEMMA LedgerInit == Init => Ledger
  <1> SUFFICES ASSUME Init PROVE Ledger
    OBVIOUS
  <1>1. rows = {} /\ IsFiniteSet(rows)
    BY FS_EmptySet DEF Init
  <1>2. history = [c \in Char |-> <<>>] /\ mail = [c \in Char |-> 0]
    BY DEF Init
  <1> QED BY <1>1, <1>2 DEF Ledger

LEMMA AuctionLedger ==
  ASSUME TradeInv, Ledger, NEW c \in Char, Auction(c)
  PROVE  Ledger'
  <1>1. /\ rows \subseteq Row /\ IsFiniteSet(rows) /\ \A x, y \in rows : x.id = y.id => x = y
        /\ DOMAIN history = Char /\ \A x \in Char : \A n \in DOMAIN history[x] : history[x][n].kind \in Kind
        /\ mail \in [Char -> Nat]
    BY DEF Ledger
  <1>2. ASSUME RefreshHistory(c)  PROVE  Ledger'
    <2> DEFINE first == {r \in Unsold(c) : Cardinality({x \in Unsold(c) : x.id < r.id}) < Limit}
               nth(n) == CHOOSE r \in first : Cardinality({x \in first : x.id < r.id}) = n - 1
               list == [n \in 1..Cardinality(first) |->
                          [kind |-> nth(n).kind, stack |-> nth(n).stack, price |-> nth(n).price]]
    <2>1. history' = [history EXCEPT ![c] = list] /\ UNCHANGED <<rows, mail>>
      BY <1>2 DEF RefreshHistory
    <2>2. first \in SUBSET rows
      BY DEF Unsold
    <2> HIDE DEF first
    <2>3. /\ IsFiniteSet(first) /\ \A r \in first : r.id \in Nat
          /\ \A x, y \in first : x.id = y.id => x = y
      BY <1>1, <2>2, RowFacts, FS_Subset
    <2>4. ASSUME NEW n \in 1..Cardinality(first)  PROVE  list[n].kind \in Kind
      <3>1. \E r \in first : Cardinality({x \in first : x.id < r.id}) = n - 1
        BY <2>3, RanksExist
      <3>2. nth(n) \in first
        BY <3>1
      <3>3. nth(n).kind \in Kind
        BY <2>2, <3>2, RowFacts
      <3> HIDE DEF nth
      <3> QED BY <3>3
    <2>5. DOMAIN list = 1..Cardinality(first)
      OBVIOUS
    <2> HIDE DEF list, nth
    <2>6. DOMAIN history' = Char /\ \A x \in Char : \A n \in DOMAIN history'[x] : history'[x][n].kind \in Kind
      BY <1>1, <2>1, <2>4, <2>5
    <2> QED BY <1>1, <2>1, <2>6 DEF Ledger
  <1>3. ASSUME NEW s \in 1..BagSize, NEW stack \in BOOLEAN, NEW price \in Prices, PlaceSale(c, s, stack, price)
        PROVE  Ledger'
    <2>1. PICK r : r = [id |-> NewId, kind |-> bag[c][s].kind, stack |-> stack, seller |-> c,
                        price |-> price, sale |-> 0]
      OBVIOUS
    <2>2. rows' = rows \cup {r} /\ NewId <= MaxRows /\ bag[c][s] # Empty /\ UNCHANGED <<history, mail>>
      BY <1>3, <2>1 DEF PlaceSale
    <2>3. NewId \in 1..MaxRows /\ \A x \in rows : x.id < NewId /\ x.id \in Nat
      <3>1. NewId \in Nat /\ NewId >= 1 /\ \A x \in rows : x.id < NewId
        BY NewIdIsNew
      <3>2. MaxRows \in Nat
        BY ExchangeAssumption
      <3> QED BY <2>2, <3>1, <3>2, RowFacts
    <2>4. r \in Row /\ r.id = NewId
      <3>1. bag[c][s].kind \in Kind
        BY <2>2, SlotFacts
      <3>2. r.id = NewId
        BY <2>1
      <3>3. PICK i \in 1..MaxRows, k \in Kind : i = NewId /\ k = bag[c][s].kind
        BY <2>3, <3>1
      <3>4. r = [id |-> i, kind |-> k, stack |-> stack, seller |-> c, price |-> price, sale |-> 0]
        BY <2>1, <3>3
      <3>5. r \in Row
        BY <3>4 DEF Row
      <3> QED BY <3>2, <3>5
    <2>5. rows' \subseteq Row /\ IsFiniteSet(rows')
      BY <1>1, <2>2, <2>4, FS_AddElement
    <2>6. \A x, y \in rows' : x.id = y.id => x = y
      <3>1. \A x \in rows : x.id # r.id
        BY <2>3, <2>4
      <3> QED BY <1>1, <2>2, <3>1
    <2> QED BY <1>1, <2>2, <2>5, <2>6 DEF Ledger
  <1>4. ASSUME NEW k \in Kind, NEW stack \in BOOLEAN, NEW bid \in Prices, Bid(c, k, stack, bid)
        PROVE  Ledger'
    <2>1. PICK r \in rows : /\ rows' = (rows \ {r}) \cup {[r EXCEPT !.sale = bid]}
                            /\ mail' = [mail EXCEPT ![r.seller] = @ + bid]
      BY <1>4 DEF Bid
    <2>2. UNCHANGED history
      BY <1>4 DEF Bid
    <2>3. PICK sold : sold = [r EXCEPT !.sale = bid]
      OBVIOUS
    <2>4. sold \in Row /\ sold.id = r.id /\ r \in Row /\ r.seller \in Char
      <3>1. r \in Row /\ r.seller \in Char
        BY RowFacts
      <3> QED BY <2>3, <3>1 DEF Row
    <2>5. rows' = (rows \ {r}) \cup {sold}
      BY <2>1, <2>3
    <2>6. rows' \subseteq Row /\ IsFiniteSet(rows')
      <3>1. IsFiniteSet(rows \ {r})
        BY <1>1, FS_Difference
      <3> QED BY <1>1, <2>4, <2>5, <3>1, FS_AddElement
    <2>7. \A x, y \in rows' : x.id = y.id => x = y
      <3>1. \A x \in rows \ {r} : x.id # sold.id
        BY <1>1, <2>4
      <3> QED BY <1>1, <2>5, <3>1
    <2>8. mail' \in [Char -> Nat]
      <3>1. bid \in Nat
        BY ExchangeAssumption
      <3>2. PICK w \in Char : w = r.seller
        BY <2>4
      <3>3. mail[w] + bid \in Nat
        BY <1>1, <3>1
      <3> QED BY <1>1, <2>1, <3>2, <3>3
    <2> QED BY <1>1, <2>2, <2>6, <2>7, <2>8 DEF Ledger
  <1>5. ASSUME NEW n \in DOMAIN history[c], CancelSale(c, n)  PROVE  Ledger'
    <2>1. PICK r : rows' = rows \ {r}
      BY <1>5 DEF CancelSale
    <2>2. UNCHANGED <<history, mail>>
      BY <1>5 DEF CancelSale
    <2>3. IsFiniteSet(rows')
      BY <1>1, <2>1, FS_Difference
    <2> QED BY <1>1, <2>1, <2>2, <2>3 DEF Ledger
  <1> QED BY <1>2, <1>3, <1>4, <1>5 DEF Auction

LEMMA LedgerNext == TradeInv /\ Ledger /\ [Next]_vars => Ledger'
  <1> SUFFICES ASSUME TradeInv, Ledger, [Next]_vars  PROVE  Ledger'
    OBVIOUS
  <1>1. ASSUME UNCHANGED auctionVars  PROVE  Ledger'
    <2>1. UNCHANGED <<rows, history, mail>>
      BY <1>1 DEF auctionVars
    <2> QED BY <2>1 DEF Ledger
  <1>2. CASE UNCHANGED vars
    BY <1>1, <1>2 DEF vars
  <1>3. ASSUME NEW c \in Char, Trade(c)  PROVE  UNCHANGED auctionVars
    BY ZenonT(30), <1>3 DEF Trade, TradeRequest, TradeBegin, TradeCancel, TradeOffer, TradeAccept
  <1>4. ASSUME NEW c \in Char, Bazaar(c)  PROVE  UNCHANGED auctionVars
    BY <1>4 DEF Bazaar, SetPrice, OpenBazaar, CloseBazaar, ViewWares, LeaveWares, Purchase
  <1>5. ASSUME NEW c \in Char, Alone(c)  PROVE  UNCHANGED auctionVars
    BY <1>5 DEF Alone, Drop, Split, SellToVendor, Merge, EnterZone
  <1>6. ASSUME NEW c \in Char, Synthesis(c)  PROVE  Ledger'
    <2>1. CASE \E lost \in SUBSET DOMAIN craft[c] : LeaveZone(c, lost)
      <3>1. history' = [history EXCEPT ![c] = <<>>] /\ UNCHANGED <<rows, mail>>
        BY <2>1 DEF LeaveZone
      <3>2. DOMAIN history' = Char /\ \A x \in Char : \A n \in DOMAIN history'[x] : history'[x][n].kind \in Kind
        <4>1. ASSUME NEW x \in Char, NEW n \in DOMAIN history'[x]  PROVE  history'[x][n].kind \in Kind
          <5>1. x # c /\ history'[x] = history[x]
            BY <3>1, <4>1 DEF Ledger
          <5> QED BY <4>1, <5>1 DEF Ledger
        <4> QED BY <3>1, <4>1 DEF Ledger
      <3> QED BY <3>1, <3>2 DEF Ledger
    <2>2. CASE ~\E lost \in SUBSET DOMAIN craft[c] : LeaveZone(c, lost)
      <3>1. UNCHANGED auctionVars
        BY <1>6, <2>2 DEF Synthesis, StartSynth, SynthFails, SynthSucceeds
      <3> QED BY <1>1, <3>1
    <2> QED BY <2>1, <2>2
  <1> QED BY <1>1, <1>2, <1>3, <1>4, <1>5, <1>6, AuctionLedger DEF Next

\* The combined invariant, where the trades of two are left alone.
ExchangeInv == Refers /\ TradeInv /\ Ledger

LEMMA ExchangeInvariant ==
  ASSUME Baseline
  PROVE  Spec => []ExchangeInv
  <1>1. Init => ExchangeInv
    BY RefersInit, TradeInit, LedgerInit DEF ExchangeInv
  <1>2. ExchangeInv /\ [Next]_vars => ExchangeInv'
    BY RefersNext, TradeNext, LedgerNext DEF ExchangeInv
  <1> QED BY <1>1, <1>2, PTL DEF Spec

\* As long as nobody leaves a trade, crosses one with another request or changes
\* an offer after the OK, the reserve of an item is what a window offers of it or
\* a synthesis will take, and nothing else uses it up: whatever UpdateItem is
\* asked to take, it leaves the reserve (charutils::UpdateItem).
THEOREM ReserveIsHeldAlways ==
  ASSUME Baseline
  PROVE  Spec => []ReserveIsHeld
  <1>1. ASSUME ExchangeInv  PROVE  ReserveIsHeld
    <2>1. TradeInv
      BY <1>1 DEF ExchangeInv
    <2> SUFFICES ASSUME NEW c \in Char
                 PROVE  /\ \A s \in Slots : bag[c][s].reserve > 0 <=> s \in Range(offer[c]) \cup Range(craft[c])
                        /\ \A s \in Slots : bag[c][s].reserve <= bag[c][s].qty
                        /\ \A i \in DOMAIN craft[c] : bag[c][craft[c][i]].kind = Ingredients[i]
                        /\ trading[c] \/ offer[c] = NoOffers
      BY DEF ReserveIsHeld
    <2>2. \A s \in Slots : bag[c][s].reserve <= bag[c][s].qty
      BY <2>1, BagFacts DEF TradeInv, Bags
    <2>3. trading[c] \/ offer[c] = NoOffers
      BY <2>1 DEF TradeInv, Pairs
    <2>4. CASE craft[c] = <<>>
      <3>1. DOMAIN craft[c] = {} /\ Range(craft[c]) = {}
        BY <2>4 DEF Range
      <3>2. \A s \in Slots : bag[c][s].reserve > 0 <=> s \in Range(offer[c])
        BY <2>1, <2>4 DEF TradeInv, Offers
      <3> QED BY <2>2, <2>3, <3>1, <3>2
    <2>5. CASE craft[c] # <<>>
      <3>1. PICK m : m = craft[c]
        OBVIOUS
      <3>2. /\ offer[c] = NoOffers /\ m \in [DOMAIN Ingredients -> 1..BagSize]
            /\ \A s \in Slots : bag[c][s].reserve = Uses(m, s)
            /\ \A i \in DOMAIN Ingredients : bag[c][m[i]].kind = Ingredients[i]
        BY <2>1, <2>5, <3>1 DEF TradeInv, Crafts, Crafted
      <3>3. ASSUME NEW s \in Slots
            PROVE  bag[c][s].reserve > 0 <=> s \in Range(offer[c]) \cup Range(m)
        <4>1. Uses(m, s) > 0 <=> s \in Range(m)
          BY <3>2, RecipeFacts, UsesFacts
        <4>2. s \notin Range(offer[c])
          BY <3>2, NoOffersFacts
        <4> QED BY <3>2, <4>1, <4>2
      <3> QED BY <2>2, <2>3, <3>1, <3>2, <3>3
    <2> QED BY <2>4, <2>5
  <1> QED BY <1>1, ExchangeInvariant, PTL

\* In the same circumstances a trade is between two who both have a window open,
\* and a handled OK stands for the two offers as they are (packet 0x034 takes both
\* OKs back, whichever of the two changes its offer).
THEOREM TradeAgreedAlways ==
  ASSUME Baseline
  PROVE  Spec => []TradeAgreed
  <1>1. ASSUME ExchangeInv  PROVE  TradeAgreed
    <2>1. Pairs /\ Seals
      BY <1>1 DEF ExchangeInv, TradeInv
    <2>2. ASSUME NEW c \in Char, trading[c]
          PROVE  /\ window[c] /\ pending[c] # None
                 /\ trading[pending[c]] /\ pending[pending[c]] = c
                 /\ lock[c] => agreed[c] = <<Offered(c), Offered(pending[c])>>
      <3>1. PICK p \in Char : p = pending[c]
        BY <2>1, <2>2 DEF Pairs
      <3>2. window[c] /\ p # None /\ trading[p] /\ pending[p] = c
        BY <2>1, <2>2, <3>1, ExchangeAssumption DEF Pairs
      <3>3. lock[c] => agreed[c] = <<Offered(c), Offered(p)>>
        BY <2>1, <3>1 DEF Seals
      <3> QED BY <3>1, <3>2, <3>3
    <2> QED BY <2>2 DEF TradeAgreed
  <1> QED BY <1>1, ExchangeInvariant, PTL

-----------------------------------------------------------------------------
(***************************************************************************)
(* What the rest of the type invariant needs: the counts of the            *)
(* containers, and the sums kept of what enters and leaves the game.       *)
(***************************************************************************)
Placed(c) == {t \in 1..TradeSlots : offer[c][t] # NoOffer}
Counted ==
  /\ count \in [Char -> 0..MaxCount]
  /\ \A c \in Char : count[c] >= Cardinality(Placed(c))

LEMMA PlacedFacts ==
  ASSUME NEW c
  PROVE  IsFiniteSet(Placed(c)) /\ Cardinality(Placed(c)) \in Nat
  <1>1. Placed(c) \in SUBSET (1..TradeSlots)
    BY DEF Placed
  <1>2. IsFiniteSet(1..TradeSlots)
    <2>1. 1 \in Int /\ TradeSlots \in Int
      BY ExchangeAssumption
    <2> QED BY <2>1, FS_Interval
  <1> QED BY <1>1, <1>2, FS_Subset, FS_CardinalityType

LEMMA CountedInit == Init => Counted
  <1> SUFFICES ASSUME Init PROVE Counted
    OBVIOUS
  <1>1. ASSUME NEW c \in Char  PROVE  Cardinality(Placed(c)) = 0
    <2>1. Placed(c) = {}
      BY NoOffersFacts DEF Init, Placed
    <2> QED BY <2>1, FS_EmptySet
  <1>2. count = [c \in Char |-> 0] /\ MaxCount \in Nat
    BY ExchangeAssumption DEF Init
  <1>3. count \in [Char -> 0..MaxCount] /\ \A c \in Char : count[c] = 0
    BY <1>2
  <1> QED BY <1>1, <1>3 DEF Counted

\* Containers are cleaned, or left as they are.
LEMMA CleanCounted ==
  ASSUME Counted, NEW cs,
         \A x \in Char : IF x \in cs THEN count'[x] = 0 /\ offer'[x] = NoOffers
                                     ELSE count'[x] = count[x] /\ offer'[x] = offer[x],
         count' = [x \in Char |-> count'[x]]
  PROVE  Counted'
  <1>1. MaxCount \in Nat
    BY ExchangeAssumption
  <1>2. ASSUME NEW x \in Char
        PROVE  count'[x] \in 0..MaxCount /\ count'[x] >= Cardinality(Placed(x)')
    <2>1. CASE x \in cs
      <3>1. count'[x] = 0 /\ count'[x] \in 0..MaxCount
        BY <1>1, <2>1
      <3>2. Placed(x)' = {}
        BY <2>1, NoOffersFacts DEF Placed
      <3>3. Cardinality(Placed(x)') = 0
        BY <3>2, FS_EmptySet
      <3> QED BY <3>1, <3>3
    <2>2. CASE x \notin cs
      <3>1. Placed(x)' = Placed(x)
        BY <2>2 DEF Placed
      <3>2. count'[x] = count[x]
        BY <2>2
      <3> QED BY <3>1, <3>2 DEF Counted
    <2> QED BY <2>1, <2>2
  <1>3. count' \in [Char -> 0..MaxCount]
    BY <1>2
  <1> QED BY <1>2, <1>3 DEF Counted

LEMMA OfferCounted ==
  ASSUME Baseline, TradeInv, Counted, NEW c \in Char,
         NEW t \in 1..TradeSlots, NEW s \in Slots, NEW q \in Nat, TradeOffer(c, t, s, q)
  PROVE  Counted'
  <1>1. ~lock[c] /\ count[c] < MaxCount
    BY DEF TradeOffer, Baseline
  <1>2. /\ offer' = [offer EXCEPT ![c][t] = IF q > 0 THEN s ELSE NoOffer]
        /\ count' = [count EXCEPT ![c] = IF q > 0 THEN @ + 1 ELSE @]
    BY <1>1 DEF TradeOffer, SetItemCount
  <1>3. /\ count \in [Char -> 0..MaxCount] /\ \A x \in Char : count[x] >= Cardinality(Placed(x))
        /\ MaxCount \in Nat /\ offer \in [Char -> [1..TradeSlots -> Slots \cup {NoOffer}]]
    BY ExchangeAssumption DEF Counted, TradeInv, Offers
  <1>4. PICK n : n = IF q > 0 THEN count[c] + 1 ELSE count[c]
    OBVIOUS
  <1>5. count' = [count EXCEPT ![c] = n]
    BY <1>2, <1>4
  <1>6. n \in 0..MaxCount
    BY <1>1, <1>3, <1>4
  <1>7. count' \in [Char -> 0..MaxCount]
    BY <1>3, <1>5, <1>6
  <1>8. ASSUME NEW x \in Char  PROVE  count'[x] >= Cardinality(Placed(x)')
    <2>1. CASE x # c
      <3>1. offer'[x] = offer[x] /\ count'[x] = count[x]
        BY <1>2, <1>3, <1>5, <2>1
      <3>2. Placed(x)' = Placed(x)
        BY <3>1 DEF Placed
      <3> QED BY <1>3, <3>1, <3>2
    <2>2. CASE x = c
      <3>1. /\ offer'[c][t] = IF q > 0 THEN s ELSE NoOffer
            /\ \A u \in 1..TradeSlots : u # t => offer'[c][u] = offer[c][u]
        BY <1>2, <1>3
      <3>2. count'[c] = n
        BY <1>3, <1>5
      <3>3. PICK P, O : P = Placed(c)' /\ O = Placed(c)
        OBVIOUS
      <3>4. IsFiniteSet(O) /\ Cardinality(O) \in Nat /\ Cardinality(O) <= count[c] /\ count[c] \in Nat
        <4>1. count[c] \in 0..MaxCount /\ count[c] >= Cardinality(O)
          BY <1>3, <3>3
        <4> QED BY <3>3, <4>1, PlacedFacts
      <3>5. CASE q > 0
        <4>1. P \in SUBSET (O \cup {t})
          BY <3>1, <3>3 DEF Placed
        <4>2. IsFiniteSet(O \cup {t}) /\ Cardinality(O \cup {t}) <= Cardinality(O) + 1
          <5>1. /\ IsFiniteSet(O \cup {t})
                /\ Cardinality(O \cup {t}) = IF t \in O THEN Cardinality(O) ELSE Cardinality(O) + 1
            BY <3>4, FS_AddElement
          <5> QED BY <3>4, <5>1
        <4>3. Cardinality(P) <= Cardinality(O \cup {t}) /\ IsFiniteSet(P)
          BY <4>1, <4>2, FS_Subset
        <4>4. Cardinality(P) \in Nat /\ Cardinality(O \cup {t}) \in Nat
          BY <4>2, <4>3, FS_CardinalityType
        <4>5. n = count[c] + 1
          BY <1>4, <3>5
        <4>6. Cardinality(P) <= n
          BY <3>4, <4>2, <4>3, <4>4, <4>5
        <4> QED BY <2>2, <3>2, <3>3, <4>6
      <3>6. CASE ~(q > 0)
        <4>1. P \in SUBSET O
          BY <3>1, <3>3, <3>6 DEF Placed
        <4>2. Cardinality(P) <= Cardinality(O) /\ IsFiniteSet(P)
          BY <3>4, <4>1, FS_Subset
        <4>3. Cardinality(P) \in Nat /\ n = count[c]
          BY <1>4, <3>6, <4>2, FS_CardinalityType
        <4>4. Cardinality(P) <= n
          BY <3>4, <4>2, <4>3
        <4> QED BY <2>2, <3>2, <3>3, <4>4
      <3> QED BY <3>5, <3>6
    <2> QED BY <2>1, <2>2
  <1> QED BY <1>7, <1>8 DEF Counted

LEMMA CountedNext == Baseline /\ TradeInv /\ Counted /\ [Next]_vars => Counted'
  <1> SUFFICES ASSUME Baseline, TradeInv, Counted, [Next]_vars  PROVE  Counted'
    OBVIOUS
  <1>0. count \in [Char -> 0..MaxCount]
    BY DEF Counted
  <1>1. ASSUME UNCHANGED <<count, offer>>  PROVE  Counted'
    BY <1>1 DEF Counted, Placed
  <1>2. CASE UNCHANGED vars
    BY <1>1, <1>2 DEF vars, tradeVars
  <1>3. ASSUME NEW cs, NEW bags, Clean(cs, bags)  PROVE  Counted'
    <2>1. /\ count' = [x \in Char |-> IF x \in cs THEN 0 ELSE count[x]]
          /\ offer' = [x \in Char |-> IF x \in cs THEN NoOffers ELSE offer[x]]
      BY <1>3 DEF Clean
    <2> QED BY <2>1, CleanCounted
  <1>4. ASSUME NEW c \in Char, Trade(c)  PROVE  Counted'
    <2>1. ASSUME NEW t \in 1..TradeSlots, NEW s \in Slots, NEW q \in 0..Max(Quantity), TradeOffer(c, t, s, q)
          PROVE  Counted'
      <3>1. q \in Int /\ q >= 0
        OBVIOUS
      <3>2. q \in Nat
        BY <3>1
      <3> QED BY <2>1, <3>2, OfferCounted
    <2>2. ASSUME NEW p, TradeRequest(c, p)  PROVE  Counted'
      BY <1>1, <2>2 DEF TradeRequest
    <2>3. ASSUME NEW near, TradeBegin(c, near)  PROVE  Counted'
      BY <1>1, <2>3 DEF TradeBegin
    <2>4. ASSUME TradeCancel(c)  PROVE  Counted'
      BY <1>1, <1>3, <2>4 DEF TradeCancel
    <2>5. ASSUME TradeAccept(c)  PROVE  Counted'
      BY <1>1, <1>3, <2>5 DEF TradeAccept
    <2> QED BY <1>4, <2>1, <2>2, <2>3, <2>4, <2>5 DEF Trade
  <1>5. ASSUME NEW c \in Char, Bazaar(c)  PROVE  UNCHANGED <<count, offer>>
    BY <1>5 DEF Bazaar, SetPrice, OpenBazaar, CloseBazaar, ViewWares, LeaveWares, Purchase, tradeVars
  <1>6. ASSUME NEW c \in Char, Auction(c)  PROVE  UNCHANGED <<count, offer>>
    BY <1>6 DEF Auction, RefreshHistory, PlaceSale, Bid, CancelSale, tradeVars
  <1>7. ASSUME NEW c \in Char, Alone(c)  PROVE  UNCHANGED <<count, offer>>
    BY <1>7 DEF Alone, Drop, Split, SellToVendor, Merge, EnterZone, tradeVars
  <1>8. ASSUME NEW c \in Char, Synthesis(c)  PROVE  Counted'
    <2>1. CASE \E lost \in SUBSET DOMAIN craft[c] : LeaveZone(c, lost)
      <3>1. count' = [count EXCEPT ![c] = 0] /\ offer' = [offer EXCEPT ![c] = NoOffers]
        BY <2>1 DEF LeaveZone
      <3>2. PICK cs : cs = {c}
        OBVIOUS
      <3>3. DOMAIN offer = Char
        BY DEF TradeInv, Offers
      <3>4. \A x \in Char : IF x \in cs THEN count'[x] = 0 /\ offer'[x] = NoOffers
                                        ELSE count'[x] = count[x] /\ offer'[x] = offer[x]
        BY <1>0, <3>1, <3>2, <3>3
      <3>5. count' = [x \in Char |-> count'[x]]
        BY <1>0, <3>1
      <3> QED BY <3>4, <3>5, CleanCounted
    <2>2. CASE ~\E lost \in SUBSET DOMAIN craft[c] : LeaveZone(c, lost)
      <3>1. UNCHANGED <<count, offer>>
        BY <1>8, <2>2 DEF Synthesis, StartSynth, SynthFails, SynthSucceeds, tradeVars
      <3> QED BY <1>1, <3>1
    <2> QED BY <2>1, <2>2
  <1> QED BY <1>1, <1>2, <1>4, <1>5, <1>6, <1>7, <1>8 DEF Next

\* FLAG_BAZAAR, what players began, and the sums.
Tally ==
  /\ flag \in [Char -> BOOLEAN] /\ turns \in 0..MaxTurns
  /\ spent \in Int /\ gone \in [Kind -> Int]

LEMMA TallyInit == Init => Tally
  <1>1. MaxTurns \in Nat
    BY ExchangeAssumption
  <1> QED BY <1>1 DEF Init, Tally

LEMMA TurnFacts ==
  ASSUME Tally, Turn \/ UNCHANGED turns
  PROVE  turns' \in 0..MaxTurns
  <1>1. MaxTurns \in Nat /\ turns \in 0..MaxTurns
    BY ExchangeAssumption DEF Tally
  <1> QED BY <1>1 DEF Turn

LEMMA SameTally ==
  ASSUME Tally, Turn \/ UNCHANGED turns, UNCHANGED <<flag, spent, gone>>
  PROVE  Tally'
  BY TurnFacts DEF Tally

\* Units are used up, or made.
LEMMA GoneTally ==
  ASSUME Tally, Turn \/ UNCHANGED turns, flag' \in [Char -> BOOLEAN],
         spent' \in Int, gone' \in [Kind -> Int]
  PROVE  Tally'
  BY TurnFacts DEF Tally

LEMMA UsedUpFacts ==
  ASSUME Tally, TradeInv, NEW c \in Char, NEW lost \in SUBSET DOMAIN craft[c]
  PROVE  UsedUp(c, lost) \in [Kind -> Int]
  <1>1. IsFiniteSet(DOMAIN craft[c])
    <2>1. CASE craft[c] = <<>>
      <3>1. DOMAIN craft[c] = {}
        BY <2>1
      <3> QED BY <3>1, FS_EmptySet
    <2>2. CASE craft[c] # <<>>
      <3>1. Crafted(craft[c], bag[c])
        BY <2>2 DEF TradeInv, Crafts
      <3>2. DOMAIN craft[c] = DOMAIN Ingredients
        BY <3>1 DEF Crafted
      <3> QED BY <3>2, RecipeFacts
    <2> QED BY <2>1, <2>2
  <1>2. ASSUME NEW k \in Kind
        PROVE  gone[k] + Cardinality({i \in lost : bag[c][craft[c][i]].kind = k}) \in Int
    <2>1. PICK L : L = {i \in lost : bag[c][craft[c][i]].kind = k}
      OBVIOUS
    <2>2. L \in SUBSET DOMAIN craft[c]
      BY <2>1
    <2>3. Cardinality(L) \in Nat
      BY <1>1, <2>2, FS_Subset, FS_CardinalityType
    <2>4. gone[k] \in Int
      BY DEF Tally
    <2>5. gone[k] + Cardinality(L) \in Int
      BY <2>3, <2>4
    <2> QED BY <2>1, <2>5
  <1> QED BY <1>2 DEF UsedUp

LEMMA BazaarTally ==
  ASSUME TradeInv, Tally, NEW c \in Char, Bazaar(c)
  PROVE  Tally'
  <1>0. flag \in [Char -> BOOLEAN]
    BY DEF Tally
  <1>1. ASSUME NEW s, NEW price, SetPrice(c, s, price)  PROVE  Tally'
    BY <1>1, SameTally DEF SetPrice, bazaarVars
  <1>2. ASSUME OpenBazaar(c) \/ CloseBazaar(c)  PROVE  Tally'
    <2>1. flag' \in [Char -> BOOLEAN] /\ UNCHANGED <<spent, gone, turns>>
      BY <1>0, <1>2 DEF OpenBazaar, CloseBazaar
    <2> QED BY <2>1 DEF Tally
  <1>3. ASSUME NEW p, ViewWares(c, p) \/ LeaveWares(c)  PROVE  Tally'
    <2>1. UNCHANGED <<flag, spent, gone, turns>>
      BY <1>3 DEF ViewWares, LeaveWares
    <2> QED BY <2>1, SameTally
  <1>4. ASSUME NEW s \in 1..BagSize, NEW q \in Quantity, Purchase(c, s, q)  PROVE  Tally'
    <2>1. PICK p \in Char : p = view[c]
      BY <1>4 DEF Purchase, TradeInv, Pairs, Refers
    <2>2. PICK price \in Nat : price = bag[p][s].price
      <3>1. s \in Slots /\ bag[p] \in Bag
        BY ExchangeAssumption DEF Slots, TradeInv, Bags
      <3> QED BY <3>1, BagFacts
    <2>3. PICK f : f = (flag[p] /\ Priced(bag'[p]))
      OBVIOUS
    <2>4. /\ flag' = [flag EXCEPT ![p] = f] /\ UNCHANGED gone /\ Turn
          /\ spent' = spent + (WithTax(price * q) - price * q)
      BY <1>4, <2>1, <2>2, <2>3 DEF Purchase
    <2>5. f \in BOOLEAN
      BY <2>3
    <2>6. flag' \in [Char -> BOOLEAN]
      BY <1>0, <2>4, <2>5
    <2>7. spent' \in Int
      <3>1. q \in Int /\ q >= 1
        BY DEF Quantity
      <3>2. PICK n \in Nat : n = price * q
        <4>1. price * q \in Nat
          BY <3>1
        <4> QED BY <4>1
      <3>3. Tax * n \in Nat
        BY ExchangeAssumption
      <3>4. PICK m \in Nat : m = Tax * n
        BY <3>3
      <3>5. WithTax(n) = m \div 10000 + n
        BY <3>4 DEF WithTax
      <3>6. WithTax(n) \in Int
        BY <3>5
      <3>7. spent \in Int /\ spent' = spent + (WithTax(n) - n)
        BY <2>4, <3>2 DEF Tally
      <3> QED BY <3>6, <3>7
    <2>8. gone' \in [Kind -> Int]
      BY <2>4 DEF Tally
    <2> QED BY <2>4, <2>6, <2>7, <2>8, GoneTally
  <1> QED BY <1>1, <1>2, <1>3, <1>4 DEF Bazaar

LEMMA AuctionTally ==
  ASSUME Tally, NEW c \in Char, Auction(c)
  PROVE  Tally'
  <1>1. ASSUME RefreshHistory(c)  PROVE  Tally'
    BY <1>1, SameTally DEF RefreshHistory, bazaarVars
  <1>2. ASSUME NEW s, NEW stack, NEW price, PlaceSale(c, s, stack, price)  PROVE  Tally'
    <2>1. UNCHANGED <<flag, gone>> /\ spent' = spent + Fee /\ Turn
      BY <1>2 DEF PlaceSale, bazaarVars
    <2>2. spent' \in Int
      BY <2>1, ExchangeAssumption DEF Tally
    <2>3. flag' \in [Char -> BOOLEAN] /\ gone' \in [Kind -> Int]
      BY <2>1 DEF Tally
    <2> QED BY <2>1, <2>2, <2>3, GoneTally
  <1>3. ASSUME NEW k, NEW stack, NEW bid, Bid(c, k, stack, bid)  PROVE  Tally'
    BY <1>3, SameTally DEF Bid, bazaarVars
  <1>4. ASSUME NEW n, CancelSale(c, n)  PROVE  Tally'
    BY <1>4, SameTally DEF CancelSale, bazaarVars
  <1> QED BY <1>1, <1>2, <1>3, <1>4 DEF Auction

LEMMA AloneTally ==
  ASSUME TradeInv, Tally, NEW c \in Char, Alone(c)
  PROVE  Tally'
  <1>0. flag \in [Char -> BOOLEAN] /\ spent \in Int /\ gone \in [Kind -> Int]
    BY DEF Tally
  <1>1. ASSUME NEW s \in 1..BagSize, NEW q \in Quantity, Drop(c, s, q) \/ SellToVendor(c, s, q)
        PROVE  Tally'
    <2>1. PICK k : k = bag[c][s].kind
      OBVIOUS
    <2>2. /\ bag[c][s] # Empty /\ Turn /\ UNCHANGED flag
          /\ spent' = spent \/ spent' = spent - q
          /\ gone' = [gone EXCEPT ![k] = @ + q]
      BY <1>1, <2>1 DEF Drop, SellToVendor, bazaarVars
    <2>3. k \in Kind
      BY <2>1, <2>2, SlotFacts
    <2>4. q \in Int
      BY DEF Quantity
    <2>5. spent' \in Int
      BY <1>0, <2>2, <2>4
    <2>6. gone' \in [Kind -> Int]
      <3>1. gone[k] + q \in Int
        BY <1>0, <2>3, <2>4
      <3> QED BY <1>0, <2>2, <2>3, <3>1
    <2> QED BY <1>0, <2>2, <2>5, <2>6, GoneTally
  <1>2. ASSUME NEW s, NEW q, Split(c, s, q)  PROVE  Tally'
    BY <1>2, SameTally DEF Split, bazaarVars
  <1>3. ASSUME NEW a, NEW b, Merge(c, a, b)  PROVE  Tally'
    BY <1>3, SameTally DEF Merge, bazaarVars
  <1>4. ASSUME EnterZone(c)  PROVE  Tally'
    BY <1>4, SameTally DEF EnterZone, bazaarVars
  <1> QED BY <1>1, <1>2, <1>3, <1>4 DEF Alone

LEMMA SynthesisTally ==
  ASSUME TradeInv, Tally, NEW c \in Char, Synthesis(c)
  PROVE  Tally'
  <1>0. flag \in [Char -> BOOLEAN] /\ spent \in Int /\ gone \in [Kind -> Int]
    BY DEF Tally
  <1>1. ASSUME NEW s, NEW m, StartSynth(c, s, m)  PROVE  Tally'
    <2>1. gone' = [gone EXCEPT ![Crystal] = @ + 1] /\ UNCHANGED <<flag, spent>> /\ Turn
      BY <1>1 DEF StartSynth, bazaarVars
    <2>2. gone[Crystal] + 1 \in Int /\ Crystal \in Kind
      BY <1>0, ExchangeAssumption
    <2>3. gone' \in [Kind -> Int]
      BY <1>0, <2>1, <2>2
    <2> QED BY <1>0, <2>1, <2>3, GoneTally
  <1>2. ASSUME NEW lost \in SUBSET DOMAIN craft[c], SynthFails(c, lost)  PROVE  Tally'
    <2>1. gone' = UsedUp(c, lost) /\ UNCHANGED <<flag, spent, turns>>
      BY <1>2 DEF SynthFails, bazaarVars
    <2> QED BY <1>0, <2>1, UsedUpFacts, GoneTally
  <1>3. ASSUME NEW lost \in SUBSET DOMAIN craft[c], LeaveZone(c, lost)  PROVE  Tally'
    <2>1. gone' = UsedUp(c, lost) /\ flag' = [flag EXCEPT ![c] = FALSE] /\ UNCHANGED spent /\ Turn
      BY <1>3 DEF LeaveZone
    <2> QED BY <1>0, <2>1, UsedUpFacts, GoneTally
  <1>4. ASSUME NEW r \in Results, SynthSucceeds(c, r)  PROVE  Tally'
    <2>1. PICK u : u = UsedUp(c, DOMAIN craft[c])
      OBVIOUS
    <2>2. gone' = [u EXCEPT ![r.kind] = @ - r.qty] /\ UNCHANGED <<flag, spent, turns>>
      BY <1>4, <2>1 DEF SynthSucceeds, bazaarVars
    <2>3. u \in [Kind -> Int]
      BY <2>1, UsedUpFacts
    <2>4. r.kind \in Kind /\ r.qty \in Nat
      <3>1. r \in [kind : Kind, qty : Nat \ {0}]
        BY ExchangeAssumption
      <3> QED BY <3>1
    <2>5. u[r.kind] - r.qty \in Int
      BY <2>3, <2>4
    <2>6. gone' \in [Kind -> Int]
      BY <2>2, <2>3, <2>4, <2>5
    <2> QED BY <1>0, <2>2, <2>6, GoneTally
  <1> QED BY <1>1, <1>2, <1>3, <1>4 DEF Synthesis

LEMMA TallyNext == TradeInv /\ Tally /\ [Next]_vars => Tally'
  <1> SUFFICES ASSUME TradeInv, Tally, [Next]_vars  PROVE  Tally'
    OBVIOUS
  <1>1. CASE UNCHANGED vars
    BY <1>1 DEF vars, bazaarVars, Tally
  <1>2. ASSUME NEW c \in Char, Trade(c)  PROVE  Tally'
    <2>1. (Turn \/ UNCHANGED turns) /\ UNCHANGED <<flag, spent, gone>>
      BY ZenonT(30), <1>2 DEF Trade, TradeRequest, TradeBegin, TradeCancel, TradeOffer, TradeAccept, bazaarVars
    <2> QED BY <2>1, SameTally
  <1> QED BY <1>1, <1>2, BazaarTally, AuctionTally, AloneTally, SynthesisTally DEF Next

\* The state is well formed, and a container counts at least the offers in it, in
\* the same circumstances (CUContainer::SetItem counts, ClearSlot does not).
THEOREM TypeCorrect ==
  ASSUME Baseline
  PROVE  Spec => []TypeOK
  <1> DEFINE TypeInv == ExchangeInv /\ Counted /\ Tally
  <1>1. Init => TypeInv
    BY RefersInit, TradeInit, LedgerInit, CountedInit, TallyInit DEF ExchangeInv
  <1>2. TypeInv /\ [Next]_vars => TypeInv'
    BY RefersNext, TradeNext, LedgerNext, CountedNext, TallyNext DEF ExchangeInv
  <1>3. ASSUME TypeInv  PROVE  TypeOK
    <2>1. Refers /\ Bags /\ Pairs /\ Offers /\ Crafts /\ Ledger /\ Counted /\ Tally
      BY <1>3 DEF ExchangeInv, TradeInv
    <2>2. bag \in [Char -> [Slots -> Item \cup {Empty}]]
      <3>1. Good \subseteq Item
        BY DEF Good, Stacked
      <3>2. Bag \subseteq [Slots -> Item \cup {Empty}]
        BY <3>1 DEF Bag
      <3> QED BY <2>1, <3>2 DEF Bags
    <2>3. /\ here \in [Char -> BOOLEAN] /\ trading \in [Char -> BOOLEAN]
          /\ lock \in [Char -> BOOLEAN] /\ window \in [Char -> BOOLEAN] /\ flag \in [Char -> BOOLEAN]
          /\ pending \in [Char -> Char \cup {None}] /\ view \in [Char -> Char \cup {None}]
      BY <2>1 DEF Pairs, Refers, Tally
    <2>4. /\ offer \in [Char -> [1..TradeSlots -> Slots \cup {NoOffer}]] /\ count \in [Char -> 0..MaxCount]
          /\ \A c \in Char : count[c] >= Cardinality({t \in 1..TradeSlots : offer[c][t] # NoOffer})
      BY <2>1 DEF Offers, Counted, Placed
    <2>5. /\ rows \subseteq Row /\ mail \in [Char -> Nat] /\ gone \in [Kind -> Int] /\ spent \in Int
          /\ \A c \in Char : \A n \in DOMAIN history[c] : history[c][n].kind \in Kind
          /\ turns \in 0..MaxTurns
      BY <2>1 DEF Ledger, Tally
    <2>6. \A c \in Char : craft[c] = <<>> \/ craft[c] \in [DOMAIN Ingredients -> 1..BagSize]
      BY <2>1 DEF Crafts, Crafted
    <2> QED BY <2>2, <2>3, <2>4, <2>5, <2>6 DEF TypeOK
  <1> QED BY <1>1, <1>2, <1>3, PTL DEF Spec

-----------------------------------------------------------------------------
(***************************************************************************)
(* Units in a bag.                                                         *)
(***************************************************************************)
Ids == Kind \cup {Gil}
Amount(b, k) == [s \in Slots |-> IF b[s].kind = k THEN b[s].qty ELSE 0]

\* u contains no more than b does and n units of j.
Has(u, b, j, n) == \A k \in Ids : InBag(u, k) <= InBag(b, k) + (IF k = j THEN n ELSE 0)

\* In u gil is where it was in b, and nothing has another price than in b.
Steady(u, b) ==
  /\ b[0].kind = Gil => u[0].kind = Gil
  /\ \A s \in Slots : u[s].price = 0 \/ u[s].price = b[s].price

LEMMA SlotsFinite == IsFiniteSet(Slots)
  <1>1. 0 \in Int /\ BagSize \in Int
    BY ExchangeAssumption
  <1>2. IsFiniteSet(0..BagSize)
    BY <1>1, FS_Interval
  <1> QED BY <1>2 DEF Slots

LEMMA InBagSum ==
  ASSUME NEW b, NEW k
  PROVE  InBag(b, k) = SumFunctionOnSet(Amount(b, k), Slots)
  BY DEF InBag, Amount, SumFunction

LEMMA AmountFacts ==
  ASSUME NEW b \in Bag, NEW k, NEW s \in Slots
  PROVE  /\ Amount(b, k)[s] = IF b[s].kind = k THEN b[s].qty ELSE 0
         /\ Amount(b, k)[s] \in Nat
  BY BagFacts DEF Amount

LEMMA InBagType ==
  ASSUME NEW b \in Bag, NEW k
  PROVE  InBag(b, k) \in Int
  <1>1. \A s \in Slots : Amount(b, k)[s] \in Int
    BY AmountFacts
  <1> QED BY <1>1, InBagSum, SlotsFinite, SumType

\* The contents of one slot change.
LEMMA SlotChanges ==
  ASSUME NEW b \in Bag, NEW u \in Bag, NEW s \in Slots, \A x \in Slots : x # s => u[x] = b[x], NEW k
  PROVE  InBag(u, k) = InBag(b, k) - Amount(b, k)[s] + Amount(u, k)[s]
  <1>1. PICK f, g : f = Amount(b, k) /\ g = Amount(u, k)
    OBVIOUS
  <1>2. \A x \in Slots : f[x] \in Int /\ g[x] \in Int
    BY <1>1, AmountFacts
  <1>3. \A x \in Slots : x # s => g[x] = f[x]
    BY <1>1, AmountFacts
  <1>4. SumFunctionOnSet(g, Slots) = SumFunctionOnSet(f, Slots) - f[s] + g[s]
    BY <1>2, <1>3, SlotsFinite, SumChanges
  <1> QED BY <1>1, <1>4, InBagSum

\* The same items, of which something else is reserved or asked.
LEMMA SameItems ==
  ASSUME NEW b \in Bag, NEW u, \A s \in Slots : u[s].kind = b[s].kind /\ u[s].qty = b[s].qty, NEW k
  PROVE  InBag(u, k) = InBag(b, k)
  <1>1. PICK f, g : f = Amount(b, k) /\ g = Amount(u, k)
    OBVIOUS
  <1>2. \A x \in Slots : g[x] = f[x]
    BY <1>1 DEF Amount
  <1>3. SumFunctionOnSet(g, Slots) = SumFunctionOnSet(f, Slots)
    BY <1>2, SlotsFinite, SumSame
  <1> QED BY <1>1, <1>3, InBagSum

\* What UpdateItem leaves in its slot, and in the others.
LEMMA UpdateSlot ==
  ASSUME NEW b \in Bag, NEW s \in Slots, NEW q \in Int
  PROVE  LET u == UpdateItem(b, s, q) IN
         /\ \A x \in Slots : x # s => u[x] = b[x]
         /\ u[s].kind = b[s].kind \/ u[s].qty = 0
         /\ b[s].kind = Gil => u[s].kind = Gil
         /\ u[s].price = b[s].price \/ u[s].price = 0
         /\ q >= 0 => u[s].qty <= b[s].qty + q
         /\ q <= 0 /\ b[s] # Empty /\ 0 - q <= Unreserved(b[s]) => u[s].qty = b[s].qty + q
  <1> DEFINE left == AtMost(b[s].qty + q, Stack[b[s].kind])
             u == UpdateItem(b, s, q)
             j == [b[s] EXCEPT !.qty = left]
  <1>1. b[s].qty \in Nat /\ b[s].reserve \in Nat /\ DOMAIN b = Slots
    BY BagFacts
  <1>2. CASE b[s] = Empty \/ Unreserved(b[s]) + q < 0
    <2>1. u = b
      BY <1>2 DEF UpdateItem
    <2>2. ~(q <= 0 /\ b[s] # Empty /\ 0 - q <= Unreserved(b[s]))
      BY <1>1, <1>2 DEF Unreserved
    <2> HIDE DEF u
    <2>3. q >= 0 => u[s].qty <= b[s].qty + q
      BY <1>1, <2>1
    <2> QED BY <2>1, <2>2, <2>3 DEF u
  <1>3. CASE ~(b[s] = Empty \/ Unreserved(b[s]) + q < 0)
    <2>1. /\ b[s] \in Item /\ b[s].qty <= Stack[b[s].kind] /\ Stack[b[s].kind] \in Nat
          /\ b[s].kind \in Ids
      BY <1>3, BagFacts, ItemFacts DEF Ids
    <2>2. left \in Int /\ left <= b[s].qty + q /\ (q <= 0 => left = b[s].qty + q)
      BY <1>1, <2>1 DEF AtMost
    <2>3. u = [b EXCEPT ![s] = IF left = 0 /\ b[s].kind # Gil THEN Empty ELSE j]
      BY <1>3 DEF UpdateItem
    <2>4. j.kind = b[s].kind /\ j.qty = left /\ j.price = b[s].price
      BY <2>1 DEF Item
    <2>5. Empty.qty = 0 /\ Empty.price = 0
      BY EmptyFacts
    <2>6. u[s] = (IF left = 0 /\ b[s].kind # Gil THEN Empty ELSE j) /\ \A x \in Slots : x # s => u[x] = b[x]
      BY <1>1, <2>3
    <2> HIDE DEF u, j, left
    <2>7. u[s].qty = left
      BY <2>4, <2>5, <2>6
    <2>8. /\ u[s].kind = b[s].kind \/ u[s].qty = 0
          /\ b[s].kind = Gil => u[s].kind = Gil
          /\ u[s].price = b[s].price \/ u[s].price = 0
      BY <2>4, <2>5, <2>6
    <2> QED BY <2>2, <2>6, <2>7, <2>8 DEF u
  <1> QED BY <1>2, <1>3

LEMMA UpdateSteady ==
  ASSUME NEW b \in Bag, NEW s \in Slots, NEW q \in Int
  PROVE  Steady(UpdateItem(b, s, q), b)
  BY UpdateSlot, Zero DEF Steady

LEMMA SteadyAgain ==
  ASSUME NEW a, NEW b, NEW c, Steady(a, b), Steady(b, c)
  PROVE  Steady(a, c)
  BY DEF Steady

\* UpdateItem adds what it is asked to, or less.
LEMMA AddsUnits ==
  ASSUME NEW b \in Bag, NEW s \in Slots, NEW n \in Nat
  PROVE  Has(UpdateItem(b, s, n), b, b[s].kind, n)
  <1>1. PICK u : u = UpdateItem(b, s, n)
    OBVIOUS
  <1>2. /\ u \in Bag /\ \A x \in Slots : x # s => u[x] = b[x]
        /\ u[s].kind = b[s].kind \/ u[s].qty = 0
        /\ u[s].qty <= b[s].qty + n
    <2>1. n \in Int /\ n >= 0
      OBVIOUS
    <2> QED BY <1>1, <2>1, UpdateBag, UpdateSlot
  <1>3. ASSUME NEW k \in Ids
        PROVE  InBag(u, k) <= InBag(b, k) + (IF k = b[s].kind THEN n ELSE 0)
    <2>1. PICK x, y : x = Amount(b, k)[s] /\ y = Amount(u, k)[s]
      OBVIOUS
    <2>2. /\ x = IF b[s].kind = k THEN b[s].qty ELSE 0
          /\ y = IF u[s].kind = k THEN u[s].qty ELSE 0
          /\ b[s].qty \in Nat /\ u[s].qty \in Nat
      BY <1>2, <2>1, AmountFacts, BagFacts
    <2>3. x \in Int /\ y \in Int /\ y <= x + (IF k = b[s].kind THEN n ELSE 0)
      BY <1>2, <2>2
    <2>4. PICK p, r : p = InBag(b, k) /\ r = InBag(u, k)
      OBVIOUS
    <2>5. p \in Int /\ r \in Int /\ r = p - x + y
      BY <1>2, <2>1, <2>4, InBagType, SlotChanges
    <2> QED BY <2>3, <2>4, <2>5
  <1> QED BY <1>1, <1>3 DEF Has

\* What is not reserved can be taken, and is.
LEMMA TakesUnits ==
  ASSUME NEW b \in Bag, NEW s \in Slots, NEW n \in Nat, b[s] # Empty, n <= Unreserved(b[s])
  PROVE  Has(UpdateItem(b, s, 0 - n), b, b[s].kind, 0 - n)
  <1>1. PICK u : u = UpdateItem(b, s, 0 - n)
    OBVIOUS
  <1>2. /\ u \in Bag /\ \A x \in Slots : x # s => u[x] = b[x]
        /\ u[s].kind = b[s].kind \/ u[s].qty = 0
        /\ u[s].qty = b[s].qty - n
    <2>1. PICK q \in Int : q = 0 - n
      OBVIOUS
    <2>2. q <= 0 /\ 0 - q <= Unreserved(b[s]) /\ b[s].qty \in Nat
      BY <2>1, BagFacts
    <2>3. /\ u \in Bag /\ \A x \in Slots : x # s => u[x] = b[x]
          /\ u[s].kind = b[s].kind \/ u[s].qty = 0
          /\ u[s].qty = b[s].qty + q
      BY <1>1, <2>1, <2>2, UpdateBag, UpdateSlot
    <2> QED BY <2>1, <2>2, <2>3
  <1>3. ASSUME NEW k \in Ids
        PROVE  InBag(u, k) <= InBag(b, k) + (IF k = b[s].kind THEN 0 - n ELSE 0)
    <2>1. PICK x, y : x = Amount(b, k)[s] /\ y = Amount(u, k)[s]
      OBVIOUS
    <2>2. /\ x = IF b[s].kind = k THEN b[s].qty ELSE 0
          /\ y = IF u[s].kind = k THEN u[s].qty ELSE 0
          /\ b[s].qty \in Nat /\ u[s].qty \in Nat
      BY <1>2, <2>1, AmountFacts, BagFacts
    <2>3. x \in Int /\ y \in Int /\ y <= x + (IF k = b[s].kind THEN 0 - n ELSE 0)
      BY <1>2, <2>2
    <2>4. PICK p, r : p = InBag(b, k) /\ r = InBag(u, k)
      OBVIOUS
    <2>5. p \in Int /\ r \in Int /\ r = p - x + y
      BY <1>2, <2>1, <2>4, InBagType, SlotChanges
    <2> QED BY <2>3, <2>4, <2>5
  <1> QED BY <1>1, <1>3 DEF Has

\* AddItem brings no more than it is asked to, and touches neither gil, unless
\* it is gil that it brings, nor what is in a slot.
LEMMA AddsItem ==
  ASSUME NEW b \in Bag, b[0].kind = Gil, NEW k \in Ids, NEW q \in Nat, q <= Stack[k],
         NEW u, u = AddItem(b, k, q) \/ u = AddItemById(b, k, q)
  PROVE  /\ Has(u, b, k, q) /\ Steady(u, b)
         /\ \A x \in Slots : b[x] # Empty /\ (k # Gil \/ x # 0) => u[x] = b[x]
  <1> DEFINE n == Min(FreeSlots(b))
             i == [kind |-> k, qty |-> q, reserve |-> 0, price |-> 0]
             v == [b EXCEPT ![n] = i]
  <1>1. Has(b, b, k, q) /\ Steady(b, b)
    <2>1. ASSUME NEW x \in Ids  PROVE  InBag(b, x) <= InBag(b, x) + (IF x = k THEN q ELSE 0)
      <3>1. PICK p \in Int : p = InBag(b, x)
        BY InBagType
      <3>2. p <= p + (IF x = k THEN q ELSE 0)
        OBVIOUS
      <3> QED BY <3>1, <3>2
    <2> QED BY <2>1 DEF Has, Steady
  <1>2. CASE k = Gil /\ u = UpdateItem(b, 0, q)
    <2>1. Has(u, b, k, q)
      BY <1>2, Zero, AddsUnits
    <2>2. 0 \in Slots /\ q \in Int
      BY Zero
    <2>3. Steady(u, b) /\ \A x \in Slots : x # 0 => u[x] = b[x]
      BY <1>2, <2>2, UpdateSteady, UpdateSlot
    <2> QED BY <1>2, <2>1, <2>3
  <1>3. CASE u = v /\ FreeSlots(b) # {} /\ k # Gil
    <2>1. n \in 1..BagSize /\ b[n] = Empty
      BY <1>3, FreeSlot
    <2>2. n \in Slots /\ n # 0
      BY <2>1, ExchangeAssumption DEF Slots
    <2>3. u \in Bag
      BY <1>3, AddBag DEF Ids, AddItem, AddItemById
    <2>4. i.kind = k /\ i.qty = q /\ i.price = 0
      OBVIOUS
    <2> HIDE DEF n, i
    <2>5. u[n] = i /\ \A x \in Slots : x # n => u[x] = b[x]
      BY <1>3, <2>2, BagFacts
    <2>6. ASSUME NEW x \in Ids  PROVE  InBag(u, x) <= InBag(b, x) + (IF x = k THEN q ELSE 0)
      <3>1. Amount(b, x)[n] = 0
        BY <2>1, <2>2, AmountFacts, EmptyFacts
      <3>2. Amount(u, x)[n] = IF x = k THEN q ELSE 0
        BY <2>2, <2>3, <2>4, <2>5, AmountFacts
      <3>3. InBag(u, x) = InBag(b, x) - Amount(b, x)[n] + Amount(u, x)[n]
        BY <2>2, <2>3, <2>5, SlotChanges
      <3>4. InBag(b, x) \in Int
        BY InBagType
      <3> QED BY <3>1, <3>2, <3>3, <3>4
    <2>7. Has(u, b, k, q)
      BY <2>6 DEF Has
    <2>8. Steady(u, b)
      BY <2>2, <2>4, <2>5, Zero DEF Steady
    <2> QED BY <2>1, <2>5, <2>7, <2>8
  <1>4. u = b \/ (k = Gil /\ u = UpdateItem(b, 0, q)) \/ (u = v /\ FreeSlots(b) # {} /\ k # Gil)
    BY DEF AddItem, AddItemById
  <1> HIDE DEF v
  <1> QED BY <1>1, <1>2, <1>3, <1>4

-----------------------------------------------------------------------------
(***************************************************************************)
(* What a trade and a synthesis do to the contents of bags.                *)
(***************************************************************************)
\* Between them, the bags of x contain no more than those of y.
Together(x, y) ==
  \A k \in Ids : InBag(x.from, k) + InBag(x.to, k) <= InBag(y.from, k) + InBag(y.to, k)

\* What the receiver gets of slot s the giver loses.
LEMMA PassedTogether ==
  ASSUME NEW b, b.from \in Bag, b.to \in Bag, b.to[0].kind = Gil, NEW s \in Slots \cup {NoOffer}
  PROVE  /\ Together(Passed(b, s), b)
         /\ Steady(Passed(b, s).from, b.from) /\ Steady(Passed(b, s).to, b.to)
  <1>1. PICK from \in Bag, to \in Bag : from = b.from /\ to = b.to
    OBVIOUS
  <1>2. ASSUME NEW c, c.from = from, c.to = to
        PROVE  Together(c, b) /\ Steady(c.from, from) /\ Steady(c.to, to)
    <2>1. ASSUME NEW k \in Ids  PROVE  InBag(c.from, k) + InBag(c.to, k) <= InBag(b.from, k) + InBag(b.to, k)
      <3>1. InBag(from, k) \in Int /\ InBag(to, k) \in Int
        BY InBagType
      <3>2. InBag(from, k) + InBag(to, k) <= InBag(from, k) + InBag(to, k)
        BY <3>1
      <3> QED BY <1>1, <1>2, <3>2
    <2> QED BY <1>2, <2>1 DEF Together, Steady
  <1>3. CASE s = NoOffer
    <2>1. Passed(b, s) = b
      BY <1>3 DEF Passed
    <2> QED BY <1>1, <1>2, <2>1
  <1>4. CASE s # NoOffer
    <2>1. s \in Slots
      BY <1>4
    <2>2. PICK k, n : k = from[s].kind /\ n = from[s].reserve
      OBVIOUS
    <2>3. PICK r : r = [from EXCEPT ![s].reserve = 0]
      OBVIOUS
    <2>4. PICK c : c = Passed(b, s)
      OBVIOUS
    <2>5. c.to = GivenItem(b, s) /\ c.from = UpdateItem(r, s, 0 - n)
      BY <1>1, <1>4, <2>2, <2>3, <2>4 DEF Passed
    <2>6. CASE from[s] = Empty
      <3>1. n = 0
        BY <2>2, <2>6, EmptyFacts
      <3>2. GivenItem(b, s) = to
        BY <1>1, <2>2, <3>1 DEF GivenItem, AddItemById
      <3>3. [Empty EXCEPT !.reserve = 0] = Empty
        BY DEF Empty
      <3>4. r = from
        <4>1. r = [from EXCEPT ![s] = Empty]
          BY <2>3, <2>6, <3>3
        <4>2. from \in [Slots -> Good \cup {Empty}]
          BY DEF Bag
        <4> QED BY <2>1, <2>6, <4>1, <4>2
      <3>5. UpdateItem(r, s, 0 - n) = from
        BY <2>6, <3>4 DEF UpdateItem
      <3> QED BY <1>1, <1>2, <2>4, <2>5, <3>2, <3>5
    <2>7. CASE from[s] # Empty
      <3>1. PICK j \in Good : j = from[s]
        BY <2>1, <2>7, BagFacts
      <3>2. PICK i : i = [j EXCEPT !.reserve = 0]
        OBVIOUS
      <3>3. /\ j.kind = k /\ j.reserve = n /\ k \in Ids /\ n \in Nat /\ j.qty \in Nat
            /\ n <= j.qty /\ j.qty <= Stack[k] /\ Stack[k] \in Nat
        BY <2>2, <3>1, ItemFacts DEF Ids
      <3>4. /\ i \in Good /\ i # Empty /\ i.reserve = 0
            /\ i.kind = j.kind /\ i.qty = j.qty /\ i.price = j.price
        <4>1. 0 \in Nat /\ 0 <= j.qty
          BY <3>3
        <4> QED BY <3>2, <4>1, ReserveItem
      <3>5. r \in Bag /\ r[s] = i /\ \A x \in Slots : x # s => r[x] = from[x]
        <4>1. i.kind = from[s].kind
          BY <3>1, <3>4
        <4>2. /\ [from EXCEPT ![s] = i] \in Bag /\ [from EXCEPT ![s] = i][s] = i
              /\ \A x \in Slots : x # s => [from EXCEPT ![s] = i][x] = from[x]
          BY <2>1, <3>4, <4>1, SameKindBag
        <4>3. r = [from EXCEPT ![s] = i]
          BY <2>3, <3>1, <3>2
        <4> QED BY <4>2, <4>3
      <3>6. \A x \in Slots : r[x].kind = from[x].kind /\ r[x].qty = from[x].qty /\ r[x].price = from[x].price
        BY <3>1, <3>4, <3>5
      <3>7. Has(c.from, r, k, 0 - n) /\ Steady(c.from, r)
        <4>1. r[s] # Empty /\ n <= Unreserved(r[s]) /\ r[s].kind = k
          BY <3>3, <3>4, <3>5 DEF Unreserved
        <4>2. 0 - n \in Int
          BY <3>3
        <4> QED BY <2>1, <2>5, <3>3, <3>5, <4>1, <4>2, TakesUnits, UpdateSteady
      <3>8. Has(c.to, to, k, n) /\ Steady(c.to, to)
        <4>1. \/ c.to = AddItem(to, k, n) \/ c.to = AddItemById(to, k, n)
          <5>1. \/ c.to = AddItem(to, k, j.qty) /\ Stack[k] = 1 /\ n = 1
                \/ c.to = AddItemById(to, k, n)
            BY <1>1, <2>2, <2>5, <3>1 DEF GivenItem
          <5>2. Stack[k] = 1 /\ n = 1 => j.qty = n
            BY <3>3
          <5> QED BY <5>1, <5>2
        <4>2. to[0].kind = Gil /\ n <= Stack[k]
          BY <1>1, <3>3
        <4> QED BY <3>3, <4>1, <4>2, AddsItem
      <3>9. Steady(c.from, from)
        <4>1. Steady(r, from)
          BY <3>6, Zero DEF Steady
        <4> QED BY <3>7, <4>1, SteadyAgain
      <3>10. Together(c, b)
        <4>1. ASSUME NEW x \in Ids
              PROVE  InBag(c.from, x) + InBag(c.to, x) <= InBag(b.from, x) + InBag(b.to, x)
          <5>1. /\ InBag(c.from, x) <= InBag(r, x) + (IF x = k THEN 0 - n ELSE 0)
                /\ InBag(c.to, x) <= InBag(to, x) + (IF x = k THEN n ELSE 0)
            BY <3>7, <3>8 DEF Has
          <5>2. InBag(r, x) = InBag(from, x)
            BY <3>6, SameItems
          <5>3. c.from \in Bag /\ c.to \in Bag
            BY <2>1, <2>4, PassedBag
          <5>4. PICK p, q, v, w : /\ p = InBag(c.from, x) /\ q = InBag(c.to, x)
                                  /\ v = InBag(from, x) /\ w = InBag(to, x)
            OBVIOUS
          <5>5. p \in Int /\ q \in Int /\ v \in Int /\ w \in Int
            BY <5>3, <5>4, InBagType
          <5>6. p + q <= v + w
            BY <3>3, <5>1, <5>2, <5>4, <5>5
          <5> QED BY <1>1, <5>4, <5>6
        <4> QED BY <4>1 DEF Together
      <3> QED BY <1>1, <2>4, <3>8, <3>9, <3>10
    <2> QED BY <2>6, <2>7
  <1> QED BY <1>3, <1>4

LEMMA TradeTogether ==
  ASSUME NEW from \in Bag, NEW to \in Bag, to[0].kind = Gil,
         NEW o \in [1..TradeSlots -> Slots \cup {NoOffer}], NEW d, d = DoTrade(from, to, o)
  PROVE  /\ \A k \in Ids : InBag(d.from, k) + InBag(d.to, k) <= InBag(from, k) + InBag(to, k)
         /\ Steady(d.from, from) /\ Steady(d.to, to)
  <1> DEFINE f == Stages(from, to, o)
             x == [from |-> from, to |-> to]
             I == {t \in 0..TradeSlots :
                     /\ f[t].from \in Bag /\ f[t].to \in Bag
                     /\ Together(f[t], x) /\ Steady(f[t].from, from) /\ Steady(f[t].to, to)}
  <1> HIDE DEF f
  <1>1. /\ TradeSlots \in Nat /\ DoTrade(from, to, o) = f[TradeSlots]
        /\ f[0] = x
        /\ \A t \in 1..TradeSlots : f[t] = Passed(f[t - 1], o[t])
    BY StagesOfTrade DEF f
  <1>2. 0 \in I
    <2>1. x.from = from /\ x.to = to
      OBVIOUS
    <2>2. ASSUME NEW k \in Ids  PROVE  InBag(x.from, k) + InBag(x.to, k) <= InBag(x.from, k) + InBag(x.to, k)
      <3>1. InBag(from, k) \in Int /\ InBag(to, k) \in Int
        BY InBagType
      <3> QED BY <2>1, <3>1
    <2> HIDE DEF x
    <2>3. Together(x, x) /\ Steady(from, from) /\ Steady(to, to)
      BY <2>2 DEF Together, Steady
    <2> QED BY <1>1, <2>1, <2>3
  <1>3. ASSUME NEW t \in 1..TradeSlots, t - 1 \in I  PROVE  t \in I
    <2>1. PICK b : b = f[t - 1]
      OBVIOUS
    <2>2. PICK c : c = f[t]
      OBVIOUS
    <2> HIDE DEF x
    <2>3. /\ b.from \in Bag /\ b.to \in Bag /\ Together(b, x) /\ Steady(b.from, from) /\ Steady(b.to, to)
          /\ c = Passed(b, o[t]) /\ t \in 0..TradeSlots /\ o[t] \in Slots \cup {NoOffer}
      BY <1>1, <1>3, <2>1, <2>2
    <2>4. b.to[0].kind = Gil
      BY <2>3 DEF Steady
    <2>5. c.from \in Bag /\ c.to \in Bag
      BY <2>3, PassedBag
    <2>6. Together(c, b) /\ Steady(c.from, b.from) /\ Steady(c.to, b.to)
      BY <2>3, <2>4, PassedTogether
    <2>7. Together(c, x)
      <3>1. ASSUME NEW k \in Ids  PROVE  InBag(c.from, k) + InBag(c.to, k) <= InBag(x.from, k) + InBag(x.to, k)
        <4>1. PICK p, q, r : /\ p = InBag(c.from, k) + InBag(c.to, k) /\ q = InBag(b.from, k) + InBag(b.to, k)
                             /\ r = InBag(x.from, k) + InBag(x.to, k)
          OBVIOUS
        <4>2. p <= q /\ q <= r
          BY <2>3, <2>6, <4>1 DEF Together
        <4>3. p \in Int /\ q \in Int /\ r \in Int
          <5>1. x.from \in Bag /\ x.to \in Bag
            BY DEF x
          <5>2. /\ InBag(c.from, k) \in Int /\ InBag(c.to, k) \in Int /\ InBag(b.from, k) \in Int
                /\ InBag(b.to, k) \in Int /\ InBag(x.from, k) \in Int /\ InBag(x.to, k) \in Int
            BY <2>3, <2>5, <5>1, InBagType
          <5> QED BY <4>1, <5>2
        <4> QED BY <4>1, <4>2, <4>3
      <3> QED BY <3>1 DEF Together
    <2>8. Steady(c.from, from) /\ Steady(c.to, to)
      BY <2>3, <2>6, SteadyAgain
    <2> QED BY <2>2, <2>3, <2>5, <2>7, <2>8
  <1>4. TradeSlots \in I
    <2> HIDE DEF I
    <2> QED BY <1>1, <1>2, <1>3, Steps
  <1>5. Together(d, x) /\ Steady(d.from, from) /\ Steady(d.to, to)
    BY <1>1, <1>4
  <1>6. x.from = from /\ x.to = to
    OBVIOUS
  <1> HIDE DEF x
  <1> QED BY <1>5, <1>6 DEF Together

\* The reserve of a bag's items is given up, and nothing else.
LEMMA UnreserveSame ==
  ASSUME NEW b \in Bag, NEW o
  PROVE  /\ \A k : InBag(Unreserve(b, o), k) = InBag(b, k)
         /\ Steady(Unreserve(b, o), b)
  <1>1. PICK u : u = Unreserve(b, o)
    OBVIOUS
  <1>2. ASSUME NEW s \in Slots
        PROVE  u[s].kind = b[s].kind /\ u[s].qty = b[s].qty /\ u[s].price = b[s].price
    <2>1. u[s] = IF s \in Range(o) THEN [b[s] EXCEPT !.reserve = 0] ELSE b[s]
      BY <1>1 DEF Unreserve
    <2>2. PICK i \in Item \cup {Empty} : i = b[s]
      <3>1. b[s] \in Good \cup {Empty}
        BY BagFacts
      <3> QED BY <3>1, ItemFacts
    <2>3. PICK j : j = [i EXCEPT !.reserve = 0]
      OBVIOUS
    <2>4. j.kind = i.kind /\ j.qty = i.qty /\ j.price = i.price
      BY <2>2, <2>3 DEF Item, Empty
    <2> QED BY <2>1, <2>2, <2>3, <2>4
  <1>3. \A k : InBag(u, k) = InBag(b, k)
    BY <1>2, SameItems
  <1>4. Steady(u, b)
    BY <1>2, Zero DEF Steady
  <1> QED BY <1>1, <1>3, <1>4

\* One slot of a bag in which a synthesis ends.
LEMMA SpentSlot ==
  ASSUME NEW b \in Bag, NEW m, Crafted(m, b), NEW lost \in SUBSET DOMAIN m, NEW s \in Slots
  PROVE  LET i == Spent(b, m, lost)[s] IN
         /\ i.qty = b[s].qty - Uses([n \in lost |-> m[n]], s)
         /\ i.kind = b[s].kind \/ i.qty = 0
         /\ b[s].kind = Gil => i.kind = Gil
         /\ i.price = b[s].price \/ i.price = 0
  <1>1. PICK taken : taken = Uses([n \in lost |-> m[n]], s)
    OBVIOUS
  <1>2. PICK r : r = [b EXCEPT ![s].reserve = @ - Uses(m, s)]
    OBVIOUS
  <1>3. /\ Uses(m, s) \in Nat /\ (Uses(m, s) > 0 <=> s \in Range(m)) /\ taken \in Nat
        /\ taken <= Uses(m, s) /\ b[s].reserve = Uses(m, s) /\ b[s].qty \in Nat
    <2>1. IsFiniteSet(DOMAIN m) /\ b[s].reserve = Uses(m, s)
      BY RecipeFacts DEF Crafted
    <2> QED BY <1>1, <2>1, UsesFacts, BagFacts
  <1>4. PICK v : v = Spent(b, m, lost)[s]
    OBVIOUS
  <1>5. v = IF s \in Range(m) THEN UpdateItem(r, s, 0 - taken)[s] ELSE b[s]
    BY <1>1, <1>2, <1>4 DEF Spent
  <1>6. CASE s \notin Range(m)
    <2>1. taken = 0 /\ v = b[s]
      BY <1>3, <1>5, <1>6
    <2> QED BY <1>1, <1>3, <1>4, <2>1
  <1>7. CASE s \in Range(m)
    <2>1. b[s] # Empty
      BY <1>3, <1>7, EmptyFacts
    <2>2. PICK j \in Good : j = b[s]
      BY <2>1, BagFacts
    <2>3. PICK i : i = [j EXCEPT !.reserve = 0]
      OBVIOUS
    <2>4. /\ i \in Good /\ i # Empty /\ i.reserve = 0
          /\ i.kind = j.kind /\ i.qty = j.qty /\ i.price = j.price
      <3>1. 0 \in Nat /\ 0 <= j.qty
        BY ItemFacts
      <3> QED BY <2>3, <3>1, ReserveItem
    <2>5. r \in Bag /\ r[s] = i
      <3>1. j.reserve - Uses(m, s) = 0
        BY <1>3, <2>2
      <3>2. r = [b EXCEPT ![s] = i]
        BY <1>2, <2>2, <2>3, <3>1
      <3>3. [b EXCEPT ![s] = i] \in Bag /\ [b EXCEPT ![s] = i][s] = i
        BY <2>2, <2>4, SameKindBag
      <3> QED BY <3>2, <3>3
    <2>6. PICK q \in Int : q = 0 - taken
      BY <1>3
    <2>7. q <= 0 /\ 0 - q <= Unreserved(r[s]) /\ r[s] # Empty
      <3>1. j.reserve <= j.qty /\ j.qty \in Nat
        BY ItemFacts
      <3>2. Unreserved(i) = j.qty
        BY <2>4, <3>1 DEF Unreserved
      <3> QED BY <1>3, <2>2, <2>4, <2>5, <2>6, <3>1, <3>2
    <2>8. PICK u : u = UpdateItem(r, s, q)
      OBVIOUS
    <2>9. /\ u[s].kind = i.kind \/ u[s].qty = 0
          /\ i.kind = Gil => u[s].kind = Gil
          /\ u[s].price = i.price \/ u[s].price = 0
          /\ u[s].qty = i.qty + q
      BY <2>5, <2>7, <2>8, UpdateSlot
    <2>10. v = u[s] /\ i.qty + q = b[s].qty - taken
      BY <1>3, <1>5, <1>7, <2>2, <2>4, <2>6, <2>8
    <2> QED BY <1>1, <1>4, <2>2, <2>4, <2>9, <2>10
  <1> QED BY <1>6, <1>7

LEMMA SpentSteady ==
  ASSUME NEW b \in Bag, NEW m, Crafted(m, b), NEW lost \in SUBSET DOMAIN m
  PROVE  Steady(Spent(b, m, lost), b)
  <1>1. PICK u : u = Spent(b, m, lost)
    OBVIOUS
  <1>2. ASSUME NEW s \in Slots
        PROVE  (b[s].kind = Gil => u[s].kind = Gil) /\ (u[s].price = b[s].price \/ u[s].price = 0)
    BY <1>1, SpentSlot
  <1> QED BY <1>1, <1>2, Zero DEF Steady

\* One more ingredient is used up.
LEMMA OneMore ==
  ASSUME NEW L, IsFiniteSet(L), NEW i \in L, NEW X, X \in SUBSET L
  PROVE  Cardinality(X) = Cardinality(X \ {i}) + (IF i \in X THEN 1 ELSE 0)
         /\ Cardinality(X \ {i}) \in Nat
  <1>1. IsFiniteSet(X)
    BY FS_Subset
  <1>2. Cardinality(X) \in Nat /\ IsFiniteSet(X \ {i}) /\ Cardinality(X \ {i}) \in Nat
    BY <1>1, FS_CardinalityType, FS_RemoveElement, FS_Subset
  <1>3. CASE i \in X
    <2>1. Cardinality(X \ {i}) = Cardinality(X) - 1
      BY <1>1, <1>3, FS_RemoveElement
    <2> QED BY <1>2, <1>3, <2>1
  <1>4. CASE i \notin X
    <2>1. X \ {i} = X
      BY <1>4
    <2> QED BY <1>2, <1>4, <2>1
  <1> QED BY <1>3, <1>4

\* Of what is lost as many units leave the bag as UsedUp counts.
LEMMA SpentUnits ==
  ASSUME NEW b \in Bag, NEW m, Crafted(m, b), NEW lost \in SUBSET DOMAIN m, NEW k \in Ids
  PROVE  InBag(Spent(b, m, lost), k) = InBag(b, k) - Cardinality({i \in lost : b[m[i]].kind = k})
  <1> DEFINE Lost(L) == {i \in L : b[m[i]].kind = k}
             P == {L \in SUBSET lost : InBag(Spent(b, m, L), k) = InBag(b, k) - Cardinality(Lost(L))}
  <1>0. IsFiniteSet(DOMAIN m) /\ IsFiniteSet(lost)
    BY RecipeFacts, FS_Subset DEF Crafted
  <1>1. ASSUME NEW L \in SUBSET lost, NEW s \in Slots
        PROVE  /\ Spent(b, m, L) \in Bag
               /\ Amount(Spent(b, m, L), k)[s]
                    = IF b[s].kind = k THEN b[s].qty - Uses([n \in L |-> m[n]], s) ELSE 0
    <2>1. L \in SUBSET DOMAIN m
      OBVIOUS
    <2>2. PICK u : u = Spent(b, m, L)
      OBVIOUS
    <2>3. u \in Bag
      BY <2>1, <2>2, SpentBag
    <2>4. /\ u[s].qty = b[s].qty - Uses([n \in L |-> m[n]], s)
          /\ u[s].kind = b[s].kind \/ u[s].qty = 0
      BY <2>1, <2>2, SpentSlot
    <2>5. Amount(u, k)[s] = IF u[s].kind = k THEN u[s].qty ELSE 0
      BY <2>3, AmountFacts
    <2> QED BY <2>2, <2>3, <2>4, <2>5
  <1>2. ASSUME NEW L \in SUBSET lost, \A U \in SUBSET L : U # L => U \in P
        PROVE  L \in P
    <2>1. CASE L = {}
      <3>1. PICK u : u = Spent(b, m, {})
        OBVIOUS
      <3>2. ASSUME NEW s \in Slots  PROVE  Amount(u, k)[s] = Amount(b, k)[s]
        <4>1. Uses([n \in {} |-> m[n]], s) = 0
          <5>1. {i \in DOMAIN [n \in {} |-> m[n]] : [n \in {} |-> m[n]][i] = s} = {}
            OBVIOUS
          <5> QED BY <5>1, FS_EmptySet DEF Uses
        <4>2. Amount(u, k)[s] = IF b[s].kind = k THEN b[s].qty - 0 ELSE 0
          BY <1>1, <2>1, <3>1, <4>1
        <4>3. b[s].qty \in Nat
          BY BagFacts
        <4> QED BY <4>2, <4>3, AmountFacts
      <3>3. InBag(u, k) = InBag(b, k)
        <4>1. PICK f, g : f = Amount(b, k) /\ g = Amount(u, k)
          OBVIOUS
        <4>2. SumFunctionOnSet(g, Slots) = SumFunctionOnSet(f, Slots)
          BY <3>2, <4>1, SlotsFinite, SumSame
        <4> QED BY <4>1, <4>2, InBagSum
      <3>4. Cardinality(Lost({})) = 0
        <4>1. Lost({}) = {}
          OBVIOUS
        <4> HIDE DEF Lost
        <4> QED BY <4>1, FS_EmptySet
      <3>5. InBag(b, k) \in Int
        BY InBagType
      <3> HIDE DEF Lost
      <3> QED BY <2>1, <3>1, <3>3, <3>4, <3>5
    <2>2. CASE L # {}
      <3>1. PICK i \in L : TRUE
        BY <2>2
      <3>2. PICK N : N = L \ {i}
        OBVIOUS
      <3>3. PICK u, v, s : u = Spent(b, m, L) /\ v = Spent(b, m, N) /\ s = m[i]
        OBVIOUS
      <3>4. N \in SUBSET lost /\ N \in P /\ IsFiniteSet(L)
        BY <1>0, <1>2, <3>1, <3>2, FS_Subset
      <3>5. InBag(v, k) = InBag(b, k) - Cardinality(Lost(N))
        BY <3>3, <3>4
      <3>6. s \in Slots /\ i \in DOMAIN m
        <4>1. m \in [DOMAIN Ingredients -> 1..BagSize] /\ i \in DOMAIN m
          BY <3>1 DEF Crafted
        <4> QED BY <3>3, <4>1, ExchangeAssumption DEF Slots
      <3>7. u \in Bag /\ v \in Bag
        BY <1>1, <3>3, <3>4, <3>6
      <3>8. ASSUME NEW x \in Slots
            PROVE  /\ Uses([n \in L |-> m[n]], x) = Uses([n \in N |-> m[n]], x) + (IF x = s THEN 1 ELSE 0)
                   /\ Uses([n \in N |-> m[n]], x) \in Nat
        <4>1. PICK X : X = {n \in L : m[n] = x}
          OBVIOUS
        <4>2. {n \in DOMAIN [j \in L |-> m[j]] : [j \in L |-> m[j]][n] = x} = X
          BY <4>1
        <4>3. {n \in DOMAIN [j \in N |-> m[j]] : [j \in N |-> m[j]][n] = x} = X \ {i}
          BY <3>2, <4>1
        <4>4. X \in SUBSET L /\ (i \in X <=> x = s)
          BY <3>1, <3>3, <4>1
        <4>5. Cardinality(X) = Cardinality(X \ {i}) + (IF i \in X THEN 1 ELSE 0)
              /\ Cardinality(X \ {i}) \in Nat
          BY <3>1, <3>4, <4>4, OneMore
        <4> QED BY <4>2, <4>3, <4>4, <4>5 DEF Uses
      <3>9. ASSUME NEW x \in Slots
            PROVE  Amount(u, k)[x] = Amount(v, k)[x] - (IF x = s /\ b[s].kind = k THEN 1 ELSE 0)
        <4>1. /\ Amount(u, k)[x] = IF b[x].kind = k THEN b[x].qty - Uses([n \in L |-> m[n]], x) ELSE 0
              /\ Amount(v, k)[x] = IF b[x].kind = k THEN b[x].qty - Uses([n \in N |-> m[n]], x) ELSE 0
          BY <1>1, <3>3, <3>4
        <4>2. b[x].qty \in Nat
          BY BagFacts
        <4> QED BY <3>8, <4>1, <4>2
      <3>10. InBag(u, k) = InBag(v, k) - (IF b[s].kind = k THEN 1 ELSE 0)
        <4>1. PICK f, g : f = Amount(v, k) /\ g = Amount(u, k)
          OBVIOUS
        <4>2. \A x \in Slots : f[x] \in Int /\ g[x] \in Int
          BY <3>7, <4>1, AmountFacts
        <4>3. \A x \in Slots : x # s => g[x] = f[x]
          BY <3>9, <4>1, <4>2
        <4>4. SumFunctionOnSet(g, Slots) = SumFunctionOnSet(f, Slots) - f[s] + g[s]
          BY <3>6, <4>2, <4>3, SlotsFinite, SumChanges
        <4>5. g[s] = f[s] - (IF b[s].kind = k THEN 1 ELSE 0)
          BY <3>6, <3>9, <4>1
        <4>6. InBag(v, k) \in Int /\ InBag(u, k) = SumFunctionOnSet(g, Slots) /\ InBag(v, k) = SumFunctionOnSet(f, Slots)
          BY <3>7, <4>1, InBagType, InBagSum
        <4> QED BY <3>6, <4>2, <4>4, <4>5, <4>6
      <3>11. /\ Cardinality(Lost(L)) = Cardinality(Lost(N)) + (IF b[s].kind = k THEN 1 ELSE 0)
             /\ Cardinality(Lost(N)) \in Nat
        <4>1. PICK X : X = Lost(L)
          OBVIOUS
        <4>2. Lost(N) = X \ {i} /\ X \in SUBSET L /\ (i \in X <=> b[s].kind = k)
          BY <3>1, <3>2, <3>3, <4>1
        <4>3. Cardinality(X) = Cardinality(X \ {i}) + (IF i \in X THEN 1 ELSE 0)
              /\ Cardinality(X \ {i}) \in Nat
          BY <3>1, <3>4, <4>2, OneMore
        <4> HIDE DEF Lost
        <4> QED BY <4>1, <4>2, <4>3
      <3>12. InBag(b, k) \in Int
        BY InBagType
      <3>13. PICK p, q : p = Cardinality(Lost(L)) /\ q = Cardinality(Lost(N))
        OBVIOUS
      <3>14. InBag(u, k) = InBag(b, k) - p
        <4> HIDE DEF Lost
        <4> QED BY <3>5, <3>10, <3>11, <3>12, <3>13
      <3> QED BY <3>3, <3>13, <3>14
    <2> QED BY <2>1, <2>2
  <1>3. lost \in P
    <2> HIDE DEF P
    <2> QED BY <1>0, <1>2, BySize
  <1> QED BY <1>3

-----------------------------------------------------------------------------
(***************************************************************************)
(* All bags, all rows.                                                     *)
(***************************************************************************)
HeldBy(B, k) == SumFunction([c \in Char |-> InBag(B[c], k)])
ForSale(R, k) == SumFunction([r \in {x \in R : x.kind = k /\ x.sale = 0} |-> Units(k, r.stack)])

LEMMA HeldBySum ==
  ASSUME NEW B, NEW k
  PROVE  HeldBy(B, k) = SumFunctionOnSet([c \in Char |-> InBag(B[c], k)], Char) /\ IsFiniteSet(Char)
  BY ExchangeAssumption DEF HeldBy, SumFunction

LEMMA HeldByType ==
  ASSUME NEW B \in [Char -> Bag], NEW k
  PROVE  HeldBy(B, k) \in Int
  <1>1. PICK f : f = [c \in Char |-> InBag(B[c], k)]
    OBVIOUS
  <1>2. \A c \in Char : f[c] \in Int
    BY <1>1, InBagType
  <1>3. SumFunctionOnSet(f, Char) \in Int
    BY <1>2, HeldBySum, SumType
  <1> QED BY <1>1, <1>3, HeldBySum

LEMMA HeldBySame ==
  ASSUME NEW A, NEW B, NEW k, \A c \in Char : InBag(A[c], k) = InBag(B[c], k)
  PROVE  HeldBy(A, k) = HeldBy(B, k)
  <1>1. PICK f, g : f = [c \in Char |-> InBag(A[c], k)] /\ g = [c \in Char |-> InBag(B[c], k)]
    OBVIOUS
  <1>2. \A c \in Char : f[c] = g[c]
    BY <1>1
  <1>3. SumFunctionOnSet(f, Char) = SumFunctionOnSet(g, Char)
    BY <1>2, HeldBySum, SumSame
  <1> QED BY <1>1, <1>3, HeldBySum

\* One bag changes.
LEMMA HeldByDiffer ==
  ASSUME NEW B \in [Char -> Bag], NEW A \in [Char -> Bag], NEW c \in Char, NEW k,
         \A x \in Char : x # c => A[x] = B[x]
  PROVE  HeldBy(A, k) = HeldBy(B, k) - InBag(B[c], k) + InBag(A[c], k)
  <1>1. PICK f, g : f = [x \in Char |-> InBag(B[x], k)] /\ g = [x \in Char |-> InBag(A[x], k)]
    OBVIOUS
  <1>2. /\ \A x \in Char : f[x] \in Int
        /\ g[c] \in Int /\ f[c] = InBag(B[c], k) /\ g[c] = InBag(A[c], k)
        /\ \A x \in Char : x # c => g[x] = f[x]
    BY <1>1, InBagType
  <1>3. SumFunctionOnSet(g, Char) = SumFunctionOnSet(f, Char) - f[c] + g[c]
    <2>1. IsFiniteSet(Char)
      BY ExchangeAssumption
    <2> QED BY <1>2, <2>1, SumChanges
  <1>4. HeldBy(B, k) = SumFunctionOnSet(f, Char) /\ HeldBy(A, k) = SumFunctionOnSet(g, Char)
    BY <1>1, HeldBySum
  <1> QED BY <1>2, <1>3, <1>4

LEMMA HeldByOne ==
  ASSUME NEW B \in [Char -> Bag], NEW c \in Char, NEW u \in Bag, NEW k
  PROVE  HeldBy([B EXCEPT ![c] = u], k) = HeldBy(B, k) - InBag(B[c], k) + InBag(u, k)
  <1>1. PICK A \in [Char -> Bag] : A = [B EXCEPT ![c] = u]
    OBVIOUS
  <1>2. A[c] = u /\ \A x \in Char : x # c => A[x] = B[x]
    BY <1>1
  <1>3. HeldBy(A, k) = HeldBy(B, k) - InBag(B[c], k) + InBag(A[c], k)
    BY <1>2, HeldByDiffer
  <1> QED BY <1>1, <1>2, <1>3

\* Two bags change.
LEMMA HeldByTwo ==
  ASSUME NEW B \in [Char -> Bag], NEW C \in [Char -> Bag], NEW c \in Char, NEW p \in Char, c # p,
         \A x \in Char : x \notin {c, p} => C[x] = B[x], NEW k
  PROVE  HeldBy(C, k) = HeldBy(B, k) - InBag(B[c], k) + InBag(C[c], k) - InBag(B[p], k) + InBag(C[p], k)
  <1>1. PICK A \in [Char -> Bag] : A = [B EXCEPT ![c] = C[c]]
    OBVIOUS
  <1>2. A[p] = B[p] /\ A[c] = C[c]
    BY <1>1
  <1>3. HeldBy(A, k) = HeldBy(B, k) - InBag(B[c], k) + InBag(C[c], k)
    <2>1. \A x \in Char : x # c => A[x] = B[x]
      BY <1>1
    <2>2. HeldBy(A, k) = HeldBy(B, k) - InBag(B[c], k) + InBag(A[c], k)
      BY <2>1, HeldByDiffer
    <2> QED BY <1>2, <2>2
  <1>5. HeldBy(C, k) = HeldBy(A, k) - InBag(A[p], k) + InBag(C[p], k)
    <2>1. \A x \in Char : x # p => C[x] = A[x]
      BY <1>1
    <2> QED BY <2>1, HeldByDiffer
  <1>6. PICK a, b, d, e, h : /\ a = InBag(B[c], k) /\ b = InBag(C[c], k) /\ d = InBag(B[p], k)
                            /\ e = InBag(C[p], k) /\ h = HeldBy(B, k)
    OBVIOUS
  <1>7. a \in Int /\ b \in Int /\ d \in Int /\ e \in Int /\ h \in Int
    BY <1>6, InBagType, HeldByType
  <1>8. HeldBy(C, k) = (h - a + b) - d + e
    BY <1>2, <1>3, <1>5, <1>6
  <1> QED BY <1>6, <1>7, <1>8

LEMMA ForSaleSum ==
  ASSUME NEW R, IsFiniteSet(R), R \subseteq Row, NEW k \in Kind
  PROVE  LET D == {x \in R : x.kind = k /\ x.sale = 0}
             f == [r \in D |-> Units(k, r.stack)]
         IN  /\ IsFiniteSet(D) /\ ForSale(R, k) = SumFunctionOnSet(f, D) /\ ForSale(R, k) \in Int
             /\ \A r \in D : f[r] = Units(k, r.stack) /\ f[r] \in Int
  <1> DEFINE D == {x \in R : x.kind = k /\ x.sale = 0}
             f == [r \in D |-> Units(k, r.stack)]
  <1>1. IsFiniteSet(D)
    BY FS_Subset
  <1>2. ForSale(R, k) = SumFunctionOnSet(f, D)
    BY DEF ForSale, SumFunction
  <1>3. \A r \in D : f[r] = Units(k, r.stack) /\ f[r] \in Int
    BY UnitsFacts
  <1> HIDE DEF f, D
  <1>4. SumFunctionOnSet(f, D) \in Int
    BY <1>1, <1>3, SumType
  <1> QED BY <1>1, <1>2, <1>3, <1>4 DEF f, D

\* A row is put up for sale.
LEMMA RowAdded ==
  ASSUME NEW R, IsFiniteSet(R), R \subseteq Row, NEW r \in Row, r \notin R, r.sale = 0, NEW k \in Kind
  PROVE  ForSale(R \cup {r}, k) = ForSale(R, k) + (IF r.kind = k THEN Units(k, r.stack) ELSE 0)
  <1> DEFINE D == {x \in R : x.kind = k /\ x.sale = 0}
             f == [x \in D |-> Units(k, x.stack)]
             N == {x \in R \cup {r} : x.kind = k /\ x.sale = 0}
             g == [x \in N |-> Units(k, x.stack)]
  <1>1. /\ IsFiniteSet(D) /\ ForSale(R, k) = SumFunctionOnSet(f, D) /\ ForSale(R, k) \in Int
        /\ \A x \in D : f[x] = Units(k, x.stack) /\ f[x] \in Int
    BY ForSaleSum
  <1>2. /\ ForSale(R \cup {r}, k) = SumFunctionOnSet(g, N)
        /\ \A x \in N : g[x] = Units(k, x.stack) /\ g[x] \in Int
    <2>1. IsFiniteSet(R \cup {r}) /\ R \cup {r} \subseteq Row
      BY FS_AddElement
    <2> HIDE DEF f, D
    <2> QED BY <2>1, ForSaleSum
  <1>3. CASE r.kind = k
    <2>1. N = D \cup {r} /\ r \notin D /\ r \in N
      BY <1>3
    <2> HIDE DEF f, D, g, N
    <2>2. g[r] = Units(k, r.stack) /\ g[r] \in Int /\ \A x \in D : f[x] \in Int /\ g[x] = f[x]
      BY <1>1, <1>2, <2>1
    <2>3. SumFunctionOnSet(g, N) = g[r] + SumFunctionOnSet(g, N \ {r})
      <3>1. IsFiniteSet(N) /\ \A x \in N : g[x] \in Int
        BY <1>1, <1>2, <2>1, FS_AddElement
      <3> QED BY <2>1, <3>1, SumSplit
    <2>4. N \ {r} = D
      BY <2>1
    <2>5. SumFunctionOnSet(g, D) = SumFunctionOnSet(f, D)
      BY <1>1, <2>2, SumSame
    <2>6. PICK a \in Int, u \in Int : a = ForSale(R, k) /\ u = Units(k, r.stack)
      BY <1>1, <2>2
    <2>7. ForSale(R \cup {r}, k) = u + a
      BY <1>1, <1>2, <2>2, <2>3, <2>4, <2>5, <2>6
    <2>8. u + a = a + u
      OBVIOUS
    <2> QED BY <1>3, <2>6, <2>7, <2>8
  <1>4. CASE r.kind # k
    <2>1. N = D
      BY <1>4
    <2>2. g = f
      BY <2>1
    <2> HIDE DEF f, D, g, N
    <2> QED BY <1>1, <1>2, <1>4, <2>1, <2>2
  <1> QED BY <1>3, <1>4

\* A row that was for sale is gone, or sold.
LEMMA RowGone ==
  ASSUME NEW R, IsFiniteSet(R), R \subseteq Row, NEW r \in R, r.sale = 0, NEW k \in Kind,
         NEW N, N = R \ {r} \/ \E z : z.sale # 0 /\ N = (R \ {r}) \cup {z}
  PROVE  ForSale(N, k) = ForSale(R, k) - (IF r.kind = k THEN Units(k, r.stack) ELSE 0)
  <1> DEFINE D == {x \in R : x.kind = k /\ x.sale = 0}
             f == [x \in D |-> Units(k, x.stack)]
             E == {x \in N : x.kind = k /\ x.sale = 0}
             g == [x \in E |-> Units(k, x.stack)]
  <1>1. /\ IsFiniteSet(D) /\ ForSale(R, k) = SumFunctionOnSet(f, D) /\ ForSale(R, k) \in Int
        /\ \A x \in D : f[x] = Units(k, x.stack) /\ f[x] \in Int
    BY ForSaleSum
  <1>2. ForSale(N, k) = SumFunctionOnSet(g, E) /\ \A x \in E : g[x] = Units(k, x.stack)
    BY DEF ForSale, SumFunction
  <1>3. E = D \ {r}
    OBVIOUS
  <1>4. CASE r.kind = k
    <2>1. r \in D
      BY <1>4
    <2> HIDE DEF f, D, g, E
    <2>2. SumFunctionOnSet(f, D) = f[r] + SumFunctionOnSet(f, D \ {r})
      BY <1>1, <2>1, SumSplit
    <2>3. IsFiniteSet(D \ {r}) /\ \A x \in D \ {r} : f[x] = g[x]
      BY <1>1, <1>2, <1>3, FS_Subset
    <2>4. SumFunctionOnSet(f, D \ {r}) = SumFunctionOnSet(g, D \ {r})
      BY <2>3, SumSame
    <2>5. SumFunctionOnSet(f, D \ {r}) \in Int
      BY <1>1, <2>3, SumType
    <2>6. f[r] = Units(k, r.stack) /\ f[r] \in Int
      BY <1>1, <2>1
    <2> QED BY <1>1, <1>2, <1>3, <1>4, <2>2, <2>4, <2>5, <2>6
  <1>5. CASE r.kind # k
    <2>1. E = D
      BY <1>3, <1>5
    <2>2. g = f
      BY <2>1
    <2> HIDE DEF f, D, g, E
    <2> QED BY <1>1, <1>2, <1>5, <2>1, <2>2
  <1> QED BY <1>4, <1>5

LEMMA MailType ==
  ASSUME NEW m \in [Char -> Nat]
  PROVE  SumFunction(m) \in Int /\ SumFunction(m) = SumFunctionOnSet(m, Char)
  <1>1. SumFunction(m) = SumFunctionOnSet(m, Char)
    BY DEF SumFunction
  <1>2. \A c \in Char : m[c] \in Int
    OBVIOUS
  <1>3. IsFiniteSet(Char)
    BY ExchangeAssumption
  <1> QED BY <1>1, <1>2, <1>3, SumType

LEMMA MailSent ==
  ASSUME NEW m \in [Char -> Nat], NEW c \in Char, NEW n \in Nat
  PROVE  SumFunction([m EXCEPT ![c] = @ + n]) = SumFunction(m) + n
  <1>1. PICK x : x = [m EXCEPT ![c] = @ + n]
    OBVIOUS
  <1>2. x \in [Char -> Nat] /\ x[c] = m[c] + n /\ \A y \in Char : y # c => x[y] = m[y]
    BY <1>1
  <1>3. IsFiniteSet(Char)
    BY ExchangeAssumption
  <1>4. SumFunctionOnSet(x, Char) = SumFunctionOnSet(m, Char) - m[c] + x[c]
    <2>1. (\A y \in Char : m[y] \in Int) /\ x[c] \in Int
      BY <1>2
    <2> QED BY <1>2, <1>3, <2>1, SumChanges
  <1>5. SumFunction(m) \in Int /\ SumFunction(m) = SumFunctionOnSet(m, Char) /\ SumFunction(x) = SumFunctionOnSet(x, Char)
    BY <1>2, MailType
  <1>6. m[c] \in Int
    OBVIOUS
  <1> QED BY <1>1, <1>2, <1>4, <1>5, <1>6

-----------------------------------------------------------------------------
(***************************************************************************)
(* Steps that make nothing: what one bag wins another, a row or gone loses.*)
(***************************************************************************)
NoMore == (\A k \in Kind : Goods(k)' <= Goods(k)) /\ Money' <= Money

\* What is not in a bag: gil in the delivery box and spent, goods for sale and gone.
Outside(R, m, n, g, k) == IF k = Gil THEN SumFunction(m) + n ELSE ForSale(R, k) + g[k]
Sound(B, R, m, n, g) ==
  /\ B \in [Char -> Bag] /\ R \subseteq Row /\ IsFiniteSet(R)
  /\ m \in [Char -> Nat] /\ n \in Int /\ g \in [Kind -> Int]

LEMMA SoundFacts ==
  ASSUME TradeInv, Ledger, Tally
  PROVE  Sound(bag, rows, mail, spent, gone)
  BY DEF TradeInv, Bags, Ledger, Tally, Sound

LEMMA OutsideType ==
  ASSUME NEW B, NEW R, NEW m, NEW n, NEW g, Sound(B, R, m, n, g), NEW k \in Ids
  PROVE  /\ Outside(R, m, n, g, k) \in Int /\ HeldBy(B, k) \in Int
         /\ k \in Kind => ForSale(R, k) \in Int /\ g[k] \in Int
         /\ SumFunction(m) \in Int
  <1>1. HeldBy(B, k) \in Int /\ SumFunction(m) \in Int
    BY HeldByType, MailType DEF Sound
  <1>2. ASSUME k \in Kind  PROVE  ForSale(R, k) \in Int /\ g[k] \in Int
    BY <1>2, ForSaleSum DEF Sound
  <1>3. n \in Int /\ (k = Gil \/ k \in Kind)
    BY DEF Sound, Ids
  <1> QED BY <1>1, <1>2, <1>3 DEF Outside

\* Bags win d, and d is lost outside.
LEMMA Weighed ==
  ASSUME NEW B, NEW R, NEW m, NEW n, NEW g, Sound(B, R, m, n, g),
         NEW C, NEW S, NEW l, NEW o, NEW h, Sound(C, S, l, o, h),
         NEW d \in [Ids -> Int],
         \A k \in Ids : /\ HeldBy(C, k) <= HeldBy(B, k) + d[k]
                        /\ d[k] + Outside(S, l, o, h, k) <= Outside(R, m, n, g, k)
  PROVE  /\ \A k \in Kind : HeldBy(C, k) + ForSale(S, k) + h[k] <= HeldBy(B, k) + ForSale(R, k) + g[k]
         /\ HeldBy(C, Gil) + SumFunction(l) + o <= HeldBy(B, Gil) + SumFunction(m) + n
  <1>1. ASSUME NEW k \in Kind
        PROVE  HeldBy(C, k) + ForSale(S, k) + h[k] <= HeldBy(B, k) + ForSale(R, k) + g[k]
    <2>1. k # Gil /\ k \in Ids
      BY ExchangeAssumption DEF Ids
    <2>2. PICK a, b, e, u, v, w :
            /\ a = HeldBy(B, k) /\ b = ForSale(R, k) /\ e = g[k]
            /\ u = HeldBy(C, k) /\ v = ForSale(S, k) /\ w = h[k]
      OBVIOUS
    <2>3. a \in Int /\ b \in Int /\ e \in Int
      BY <2>1, <2>2, OutsideType
    <2>4. u \in Int /\ v \in Int /\ w \in Int
      BY <2>1, <2>2, OutsideType
    <2>5. PICK x \in Int : x = d[k]
      BY <2>1
    <2>6. u <= a + x /\ x + (v + w) <= b + e
      BY <2>1, <2>2, <2>5 DEF Outside
    <2>7. u + v + w <= a + b + e
      BY <2>3, <2>4, <2>5, <2>6
    <2> QED BY <2>2, <2>7
  <1>2. HeldBy(C, Gil) + SumFunction(l) + o <= HeldBy(B, Gil) + SumFunction(m) + n
    <2>1. Gil \in Ids
      BY DEF Ids
    <2>2. PICK a, b, u, v : /\ a = HeldBy(B, Gil) /\ b = SumFunction(m)
                            /\ u = HeldBy(C, Gil) /\ v = SumFunction(l)
      OBVIOUS
    <2>3. a \in Int /\ b \in Int /\ n \in Int
      BY <2>1, <2>2, OutsideType DEF Sound
    <2>4. u \in Int /\ v \in Int /\ o \in Int
      BY <2>1, <2>2, OutsideType DEF Sound
    <2>5. PICK x \in Int : x = d[Gil]
      BY <2>1
    <2>6. u <= a + x /\ x + (v + o) <= b + n
      BY <2>1, <2>2, <2>5 DEF Outside
    <2>7. u + v + o <= a + b + n
      BY <2>3, <2>4, <2>5, <2>6
    <2> QED BY <2>2, <2>7
  <1> QED BY <1>1, <1>2

LEMMA Balance ==
  ASSUME TradeInv, Ledger, Tally, TradeInv', Ledger', Tally', NEW d \in [Ids -> Int],
         \A k \in Ids : /\ HeldBy(bag', k) <= HeldBy(bag, k) + d[k]
                        /\ d[k] + Outside(rows', mail', spent', gone', k) <= Outside(rows, mail, spent, gone, k)
  PROVE  NoMore
  <1>1. Sound(bag, rows, mail, spent, gone)
    BY SoundFacts
  <1>2. Sound(bag', rows', mail', spent', gone')
    BY DEF TradeInv, Bags, Ledger, Tally, Sound
  <1>3. /\ \A k \in Kind : HeldBy(bag', k) + ForSale(rows', k) + gone'[k]
                             <= HeldBy(bag, k) + ForSale(rows, k) + gone[k]
        /\ HeldBy(bag', Gil) + SumFunction(mail') + spent' <= HeldBy(bag, Gil) + SumFunction(mail) + spent
    BY <1>1, <1>2, Weighed
  <1>4. ASSUME NEW k \in Kind  PROVE  Goods(k)' <= Goods(k)
    <2>1. /\ Goods(k) = HeldBy(bag, k) + ForSale(rows, k) + gone[k]
          /\ Goods(k)' = HeldBy(bag', k) + ForSale(rows', k) + gone'[k]
      BY DEF Goods, Held, OnSale, HeldBy, ForSale
    <2> QED BY <1>3, <2>1
  <1>5. Money' <= Money
    <2>1. /\ Money = HeldBy(bag, Gil) + SumFunction(mail) + spent
          /\ Money' = HeldBy(bag', Gil) + SumFunction(mail') + spent'
      BY DEF Money, Held, HeldBy
    <2> QED BY <1>3, <2>1
  <1> QED BY <1>4, <1>5 DEF NoMore

\* All bags contain what they did, or the one of c another u, or those of c and p
\* u and v.
LEMMA SameBalance ==
  ASSUME TradeInv, Ledger, Tally, TradeInv', Ledger', Tally', UNCHANGED <<rows, mail, spent, gone>>,
         \A k \in Ids : HeldBy(bag', k) <= HeldBy(bag, k)
  PROVE  NoMore
  <1>1. PICK d : d = [k \in Ids |-> 0]
    OBVIOUS
  <1>2. d \in [Ids -> Int]
    BY <1>1
  <1>3. ASSUME NEW k \in Ids
        PROVE  /\ HeldBy(bag', k) <= HeldBy(bag, k) + d[k]
               /\ d[k] + Outside(rows', mail', spent', gone', k) <= Outside(rows, mail, spent, gone, k)
    <2>1. d[k] = 0
      BY <1>1
    <2>2. Outside(rows', mail', spent', gone', k) = Outside(rows, mail, spent, gone, k)
      OBVIOUS
    <2>3. Outside(rows, mail, spent, gone, k) \in Int /\ HeldBy(bag, k) \in Int
      BY SoundFacts, OutsideType
    <2>4. HeldBy(bag', k) <= HeldBy(bag, k) + d[k]
      BY <2>1, <2>3
    <2>5. d[k] + Outside(rows', mail', spent', gone', k) <= Outside(rows, mail, spent, gone, k)
      BY <2>1, <2>2, <2>3
    <2> QED BY <2>4, <2>5
  <1> QED BY <1>2, <1>3, Balance

LEMMA OneBalance ==
  ASSUME TradeInv, Ledger, Tally, TradeInv', Ledger', Tally',
         NEW c \in Char, NEW u \in Bag, bag' = [bag EXCEPT ![c] = u], NEW d \in [Ids -> Int],
         \A k \in Ids : /\ InBag(u, k) <= InBag(bag[c], k) + d[k]
                        /\ d[k] + Outside(rows', mail', spent', gone', k) <= Outside(rows, mail, spent, gone, k)
  PROVE  NoMore
  <1>1. PICK B \in [Char -> Bag] : B = bag
    BY DEF TradeInv, Bags
  <1>2. ASSUME NEW k \in Ids  PROVE  HeldBy(bag', k) <= HeldBy(bag, k) + d[k]
    <2>1. PICK a, x, y : a = HeldBy(B, k) /\ x = InBag(B[c], k) /\ y = InBag(u, k)
      OBVIOUS
    <2>2. a \in Int /\ x \in Int /\ y \in Int /\ d[k] \in Int
      BY <2>1, HeldByType, InBagType
    <2>3. HeldBy(bag', k) = a - x + y
      BY <1>1, <2>1, HeldByOne
    <2>4. y <= x + d[k]
      BY <1>1, <2>1
    <2> QED BY <1>1, <2>1, <2>2, <2>3, <2>4
  <1> QED BY <1>2, Balance

LEMMA TwoBalance ==
  ASSUME TradeInv, Ledger, Tally, TradeInv', Ledger', Tally',
         NEW c \in Char, NEW p \in Char, c # p,
         \A x \in Char : x \notin {c, p} => bag'[x] = bag[x], NEW d \in [Ids -> Int],
         \A k \in Ids :
           /\ InBag(bag'[c], k) + InBag(bag'[p], k) <= InBag(bag[c], k) + InBag(bag[p], k) + d[k]
           /\ d[k] + Outside(rows', mail', spent', gone', k) <= Outside(rows, mail, spent, gone, k)
  PROVE  NoMore
  <1>1. PICK B \in [Char -> Bag], C \in [Char -> Bag] : B = bag /\ C = bag'
    BY DEF TradeInv, Bags
  <1>2. ASSUME NEW k \in Ids  PROVE  HeldBy(bag', k) <= HeldBy(bag, k) + d[k]
    <2>1. PICK a, x, y, w, z : /\ a = HeldBy(B, k) /\ x = InBag(B[c], k) /\ y = InBag(C[c], k)
                               /\ w = InBag(B[p], k) /\ z = InBag(C[p], k)
      OBVIOUS
    <2>2. a \in Int /\ x \in Int /\ y \in Int /\ w \in Int /\ z \in Int /\ d[k] \in Int
      BY <2>1, HeldByType, InBagType
    <2>3. HeldBy(C, k) = a - x + y - w + z
      BY <1>1, <2>1, HeldByTwo
    <2>4. y + z <= x + w + d[k]
      BY <1>1, <2>1
    <2> QED BY <1>1, <2>1, <2>2, <2>3, <2>4
  <1> QED BY <1>2, Balance

-----------------------------------------------------------------------------
(***************************************************************************)
(* Bazaars: gil is in slot 0, what is priced no trade and no synthesis     *)
(* reserves, nobody is his own customer, and a customer sees the price of  *)
(* all that is for sale.                                                   *)
(***************************************************************************)
Stall(b) == b[0].kind = Gil /\ \A s \in Slots : b[s].price > 0 => b[s].reserve = 0
Stalls ==
  /\ \A c \in Char : Stall(bag[c]) /\ view[c] # c
  /\ DOMAIN shown = Char
  /\ \A c, p \in Char : view[c] = p => \A s \in Slots : bag[p][s].price = 0 \/ bag[p][s].price = shown[c][s]

LEMMA StallsInit == Init => Stalls
  <1> SUFFICES ASSUME Init PROVE Stalls
    OBVIOUS
  <1>1. \A c \in Char : Stall(bag[c])
    <2>1. ASSUME NEW c \in Char  PROVE  Stall(Start[c])
      BY Zero, ExchangeAssumption DEF Stall
    <2> QED BY <2>1 DEF Init
  <1>2. \A c \in Char : view[c] = None
    BY DEF Init
  <1>3. DOMAIN shown = Char
    BY DEF Init
  <1> QED BY <1>1, <1>2, <1>3, ExchangeAssumption DEF Stalls

LEMMA StallAgain ==
  ASSUME NEW b \in Bag, NEW u \in Bag, Stall(b), Steady(u, b), Freed(u, b)
  PROVE  Stall(u)
  <1>1. ASSUME NEW s \in Slots, u[s].price > 0  PROVE  u[s].reserve = 0
    <2>1. u[s].price = b[s].price
      BY <1>1 DEF Steady
    <2> QED BY <1>1, <2>1 DEF Stall, Freed
  <1> QED BY <1>1 DEF Stall, Steady

\* Items change hands, and no customer comes.
LEMMA StallsKept ==
  ASSUME Stalls, TradeInv, TradeInv',
         \A c \in Char : Steady(bag'[c], bag[c]) /\ Freed(bag'[c], bag[c]),
         \A c \in Char : view'[c] = None \/ (view'[c] = view[c] /\ shown'[c] = shown[c]),
         DOMAIN shown' = Char
  PROVE  Stalls'
  <1>1. \A c \in Char : bag[c] \in Bag /\ bag'[c] \in Bag
    BY DEF TradeInv, Bags
  <1>2. \A c \in Char : Stall(bag'[c])
    BY <1>1, StallAgain DEF Stalls
  <1>3. \A c \in Char : view'[c] # c
    BY ExchangeAssumption DEF Stalls
  <1>4. ASSUME NEW c \in Char, NEW p \in Char, view'[c] = p, NEW s \in Slots
        PROVE  bag'[p][s].price = 0 \/ bag'[p][s].price = shown'[c][s]
    <2>1. view[c] = p /\ shown'[c] = shown[c]
      BY <1>4, ExchangeAssumption
    <2>2. bag[p][s].price = 0 \/ bag[p][s].price = shown[c][s]
      BY <2>1 DEF Stalls
    <2>3. bag'[p][s].price = 0 \/ bag'[p][s].price = bag[p][s].price
      BY DEF Steady
    <2> QED BY <2>1, <2>2, <2>3
  <1> QED BY <1>2, <1>3, <1>4 DEF Stalls

LEMMA SteadySame == \A b : Steady(b, b) /\ Freed(b, b)
  BY DEF Steady, Freed

LEMMA OneStalls ==
  ASSUME Stalls, TradeInv, TradeInv', NEW c \in Char, NEW u, bag' = [bag EXCEPT ![c] = u],
         Steady(u, bag[c]), Freed(u, bag[c]), UNCHANGED <<view, shown>>
  PROVE  Stalls'
  <1>1. bag'[c] = u /\ \A x \in Char : x # c => bag'[x] = bag[x]
    BY DEF TradeInv, Bags
  <1>2. ASSUME NEW x \in Char  PROVE  Steady(bag'[x], bag[x]) /\ Freed(bag'[x], bag[x])
    <2>1. CASE x = c
      BY <1>1, <2>1
    <2>2. CASE x # c
      BY <1>1, <2>2, SteadySame
    <2> QED BY <2>1, <2>2
  <1>3. DOMAIN shown' = Char
    BY DEF Stalls
  <1> QED BY <1>2, <1>3, StallsKept

\* Who has no window open has nothing reserved unless he synthesizes.
LEMMA Idle ==
  ASSUME TradeInv, Stalls, Trouble = {}, NEW c \in Char, craft[c] = <<>>, ~Busy(c)
  PROVE  \A s \in Slots : bag[c][s].reserve = 0
  <1>1. ~window[c]
    BY DEF Busy
  <1>2. offer[c] = NoOffers
    BY <1>1 DEF TradeInv, Pairs
  <1> QED BY <1>2, NothingReserved

-----------------------------------------------------------------------------
(***************************************************************************)
(* The steps, one after the other.                                         *)
(***************************************************************************)
\* What comes into a bag in two moves, n of j and m of i.
Won(j, n, i, m) == [k \in Ids |-> (IF k = j THEN n ELSE 0) + (IF k = i THEN m ELSE 0)]

LEMMA HasTwice ==
  ASSUME NEW b \in Bag, NEW u \in Bag, NEW v \in Bag, NEW j, NEW n \in Int, NEW i, NEW m \in Int,
         Has(u, b, j, n), Has(v, u, i, m)
  PROVE  /\ Won(j, n, i, m) \in [Ids -> Int]
         /\ \A k \in Ids : InBag(v, k) <= InBag(b, k) + Won(j, n, i, m)[k]
  <1>1. ASSUME NEW k \in Ids
        PROVE  /\ Won(j, n, i, m)[k] \in Int
               /\ InBag(v, k) <= InBag(b, k) + Won(j, n, i, m)[k]
    <2>1. PICK x \in Int, y \in Int : x = (IF k = j THEN n ELSE 0) /\ y = (IF k = i THEN m ELSE 0)
      OBVIOUS
    <2>2. PICK p \in Int, q \in Int, r \in Int : p = InBag(b, k) /\ q = InBag(u, k) /\ r = InBag(v, k)
      <3>1. InBag(b, k) \in Int /\ InBag(u, k) \in Int /\ InBag(v, k) \in Int
        BY InBagType
      <3> QED BY <3>1
    <2>3. q <= p + x /\ r <= q + y
      BY <2>1, <2>2 DEF Has
    <2>4. Won(j, n, i, m)[k] = x + y
      BY <2>1 DEF Won
    <2>5. r <= p + (x + y) /\ x + y \in Int
      BY <2>3
    <2> QED BY <2>2, <2>4, <2>5
  <1>2. Won(j, n, i, m) \in [Ids -> Int]
    <2>1. PICK f : f = Won(j, n, i, m)
      OBVIOUS
    <2>2. f = [k \in Ids |-> f[k]]
      BY <2>1 DEF Won
    <2>3. \A k \in Ids : f[k] \in Int
      BY <1>1, <2>1
    <2> QED BY <2>1, <2>2, <2>3
  <1> QED BY <1>1, <1>2

LEMMA HasSame ==
  ASSUME NEW b \in Bag, NEW j
  PROVE  Has(b, b, j, 0)
  <1>1. ASSUME NEW k \in Ids  PROVE  InBag(b, k) <= InBag(b, k) + (IF k = j THEN 0 ELSE 0)
    <2>1. PICK p \in Int : p = InBag(b, k)
      BY InBagType
    <2> QED BY <2>1
  <1> QED BY <1>1 DEF Has

\* Auction house and delivery box are as they were.
LEMMA OutsideAfter ==
  ASSUME TradeInv, Ledger, Tally, Tally', UNCHANGED <<rows, mail>>, NEW k \in Ids, NEW x \in Int,
         k = Gil => x + spent' <= spent,
         k \in Kind => x + gone'[k] <= gone[k]
  PROVE  x + Outside(rows', mail', spent', gone', k) <= Outside(rows, mail, spent, gone, k)
  <1>1. Sound(bag, rows, mail, spent, gone)
    BY SoundFacts
  <1>2. CASE k = Gil
    <2>1. PICK a \in Int : a = SumFunction(mail)
      BY <1>1, OutsideType
    <2>2. PICK p \in Int, q \in Int : p = spent /\ q = spent'
      BY DEF Tally
    <2>3. x + q <= p
      BY <1>2, <2>2
    <2>4. x + (a + q) <= a + p
      BY <2>3
    <2> QED BY <1>2, <2>1, <2>2, <2>4 DEF Outside
  <1>3. CASE k # Gil
    <2>1. k \in Kind
      BY <1>3 DEF Ids
    <2>2. PICK a \in Int : a = ForSale(rows, k)
      BY <1>1, <2>1, OutsideType
    <2>3. PICK p \in Int, q \in Int : p = gone[k] /\ q = gone'[k]
      BY <2>1 DEF Tally
    <2>4. x + (a + q) <= a + p
      BY <2>1, <2>3
    <2> QED BY <1>3, <2>2, <2>3, <2>4 DEF Outside
  <1> QED BY <1>2, <1>3

\* One bag changes in two moves.
Moves(b, u, v, j, n, i, m) ==
  /\ u \in Bag /\ v \in Bag /\ n \in Int /\ m \in Int
  /\ Has(u, b, j, n) /\ Has(v, u, i, m) /\ Steady(v, b) /\ Freed(v, b)

LEMMA OneStep ==
  ASSUME TradeInv, Ledger, Tally, Stalls, TradeInv', Ledger', Tally',
         NEW c \in Char, NEW u, NEW v, bag' = [bag EXCEPT ![c] = v], UNCHANGED <<view, shown>>,
         NEW j, NEW n, NEW i, NEW m, Moves(bag[c], u, v, j, n, i, m),
         \A k \in Ids : Won(j, n, i, m)[k] + Outside(rows', mail', spent', gone', k)
                          <= Outside(rows, mail, spent, gone, k)
  PROVE  NoMore /\ Stalls'
  <1>1. /\ bag[c] \in Bag /\ u \in Bag /\ v \in Bag /\ n \in Int /\ m \in Int
        /\ Has(u, bag[c], j, n) /\ Has(v, u, i, m) /\ Steady(v, bag[c]) /\ Freed(v, bag[c])
    BY DEF TradeInv, Bags, Moves
  <1>2. PICK d : d = Won(j, n, i, m)
    OBVIOUS
  <1>3. d \in [Ids -> Int] /\ \A k \in Ids : InBag(v, k) <= InBag(bag[c], k) + d[k]
    BY <1>1, <1>2, HasTwice
  <1>4. NoMore
    BY <1>1, <1>2, <1>3, OneBalance
  <1>5. Stalls'
    BY <1>1, OneStalls
  <1> QED BY <1>4, <1>5

LEMMA QuantityFacts ==
  \A q \in Quantity : q \in Nat /\ q >= 1 /\ q \in Int /\ 0 - q \in Int
  <1>1. ASSUME NEW q \in Quantity  PROVE  q \in Int /\ q >= 1
    BY DEF Quantity
  <1> QED BY <1>1

LEMMA HoldsFreed == \A u, b : Holds(u, b) => Freed(u, b)
  BY DEF Holds, Freed

LEMMA FreedAgain ==
  ASSUME NEW a, NEW b, NEW c, Freed(a, b), Freed(b, c)
  PROVE  Freed(a, c)
  BY DEF Freed

\* UpdateItem, whatever it is asked.
LEMMA UpdateFacts ==
  ASSUME NEW b \in Bag, NEW s \in Slots, NEW q \in Int, NEW u, u = UpdateItem(b, s, q)
  PROVE  u \in Bag /\ Steady(u, b) /\ Freed(u, b) /\ \A x \in Slots : x # s => u[x] = b[x]
  <1>1. u \in Bag /\ Holds(u, b)
    BY UpdateBag
  <1>2. Steady(u, b)
    BY UpdateSteady
  <1>3. \A x \in Slots : x # s => u[x] = b[x]
    BY UpdateSlot
  <1> QED BY <1>1, <1>2, <1>3, HoldsFreed

\* AddItem, either one.
LEMMA AddFacts ==
  ASSUME NEW b \in Bag, b[0].kind = Gil, NEW k \in Kind, NEW q \in Nat, q <= Stack[k],
         NEW u, u = AddItem(b, k, q) \/ u = AddItemById(b, k, q)
  PROVE  /\ u \in Bag /\ Steady(u, b) /\ Freed(u, b) /\ Has(u, b, k, q)
         /\ \A x \in Slots : b[x] # Empty => u[x] = b[x]
  <1>1. k \in Ids /\ k # Gil /\ k \in Kind \cup {Gil}
    BY ExchangeAssumption DEF Ids
  <1>2. u \in Bag /\ Holds(u, b)
    BY <1>1, AddBag
  <1>3. /\ Has(u, b, k, q) /\ Steady(u, b)
        /\ \A x \in Slots : b[x] # Empty /\ (k # Gil \/ x # 0) => u[x] = b[x]
    BY <1>1, AddsItem
  <1> QED BY <1>1, <1>2, <1>3, HoldsFreed

LEMMA DropFacts ==
  ASSUME TradeInv, Ledger, Tally, Stalls, TradeInv', Ledger', Tally', NEW c \in Char,
         NEW s \in 1..BagSize, NEW q \in Quantity, Drop(c, s, q)
  PROVE  NoMore /\ Stalls'
  <1>1. PICK b \in Bag : b = bag[c]
    BY DEF TradeInv, Bags
  <1>2. PICK k, n : k = b[s].kind /\ n = 0 - q
    OBVIOUS
  <1>3. PICK v : v = UpdateItem(b, s, n)
    OBVIOUS
  <1>4. /\ bag' = [bag EXCEPT ![c] = v] /\ b[s] # Empty /\ q <= Unreserved(b[s])
        /\ gone' = [gone EXCEPT ![k] = @ + q] /\ UNCHANGED <<view, shown, rows, mail, spent>>
    BY <1>1, <1>2, <1>3 DEF Drop, bazaarVars, auctionVars
  <1>5. s \in Slots /\ k \in Kind /\ q \in Nat /\ n \in Int
    BY <1>1, <1>2, <1>4, SlotFacts, QuantityFacts
  <1>6. Moves(b, v, v, k, n, k, 0)
    <2>1. v \in Bag /\ Steady(v, b) /\ Freed(v, b)
      BY <1>3, <1>5, UpdateFacts
    <2>2. Has(v, b, k, n) /\ Has(v, v, k, 0)
      BY <1>2, <1>3, <1>4, <1>5, <2>1, TakesUnits, HasSame
    <2> QED BY <1>5, <2>1, <2>2 DEF Moves
  <1>7. ASSUME NEW i \in Ids
        PROVE  Won(k, n, k, 0)[i] + Outside(rows', mail', spent', gone', i)
                 <= Outside(rows, mail, spent, gone, i)
    <2>1. PICK x : x = Won(k, n, k, 0)[i]
      OBVIOUS
    <2>2. x \in Int /\ x = IF i = k THEN 0 - q ELSE 0
      BY <1>2, <1>5, <2>1 DEF Won
    <2>3. i = Gil => x + spent' <= spent
      <3>1. spent \in Int /\ k # Gil
        BY <1>5, ExchangeAssumption DEF Tally
      <3> QED BY <1>4, <2>2, <3>1
    <2>4. i \in Kind => x + gone'[i] <= gone[i]
      <3>1. ASSUME i \in Kind  PROVE  x + gone'[i] <= gone[i]
        <4>1. gone[i] \in Int /\ gone'[i] = IF i = k THEN gone[i] + q ELSE gone[i]
          BY <1>4, <1>5, <3>1 DEF Tally
        <4> QED BY <1>5, <2>2, <4>1
      <3> QED BY <3>1
    <2> QED BY <1>4, <2>1, <2>2, <2>3, <2>4, OutsideAfter
  <1> QED BY <1>1, <1>4, <1>6, <1>7, OneStep

\* What the one move brings the other takes.
LEMMA NothingWon ==
  ASSUME TradeInv, Ledger, Tally, Tally', UNCHANGED <<rows, mail, spent, gone>>,
         NEW k, NEW n \in Int, NEW m \in Int, n + m <= 0, NEW i \in Ids
  PROVE  Won(k, n, k, m)[i] + Outside(rows', mail', spent', gone', i)
           <= Outside(rows, mail, spent, gone, i)
  <1>1. PICK x : x = Won(k, n, k, m)[i]
    OBVIOUS
  <1>2. x \in Int /\ x <= 0
    BY <1>1 DEF Won
  <1>3. i = Gil => x + spent' <= spent
    <2>1. spent \in Int
      BY DEF Tally
    <2> QED BY <1>2, <2>1
  <1>4. i \in Kind => x + gone'[i] <= gone[i]
    <2>1. i \in Kind => gone[i] \in Int
      BY DEF Tally
    <2> QED BY <1>2, <2>1
  <1> QED BY <1>1, <1>2, <1>3, <1>4, OutsideAfter

\* Gil comes, or is paid.
LEMMA GilFacts ==
  ASSUME NEW b \in Bag, NEW q \in Int, NEW u, u = UpdateItem(b, 0, q)
  PROVE  u \in Bag /\ Steady(u, b) /\ Freed(u, b) /\ \A x \in Slots : x # 0 => u[x] = b[x]
  <1>1. PICK z \in Slots : z = 0
    BY Zero
  <1>2. u = UpdateItem(b, z, q)
    BY <1>1
  <1>3. u \in Bag /\ Steady(u, b) /\ Freed(u, b) /\ \A x \in Slots : x # z => u[x] = b[x]
    BY <1>2, UpdateFacts
  <1> QED BY <1>1, <1>3

LEMMA SplitFacts ==
  ASSUME TradeInv, Ledger, Tally, Stalls, TradeInv', Ledger', Tally', NEW c \in Char,
         NEW s \in 1..BagSize, NEW q \in Quantity, Split(c, s, q)
  PROVE  NoMore /\ Stalls'
  <1>1. PICK b \in Bag : b = bag[c]
    BY DEF TradeInv, Bags
  <1>2. PICK k, n : k = b[s].kind /\ n = 0 - q
    OBVIOUS
  <1>3. PICK u : u = AddItemById(b, k, q)
    OBVIOUS
  <1>4. PICK v : v = UpdateItem(u, s, n)
    OBVIOUS
  <1>5. /\ bag' = [bag EXCEPT ![c] = v] /\ b[s] # Empty /\ q <= Unreserved(b[s]) /\ q < b[s].qty
        /\ UNCHANGED <<view, shown, rows, mail, spent, gone>>
    BY <1>1, <1>2, <1>3, <1>4 DEF Split, bazaarVars, auctionVars
  <1>6. /\ s \in Slots /\ k \in Kind /\ q \in Nat /\ n \in Int /\ b[0].kind = Gil
        /\ b[s].qty \in Nat /\ b[s].qty <= Stack[k] /\ Stack[k] \in Nat
    BY <1>1, <1>2, <1>5, SlotFacts, QuantityFacts DEF Stalls, Stall
  <1>7. /\ u \in Bag /\ Steady(u, b) /\ Freed(u, b) /\ Has(u, b, k, q)
        /\ u[s] = b[s]
    <2>1. q <= Stack[k]
      BY <1>5, <1>6
    <2> QED BY <1>3, <1>5, <1>6, <2>1, AddFacts
  <1>8. Moves(b, u, v, k, q, k, n)
    <2>1. v \in Bag /\ Steady(v, u) /\ Freed(v, u)
      BY <1>4, <1>6, <1>7, UpdateFacts
    <2>2. Has(v, u, k, n)
      BY <1>2, <1>4, <1>5, <1>6, <1>7, TakesUnits
    <2>3. Steady(v, b) /\ Freed(v, b)
      BY <1>7, <2>1, SteadyAgain, FreedAgain
    <2> QED BY <1>6, <1>7, <2>1, <2>2, <2>3 DEF Moves
  <1>9. \A i \in Ids : Won(k, q, k, n)[i] + Outside(rows', mail', spent', gone', i)
                         <= Outside(rows, mail, spent, gone, i)
    <2>1. q \in Int /\ q + n <= 0
      BY <1>2, <1>6
    <2> QED BY <1>5, <1>6, <2>1, NothingWon
  <1> QED BY <1>1, <1>5, <1>8, <1>9, OneStep

LEMMA SellFacts ==
  ASSUME TradeInv, Ledger, Tally, Stalls, TradeInv', Ledger', Tally', NEW c \in Char,
         NEW s \in 1..BagSize, NEW q \in Quantity, SellToVendor(c, s, q)
  PROVE  NoMore /\ Stalls'
  <1>1. PICK b \in Bag : b = bag[c]
    BY DEF TradeInv, Bags
  <1>2. PICK k, n : k = b[s].kind /\ n = 0 - q
    OBVIOUS
  <1>3. PICK u : u = UpdateItem(b, 0, q)
    OBVIOUS
  <1>4. PICK v : v = UpdateItem(u, s, n)
    OBVIOUS
  <1>5. /\ bag' = [bag EXCEPT ![c] = v] /\ b[s] # Empty /\ b[s].reserve = 0 /\ q <= b[s].qty
        /\ spent' = spent - q /\ gone' = [gone EXCEPT ![k] = @ + q]
        /\ UNCHANGED <<view, shown, rows, mail>>
    BY <1>1, <1>2, <1>3, <1>4 DEF SellToVendor, bazaarVars, auctionVars
  <1>6. /\ s \in Slots /\ k \in Kind /\ q \in Nat /\ n \in Int /\ b[0].kind = Gil
        /\ s # 0 /\ q \in Int /\ b[s].qty \in Nat /\ k # Gil
    <2>1. s # 0 /\ Gil \notin Kind
      BY ExchangeAssumption
    <2> QED BY <1>1, <1>2, <1>5, <2>1, SlotFacts, QuantityFacts DEF Stalls, Stall
  <1>7. u \in Bag /\ Steady(u, b) /\ Freed(u, b) /\ Has(u, b, Gil, q) /\ u[s] = b[s]
    <2>1. 0 \in Slots
      BY Zero
    <2>2. u \in Bag /\ Steady(u, b) /\ Freed(u, b) /\ \A x \in Slots : x # 0 => u[x] = b[x]
      <3>1. q \in Int
        BY <1>6
      <3> QED BY <1>3, <3>1, GilFacts, Zenon
    <2>3. Has(u, b, b[0].kind, q)
      BY <1>3, <1>6, <2>1, AddsUnits
    <2> QED BY <1>6, <2>2, <2>3
  <1>8. Moves(b, u, v, Gil, q, k, n)
    <2>1. v \in Bag /\ Steady(v, u) /\ Freed(v, u)
      BY <1>4, <1>6, <1>7, UpdateFacts
    <2>2. Has(v, u, k, n)
      <3>1. q <= Unreserved(u[s])
        BY <1>5, <1>6, <1>7 DEF Unreserved
      <3> QED BY <1>2, <1>4, <1>5, <1>6, <1>7, <3>1, TakesUnits
    <2>3. Steady(v, b) /\ Freed(v, b)
      BY <1>7, <2>1, SteadyAgain, FreedAgain
    <2> QED BY <1>6, <1>7, <2>1, <2>2, <2>3 DEF Moves
  <1>9. ASSUME NEW i \in Ids
        PROVE  Won(Gil, q, k, n)[i] + Outside(rows', mail', spent', gone', i)
                 <= Outside(rows, mail, spent, gone, i)
    <2>1. PICK x : x = Won(Gil, q, k, n)[i]
      OBVIOUS
    <2>2. x \in Int /\ x = (IF i = Gil THEN q ELSE 0) + (IF i = k THEN n ELSE 0)
      BY <1>6, <2>1 DEF Won
    <2>3. i = Gil => x + spent' <= spent
      <3>1. spent \in Int /\ (i = Gil => x = q)
        BY <1>6, <2>2 DEF Tally
      <3> QED BY <1>5, <1>6, <3>1
    <2>4. i \in Kind => x + gone'[i] <= gone[i]
      <3>1. ASSUME i \in Kind  PROVE  x + gone'[i] <= gone[i]
        <4>1. gone[i] \in Int /\ gone'[i] = IF i = k THEN gone[i] + q ELSE gone[i]
          BY <1>5, <1>6, <3>1 DEF Tally
        <4>2. x = IF i = k THEN 0 - q ELSE 0
          BY <1>2, <1>6, <2>2, <3>1, ExchangeAssumption
        <4> QED BY <1>6, <4>1, <4>2
      <3> QED BY <3>1
    <2> QED BY <1>5, <2>1, <2>2, <2>3, <2>4, OutsideAfter
  <1> QED BY <1>1, <1>5, <1>8, <1>9, OneStep

LEMMA MergeFacts ==
  ASSUME TradeInv, Ledger, Tally, Stalls, TradeInv', Ledger', Tally', NEW c \in Char,
         Trouble = {}, craft[c] = <<>>,
         NEW s \in 1..BagSize, NEW t \in 1..BagSize, Merge(c, s, t)
  PROVE  NoMore /\ Stalls'
  <1>1. PICK b \in Bag : b = bag[c]
    BY DEF TradeInv, Bags
  <1>2. PICK k, q : k = b[s].kind /\ q = AtMost(Stack[b[s].kind] - b[s].qty, b[t].qty)
    OBVIOUS
  <1>3. PICK n : n = 0 - q
    OBVIOUS
  <1>4. PICK u : u = UpdateItem(b, s, q)
    OBVIOUS
  <1>5. PICK v : v = UpdateItem(u, t, n)
    OBVIOUS
  <1>6. /\ bag' = [bag EXCEPT ![c] = v] /\ b[s] # Empty /\ b[t].kind = k /\ s < t /\ ~Busy(c)
        /\ b[s].qty < Stack[k] /\ UNCHANGED <<view, shown, rows, mail, spent, gone>>
    BY <1>1, <1>2, <1>3, <1>4, <1>5 DEF Merge, bazaarVars, auctionVars
  <1>7. /\ s \in Slots /\ k \in Kind /\ b[s].qty \in Nat /\ Stack[k] \in Nat /\ s # t
    BY <1>1, <1>2, <1>6, SlotFacts
  <1>8. b[t] # Empty
    BY <1>6, <1>7, EmptyFacts, ExchangeAssumption
  <1>9. t \in Slots /\ b[t].qty \in Nat /\ b[t].reserve = 0
    BY <1>1, <1>6, <1>8, SlotFacts, Idle
  <1>10. q \in Nat /\ n \in Int /\ q <= b[t].qty /\ q \in Int
    BY <1>2, <1>3, <1>6, <1>7, <1>9 DEF AtMost
  <1>11. u \in Bag /\ Steady(u, b) /\ Freed(u, b) /\ Has(u, b, k, q) /\ u[t] = b[t]
    <2>1. u \in Bag /\ Steady(u, b) /\ Freed(u, b) /\ \A x \in Slots : x # s => u[x] = b[x]
      <3>1. PICK x \in Slots, y \in Int : x = s /\ y = q
        BY <1>7, <1>10
      <3>2. /\ UpdateItem(b, x, y) \in Bag /\ Steady(UpdateItem(b, x, y), b) /\ Freed(UpdateItem(b, x, y), b)
            /\ \A z \in Slots : z # x => UpdateItem(b, x, y)[z] = b[z]
        BY UpdateFacts
      <3> QED BY <1>4, <3>1, <3>2
    <2>2. Has(u, b, b[s].kind, q)
      BY <1>4, <1>7, <1>10, AddsUnits
    <2> QED BY <1>2, <1>7, <1>9, <2>1, <2>2
  <1>12. Moves(b, u, v, k, q, k, n)
    <2>1. v \in Bag /\ Steady(v, u) /\ Freed(v, u)
      BY <1>5, <1>9, <1>10, <1>11, UpdateFacts
    <2>2. Has(v, u, k, n)
      <3>1. q <= Unreserved(u[t])
        BY <1>9, <1>10, <1>11 DEF Unreserved
      <3> QED BY <1>3, <1>5, <1>6, <1>8, <1>9, <1>10, <1>11, <3>1, TakesUnits
    <2>3. Steady(v, b) /\ Freed(v, b)
      BY <1>11, <2>1, SteadyAgain, FreedAgain
    <2> QED BY <1>10, <1>11, <2>1, <2>2, <2>3 DEF Moves
  <1>13. \A i \in Ids : Won(k, q, k, n)[i] + Outside(rows', mail', spent', gone', i)
                          <= Outside(rows, mail, spent, gone, i)
    <2>1. q + n <= 0
      BY <1>3, <1>10
    <2> QED BY <1>6, <1>10, <2>1, NothingWon
  <1> QED BY <1>1, <1>6, <1>12, <1>13, OneStep

\* Bags contain what they did, and no customer comes.
LEMMA SameStep ==
  ASSUME TradeInv, Ledger, Tally, Stalls, TradeInv', Ledger', Tally',
         UNCHANGED <<rows, mail, spent, gone>>,
         \A c \in Char : /\ \A k : InBag(bag'[c], k) = InBag(bag[c], k)
                         /\ Steady(bag'[c], bag[c]) /\ Freed(bag'[c], bag[c]),
         \A c \in Char : view'[c] = None \/ (view'[c] = view[c] /\ shown'[c] = shown[c]),
         DOMAIN shown' = Char
  PROVE  NoMore /\ Stalls'
  <1>1. PICK B \in [Char -> Bag], C \in [Char -> Bag] : B = bag /\ C = bag'
    BY DEF TradeInv, Bags
  <1>2. ASSUME NEW k \in Ids  PROVE  HeldBy(bag', k) <= HeldBy(bag, k)
    <2>1. \A c \in Char : InBag(C[c], k) = InBag(B[c], k)
      BY <1>1
    <2>2. HeldBy(C, k) = HeldBy(B, k) /\ HeldBy(B, k) \in Int
      BY <2>1, HeldBySame, HeldByType
    <2> QED BY <1>1, <2>2
  <1>3. NoMore
    BY <1>2, SameBalance
  <1>4. Stalls'
    BY StallsKept
  <1> QED BY <1>3, <1>4

\* No bag changes, and no customer comes.
LEMMA NoStep ==
  ASSUME TradeInv, Ledger, Tally, Stalls, TradeInv', Ledger', Tally',
         UNCHANGED <<bag, rows, mail, spent, gone>>,
         \A c \in Char : view'[c] = None \/ (view'[c] = view[c] /\ shown'[c] = shown[c]),
         DOMAIN shown' = Char
  PROVE  NoMore /\ Stalls'
  BY SteadySame, SameStep

-----------------------------------------------------------------------------
\* What a bag wins the auction house, the delivery box or the fees lose.
LEMMA MarketAfter ==
  ASSUME TradeInv, Ledger, Tally, TradeInv', Ledger', Tally', UNCHANGED gone, NEW i \in Ids, NEW x \in Int,
         i = Gil => x + (SumFunction(mail') + spent') <= SumFunction(mail) + spent,
         i \in Kind => x + ForSale(rows', i) <= ForSale(rows, i)
  PROVE  x + Outside(rows', mail', spent', gone', i) <= Outside(rows, mail, spent, gone, i)
  <1>1. CASE i = Gil
    BY <1>1 DEF Outside
  <1>2. CASE i # Gil
    <2>1. i \in Kind
      BY <1>2 DEF Ids
    <2>2. PICK R, S, g : R = rows /\ S = rows' /\ g = gone
      OBVIOUS
    <2>3. R \subseteq Row /\ IsFiniteSet(R) /\ S \subseteq Row /\ IsFiniteSet(S)
      BY <2>2 DEF Ledger
    <2>4. PICK a \in Int, e \in Int : a = ForSale(R, i) /\ e = ForSale(S, i)
      <3>1. ForSale(R, i) \in Int /\ ForSale(S, i) \in Int
        BY <2>1, <2>3, ForSaleSum
      <3> QED BY <3>1
    <2>5. PICK p \in Int : p = g[i]
      BY <2>1, <2>2 DEF Tally
    <2>6. x + e <= a
      BY <2>1, <2>2, <2>4
    <2>7. x + (e + p) <= a + p
      BY <2>6
    <2> QED BY <1>2, <2>2, <2>4, <2>5, <2>7 DEF Outside
  <1> QED BY <1>1, <1>2

\* Units that are not reserved are taken from a slot.
Takes(u, b, s, q) ==
  s \in Slots /\ q \in Nat /\ b[s] # Empty /\ q <= Unreserved(b[s]) /\ u = UpdateItem(b, s, 0 - q)

LEMMA TakeFacts ==
  ASSUME NEW b \in Bag, NEW u, NEW s, NEW q, Takes(u, b, s, q)
  PROVE  /\ u \in Bag /\ Steady(u, b) /\ Freed(u, b) /\ Has(u, b, b[s].kind, 0 - q)
         /\ \A x \in Slots : x # s => u[x] = b[x]
  <1>1. s \in Slots /\ q \in Nat /\ b[s] # Empty /\ q <= Unreserved(b[s]) /\ u = UpdateItem(b, s, 0 - q)
    BY DEF Takes
  <1>2. PICK n \in Int : n = 0 - q
    BY <1>1
  <1>3. u \in Bag /\ Steady(u, b) /\ Freed(u, b) /\ \A x \in Slots : x # s => u[x] = b[x]
    <2>1. s \in Slots /\ u = UpdateItem(b, s, n)
      BY <1>1, <1>2
    <2> QED BY <2>1, UpdateFacts
  <1>4. Has(u, b, b[s].kind, 0 - q)
    BY <1>1, TakesUnits
  <1> QED BY <1>3, <1>4

LEMMA PlaceFacts ==
  ASSUME TradeInv, Ledger, Tally, Stalls, TradeInv', Ledger', Tally', NEW c \in Char,
         Trouble = {}, craft[c] = <<>>,
         NEW s \in 1..BagSize, NEW stack \in BOOLEAN, NEW price \in Prices, PlaceSale(c, s, stack, price)
  PROVE  NoMore /\ Stalls'
  <1>1. PICK b \in Bag : b = bag[c]
    BY DEF TradeInv, Bags
  <1>2. PICK k, q : k = b[s].kind /\ q = Units(b[s].kind, stack)
    OBVIOUS
  <1>3. PICK n, m : n = 0 - q /\ m = 0 - Fee
    OBVIOUS
  <1>4. PICK u : u = UpdateItem(b, s, n)
    OBVIOUS
  <1>5. PICK v : v = UpdateItem(u, 0, m)
    OBVIOUS
  <1>6. PICK r : r = [id |-> NewId, kind |-> k, stack |-> stack, seller |-> c, price |-> price, sale |-> 0]
    OBVIOUS
  <1>7. /\ bag' = [bag EXCEPT ![c] = v] /\ rows' = rows \cup {r} /\ spent' = spent + Fee
        /\ b[s] # Empty /\ ~Busy(c) /\ b[s].qty >= 1 /\ (stack => b[s].qty = Stack[k])
        /\ b[0].qty >= Fee /\ NewId <= MaxRows /\ UNCHANGED <<view, shown, mail, gone>>
    BY <1>1, <1>2, <1>3, <1>4, <1>5, <1>6 DEF PlaceSale, bazaarVars
  <1>8. /\ s \in Slots /\ k \in Kind /\ b[s].qty \in Nat /\ s # 0 /\ Fee \in Nat
        /\ b[0].kind = Gil /\ Gil # k
    <2>1. s # 0 /\ Gil \notin Kind /\ Fee \in Nat
      BY ExchangeAssumption
    <2> QED BY <1>1, <1>2, <1>7, <2>1, SlotFacts DEF Stalls, Stall
  <1>9. PICK z \in Slots : z = 0
    BY Zero
  <1>10. b[s].reserve = 0 /\ b[z].reserve = 0 /\ b[z].qty \in Nat /\ b[z] # Empty
    <2>1. b[s].reserve = 0 /\ b[z].reserve = 0
      BY <1>1, <1>7, <1>8, Idle
    <2>2. b[z] # Empty
      BY <1>8, <1>9, EmptyFacts, ExchangeAssumption
    <2> QED BY <2>1, <2>2, BagFacts
  <1>11. q \in Nat /\ q <= Unreserved(b[s]) /\ n \in Int /\ m \in Int /\ Fee <= Unreserved(b[z])
    <2>1. q \in Nat /\ q <= b[s].qty
      <3>1. q \in Nat /\ q = IF stack THEN Stack[k] ELSE 1
        BY <1>2, <1>8, UnitsFacts DEF Units
      <3> QED BY <1>7, <1>8, <3>1
    <2>2. b[z].qty >= Fee
      BY <1>7, <1>9
    <2> QED BY <1>3, <1>8, <1>10, <2>1, <2>2 DEF Unreserved
  <1>12. u \in Bag /\ Steady(u, b) /\ Freed(u, b) /\ Has(u, b, k, n) /\ u[z] = b[z]
    <2>1. Takes(u, b, s, q)
      BY <1>3, <1>4, <1>7, <1>8, <1>11 DEF Takes
    <2>2. /\ u \in Bag /\ Steady(u, b) /\ Freed(u, b) /\ Has(u, b, b[s].kind, 0 - q)
          /\ \A x \in Slots : x # s => u[x] = b[x]
      BY <2>1, TakeFacts
    <2> QED BY <1>2, <1>3, <1>8, <1>9, <2>2
  <1>13. Moves(b, u, v, k, n, Gil, m)
    <2>1. v = UpdateItem(u, z, m)
      BY <1>5, <1>9
    <2>2. v \in Bag /\ Steady(v, u) /\ Freed(v, u)
      BY <1>11, <1>12, <2>1, UpdateFacts
    <2>3. Has(v, u, Gil, m)
      <3>1. u[z] # Empty /\ u[z].kind = Gil /\ Fee <= Unreserved(u[z])
        BY <1>8, <1>9, <1>10, <1>11, <1>12
      <3> QED BY <1>3, <1>8, <1>12, <2>1, <3>1, TakesUnits
    <2>4. Steady(v, b) /\ Freed(v, b)
      BY <1>12, <2>2, SteadyAgain, FreedAgain
    <2> QED BY <1>11, <1>12, <2>2, <2>3, <2>4 DEF Moves
  <1>14. ASSUME NEW i \in Ids
         PROVE  Won(k, n, Gil, m)[i] + Outside(rows', mail', spent', gone', i)
                  <= Outside(rows, mail, spent, gone, i)
    <2>1. PICK x : x = Won(k, n, Gil, m)[i]
      OBVIOUS
    <2>2. x \in Int /\ (i = k => x = n) /\ (i = Gil => x = m) /\ (i # k /\ i # Gil => x = 0)
      BY <1>8, <1>11, <2>1 DEF Won
    <2>3. i = Gil => x + (SumFunction(mail') + spent') <= SumFunction(mail) + spent
      <3>1. PICK a \in Int : a = SumFunction(mail)
        BY MailType DEF Ledger
      <3>2. PICK p \in Int : p = spent
        BY DEF Tally
      <3>3. (0 - Fee) + (a + (p + Fee)) <= a + p
        BY <1>8
      <3> QED BY <1>3, <1>7, <2>2, <3>1, <3>2, <3>3
    <2>4. i \in Kind => x + ForSale(rows', i) <= ForSale(rows, i)
      <3>1. ASSUME i \in Kind  PROVE  x + ForSale(rows', i) <= ForSale(rows, i)
        <4>1. PICK R : R = rows
          OBVIOUS
        <4>2. r \in Row /\ r \notin R /\ r.sale = 0 /\ r.kind = k /\ r.stack = stack
          <5>1. r.id = NewId /\ r.sale = 0 /\ r.kind = k /\ r.stack = stack
            BY <1>6
          <5>2. NewId \in 1..MaxRows /\ \A y \in rows : y.id # NewId
            <6>1. NewId \in Nat /\ NewId >= 1 /\ \A y \in rows : y.id < NewId
              BY NewIdIsNew
            <6>2. MaxRows \in Nat
              BY ExchangeAssumption
            <6> QED BY <1>7, <6>1, <6>2, RowFacts
          <5>3. r \in Row
            <6>1. PICK d \in 1..MaxRows : d = NewId
              BY <5>2
            <6>2. r = [id |-> d, kind |-> k, stack |-> stack, seller |-> c, price |-> price, sale |-> 0]
              BY <1>6, <6>1
            <6> QED BY <1>8, <6>2 DEF Row
          <5> QED BY <4>1, <5>1, <5>2, <5>3
        <4>3. ForSale(R \cup {r}, i) = ForSale(R, i) + (IF r.kind = i THEN Units(i, r.stack) ELSE 0)
          BY <3>1, <4>1, <4>2, RowAdded DEF Ledger
        <4>4. PICK a \in Int : a = ForSale(R, i)
          BY <3>1, <4>1, ForSaleSum DEF Ledger
        <4>5. i # Gil
          BY <3>1, ExchangeAssumption
        <4>6. CASE i = k
          <5>1. ForSale(rows', i) = a + q /\ x = 0 - q
            BY <1>2, <1>3, <1>7, <2>2, <4>1, <4>2, <4>3, <4>4, <4>6
          <5> QED BY <1>11, <4>1, <4>4, <5>1
        <4>7. CASE i # k
          <5>1. ForSale(rows', i) = a + 0 /\ x = 0
            BY <1>7, <2>2, <4>1, <4>2, <4>3, <4>4, <4>5, <4>7
          <5> QED BY <4>1, <4>4, <5>1
        <4> QED BY <4>6, <4>7
      <3> QED BY <3>1
    <2> QED BY <1>7, <2>1, <2>2, <2>3, <2>4, MarketAfter
  <1> QED BY <1>1, <1>7, <1>13, <1>14, OneStep

LEMMA BidFacts ==
  ASSUME TradeInv, Ledger, Tally, Stalls, TradeInv', Ledger', Tally', NEW c \in Char,
         Trouble = {}, craft[c] = <<>>,
         NEW k \in Kind, NEW stack \in BOOLEAN, NEW bid \in Prices, Bid(c, k, stack, bid)
  PROVE  NoMore /\ Stalls'
  <1>1. PICK b \in Bag : b = bag[c]
    BY DEF TradeInv, Bags
  <1>2. PICK q, m : q = Units(k, stack) /\ m = 0 - bid
    OBVIOUS
  <1>3. PICK u : u = AddItemById(b, k, q)
    OBVIOUS
  <1>4. PICK v : v = UpdateItem(u, 0, m)
    OBVIOUS
  <1>5. PICK r \in rows : /\ r.kind = k /\ r.stack = stack /\ r.sale = 0
                          /\ rows' = (rows \ {r}) \cup {[r EXCEPT !.sale = bid]}
                          /\ mail' = [mail EXCEPT ![r.seller] = @ + bid]
    BY DEF Bid
  <1>6. /\ bag' = [bag EXCEPT ![c] = v] /\ ~Busy(c) /\ b[0].qty >= bid
        /\ UNCHANGED <<view, shown, spent, gone>>
    BY <1>1, <1>2, <1>3, <1>4 DEF Bid, bazaarVars
  <1>7. /\ bid \in Nat /\ bid # 0 /\ q \in Nat /\ q <= Stack[k] /\ m \in Int
        /\ b[0].kind = Gil /\ Gil # k /\ q \in Int
    <2>1. bid \in Nat /\ bid # 0 /\ Gil # k
      BY ExchangeAssumption
    <2>2. q \in Nat /\ q <= Stack[k]
      BY <1>2, UnitsFacts
    <2>3. b[0].kind = Gil
      BY <1>1 DEF Stalls, Stall
    <2> QED BY <1>2, <2>1, <2>2, <2>3
  <1>8. PICK z \in Slots : z = 0
    BY Zero
  <1>9. b[z].reserve = 0 /\ b[z].qty \in Nat /\ b[z] # Empty
    <2>1. b[z].reserve = 0
      BY <1>1, <1>6, Idle
    <2>2. b[z] # Empty
      BY <1>7, <1>8, EmptyFacts, ExchangeAssumption
    <2> QED BY <2>1, <2>2, BagFacts
  <1>10. u \in Bag /\ Steady(u, b) /\ Freed(u, b) /\ Has(u, b, k, q) /\ u[z] = b[z]
    BY <1>3, <1>7, <1>9, AddFacts
  <1>11. Moves(b, u, v, k, q, Gil, m)
    <2>1. v = UpdateItem(u, z, m)
      BY <1>4, <1>8
    <2>2. v \in Bag /\ Steady(v, u) /\ Freed(v, u)
      BY <1>7, <1>10, <2>1, UpdateFacts
    <2>3. Has(v, u, Gil, m)
      <3>1. u[z] # Empty /\ u[z].kind = Gil /\ bid <= Unreserved(u[z])
        BY <1>6, <1>7, <1>8, <1>9, <1>10 DEF Unreserved
      <3> QED BY <1>2, <1>7, <1>10, <2>1, <3>1, TakesUnits
    <2>4. Steady(v, b) /\ Freed(v, b)
      BY <1>10, <2>2, SteadyAgain, FreedAgain
    <2> QED BY <1>7, <1>10, <2>2, <2>3, <2>4 DEF Moves
  <1>12. ASSUME NEW i \in Ids
         PROVE  Won(k, q, Gil, m)[i] + Outside(rows', mail', spent', gone', i)
                  <= Outside(rows, mail, spent, gone, i)
    <2>1. PICK x : x = Won(k, q, Gil, m)[i]
      OBVIOUS
    <2>2. x \in Int /\ (i = k => x = q) /\ (i = Gil => x = m) /\ (i # k /\ i # Gil => x = 0)
      BY <1>7, <2>1 DEF Won
    <2>3. i = Gil => x + (SumFunction(mail') + spent') <= SumFunction(mail) + spent
      <3>1. PICK M \in [Char -> Nat], w \in Char : M = mail /\ w = r.seller
        <4>1. r.seller \in Char
          BY RowFacts
        <4> QED BY <4>1 DEF Ledger
      <3>2. SumFunction([M EXCEPT ![w] = @ + bid]) = SumFunction(M) + bid
        BY <1>7, MailSent
      <3>3. PICK a \in Int : a = SumFunction(M)
        BY MailType
      <3>4. PICK p \in Int : p = spent
        BY DEF Tally
      <3>5. (0 - bid) + ((a + bid) + p) <= a + p
        BY <1>7
      <3>6. SumFunction(mail') = a + bid
        BY <1>5, <3>1, <3>2, <3>3
      <3> QED BY <1>2, <1>6, <2>2, <3>1, <3>3, <3>4, <3>5, <3>6
    <2>4. i \in Kind => x + ForSale(rows', i) <= ForSale(rows, i)
      <3>1. ASSUME i \in Kind  PROVE  x + ForSale(rows', i) <= ForSale(rows, i)
        <4>1. PICK R, N : R = rows /\ N = rows'
          OBVIOUS
        <4>2. \E z1 : z1.sale # 0 /\ N = (R \ {r}) \cup {z1}
          <5>1. PICK y : y = [r EXCEPT !.sale = bid]
            OBVIOUS
          <5>2. y.sale = bid
            <6>1. r \in Row
              BY RowFacts
            <6> QED BY <5>1, <6>1 DEF Row
          <5> QED BY <1>5, <1>7, <4>1, <5>1, <5>2
        <4>3. ForSale(N, i) = ForSale(R, i) - (IF r.kind = i THEN Units(i, r.stack) ELSE 0)
          <5>1. IsFiniteSet(R) /\ R \subseteq Row /\ r \in R /\ r.sale = 0
            BY <1>5, <4>1 DEF Ledger
          <5> QED BY <3>1, <4>2, <5>1, RowGone
        <4>4. PICK a \in Int : a = ForSale(R, i)
          BY <3>1, <4>1, ForSaleSum DEF Ledger
        <4>5. i # Gil
          BY <3>1, ExchangeAssumption
        <4>6. CASE i = k
          <5>1. ForSale(N, i) = a - q /\ x = q
            BY <1>2, <1>5, <2>2, <4>3, <4>4, <4>6
          <5> QED BY <1>7, <4>1, <4>4, <5>1
        <4>7. CASE i # k
          <5>1. ForSale(N, i) = a - 0 /\ x = 0
            BY <1>5, <2>2, <4>3, <4>4, <4>5, <4>7
          <5> QED BY <4>1, <4>4, <5>1
        <4> QED BY <4>6, <4>7
      <3> QED BY <3>1
    <2> QED BY <1>6, <2>1, <2>2, <2>3, <2>4, MarketAfter
  <1> QED BY <1>1, <1>6, <1>11, <1>12, OneStep

LEMMA CancelFacts ==
  ASSUME TradeInv, Ledger, Tally, Stalls, TradeInv', Ledger', Tally', NEW c \in Char,
         NEW n \in DOMAIN history[c], CancelSale(c, n)
  PROVE  NoMore /\ Stalls'
  <1>1. PICK b \in Bag : b = bag[c]
    BY DEF TradeInv, Bags
  <1>2. PICK h : h = history[c][n]
    OBVIOUS
  <1>3. PICK k, q : k = h.kind /\ q = Units(h.kind, h.stack)
    OBVIOUS
  <1>4. PICK v : v = AddItemById(b, k, q)
    OBVIOUS
  <1>5. PICK r \in rows : r.kind = k /\ r.stack = h.stack /\ r.sale = 0 /\ rows' = rows \ {r}
    BY <1>2, <1>3 DEF CancelSale, Matching, Unsold
  <1>6. bag' = [bag EXCEPT ![c] = v] /\ UNCHANGED <<view, shown, mail, spent, gone>>
    BY <1>1, <1>2, <1>3, <1>4 DEF CancelSale, bazaarVars
  <1>7. k \in Kind /\ q \in Nat /\ q <= Stack[k] /\ b[0].kind = Gil /\ q \in Int
    <2>1. k \in Kind
      BY <1>2, <1>3 DEF Ledger
    <2>2. q \in Nat /\ q <= Stack[k]
      BY <1>3, <2>1, UnitsFacts
    <2> QED BY <1>1, <2>1, <2>2 DEF Stalls, Stall
  <1>8. Moves(b, v, v, k, q, k, 0)
    <2>1. v \in Bag /\ Steady(v, b) /\ Freed(v, b) /\ Has(v, b, k, q)
      BY <1>4, <1>7, AddFacts
    <2>2. Has(v, v, k, 0)
      BY <2>1, HasSame
    <2> QED BY <1>7, <2>1, <2>2 DEF Moves
  <1>9. ASSUME NEW i \in Ids
        PROVE  Won(k, q, k, 0)[i] + Outside(rows', mail', spent', gone', i)
                 <= Outside(rows, mail, spent, gone, i)
    <2>1. PICK x : x = Won(k, q, k, 0)[i]
      OBVIOUS
    <2>2. x \in Int /\ x = IF i = k THEN q ELSE 0
      BY <1>7, <2>1 DEF Won
    <2>3. i = Gil => x + (SumFunction(mail') + spent') <= SumFunction(mail) + spent
      <3>1. PICK a \in Int : a = SumFunction(mail)
        BY MailType DEF Ledger
      <3>2. PICK p \in Int : p = spent
        BY DEF Tally
      <3>3. k # Gil
        BY <1>7, ExchangeAssumption
      <3>4. 0 + (a + p) <= a + p
        OBVIOUS
      <3> QED BY <1>6, <2>2, <3>1, <3>2, <3>3, <3>4
    <2>4. i \in Kind => x + ForSale(rows', i) <= ForSale(rows, i)
      <3>1. ASSUME i \in Kind  PROVE  x + ForSale(rows', i) <= ForSale(rows, i)
        <4>1. PICK R, N : R = rows /\ N = rows'
          OBVIOUS
        <4>2. N = R \ {r}
          BY <1>5, <4>1
        <4>3. ForSale(N, i) = ForSale(R, i) - (IF r.kind = i THEN Units(i, r.stack) ELSE 0)
          <5>1. IsFiniteSet(R) /\ R \subseteq Row /\ r \in R /\ r.sale = 0
            BY <1>5, <4>1 DEF Ledger
          <5> QED BY <3>1, <4>2, <5>1, RowGone
        <4>4. PICK a \in Int : a = ForSale(R, i)
          BY <3>1, <4>1, ForSaleSum DEF Ledger
        <4>5. CASE i = k
          <5>1. ForSale(N, i) = a - q /\ x = q
            BY <1>3, <1>5, <2>2, <4>3, <4>4, <4>5
          <5> QED BY <1>7, <4>1, <4>4, <5>1
        <4>6. CASE i # k
          <5>1. ForSale(N, i) = a - 0 /\ x = 0
            BY <1>5, <2>2, <4>3, <4>4, <4>6
          <5> QED BY <4>1, <4>4, <5>1
        <4> QED BY <4>5, <4>6
      <3> QED BY <3>1
    <2> QED BY <1>6, <2>1, <2>2, <2>3, <2>4, MarketAfter
  <1> QED BY <1>1, <1>6, <1>8, <1>9, OneStep

\* Another reserve of the same item.
LEMMA ReserveField ==
  ASSUME NEW b \in Bag, NEW s \in Slots, NEW n, NEW j, j = [b[s] EXCEPT !.reserve = n]
  PROVE  j.kind = b[s].kind /\ j.qty = b[s].qty /\ j.price = b[s].price /\ j.reserve = n
  <1>1. PICK i \in Item \cup {Empty} : i = b[s]
    <2>1. b[s] \in Good \cup {Empty}
      BY BagFacts
    <2> QED BY <2>1, ItemFacts
  <1>2. j = [i EXCEPT !.reserve = n]
    BY <1>1
  <1>3. j.kind = i.kind /\ j.qty = i.qty /\ j.price = i.price /\ j.reserve = n
    BY <1>1, <1>2 DEF Item, Empty
  <1> QED BY <1>1, <1>3

\* One bag changes, and its owner knows why its stall is in order.
LEMMA StallStep ==
  ASSUME Stalls, TradeInv, NEW c \in Char, NEW u, bag' = [bag EXCEPT ![c] = u],
         Steady(u, bag[c]), Stall(u), UNCHANGED <<view, shown>>
  PROVE  Stalls'
  <1>1. bag'[c] = u /\ \A x \in Char : x # c => bag'[x] = bag[x]
    BY DEF TradeInv, Bags
  <1>2. \A x \in Char : Stall(bag'[x]) /\ view'[x] # x
    BY <1>1 DEF Stalls
  <1>3. ASSUME NEW x \in Char, NEW p \in Char, view'[x] = p, NEW s \in Slots
        PROVE  bag'[p][s].price = 0 \/ bag'[p][s].price = shown'[x][s]
    <2>1. bag[p][s].price = 0 \/ bag[p][s].price = shown[x][s]
      BY <1>3 DEF Stalls
    <2>2. bag'[p][s].price = 0 \/ bag'[p][s].price = bag[p][s].price
      BY <1>1 DEF Steady
    <2> QED BY <2>1, <2>2
  <1>4. DOMAIN shown' = Char
    BY DEF Stalls
  <1> QED BY <1>2, <1>3, <1>4 DEF Stalls

LEMMA StartFacts ==
  ASSUME TradeInv, Ledger, Tally, Stalls, TradeInv', Ledger', Tally', NEW c \in Char,
         NEW s \in 1..BagSize, NEW m \in [DOMAIN Ingredients -> 1..BagSize], StartSynth(c, s, m)
  PROVE  NoMore /\ Stalls'
  <1>1. PICK b \in Bag : b = bag[c]
    BY DEF TradeInv, Bags
  <1>2. PICK q \in Nat : q = 1
    OBVIOUS
  <1>3. PICK n \in Int : n = 0 - q
    BY <1>2
  <1>4. PICK u : u = UpdateItem(b, s, n)
    OBVIOUS
  <1>5. PICK v : v = [x \in Slots |-> [u[x] EXCEPT !.reserve = @ + Uses(m, x)]]
    OBVIOUS
  <1>6. /\ bag' = [bag EXCEPT ![c] = v] /\ b[s].kind = Crystal /\ Unreserved(b[s]) > 0
        /\ \A i \in DOMAIN m : b[m[i]].price = 0
        /\ gone' = [gone EXCEPT ![Crystal] = @ + 1] /\ UNCHANGED <<view, shown, rows, mail, spent>>
    BY <1>1, <1>2, <1>3, <1>4, <1>5 DEF StartSynth, bazaarVars, auctionVars
  <1>7. s \in Slots /\ Crystal \in Kind /\ Crystal # Gil /\ b[s] # Empty
    BY <1>6, EmptyFacts, ExchangeAssumption DEF Slots
  <1>8. u \in Bag /\ Steady(u, b) /\ Freed(u, b) /\ Has(u, b, Crystal, n)
    <2>1. Unreserved(b[s]) \in Int
      BY <1>7, BagFacts DEF Unreserved
    <2>2. Takes(u, b, s, q)
      BY <1>2, <1>3, <1>4, <1>6, <1>7, <2>1 DEF Takes
    <2> QED BY <1>3, <1>6, <2>2, TakeFacts
  <1>9. v \in Bag
    BY <1>6 DEF TradeInv, Bags
  <1>10. ASSUME NEW x \in Slots
         PROVE  /\ v[x].kind = u[x].kind /\ v[x].qty = u[x].qty /\ v[x].price = u[x].price
                /\ v[x].reserve = u[x].reserve + Uses(m, x)
    <2>1. PICK r : r = u[x].reserve + Uses(m, x)
      OBVIOUS
    <2>2. v[x] = [u[x] EXCEPT !.reserve = r]
      BY <1>5, <2>1
    <2> QED BY <1>8, <2>1, <2>2, ReserveField
  <1>11. Has(v, u, Crystal, 0)
    <2>1. ASSUME NEW k \in Ids  PROVE  InBag(v, k) <= InBag(u, k) + (IF k = Crystal THEN 0 ELSE 0)
      <3>1. InBag(v, k) = InBag(u, k)
        BY <1>8, <1>10, SameItems
      <3>2. InBag(u, k) \in Int
        BY <1>8, InBagType
      <3> QED BY <3>1, <3>2
    <2> QED BY <2>1 DEF Has
  <1>12. PICK d : d = Won(Crystal, n, Crystal, 0)
    OBVIOUS
  <1>13. d \in [Ids -> Int] /\ \A k \in Ids : InBag(v, k) <= InBag(b, k) + d[k]
    <2>1. 0 \in Int
      OBVIOUS
    <2> QED BY <1>8, <1>9, <1>11, <1>12, <2>1, HasTwice
  <1>14. ASSUME NEW i \in Ids
         PROVE  d[i] + Outside(rows', mail', spent', gone', i) <= Outside(rows, mail, spent, gone, i)
    <2>1. PICK x : x = d[i]
      OBVIOUS
    <2>2. x \in Int /\ x = IF i = Crystal THEN 0 - 1 ELSE 0
      BY <1>2, <1>3, <1>12, <2>1 DEF Won
    <2>3. i = Gil => x + spent' <= spent
      <3>1. spent \in Int
        BY DEF Tally
      <3> QED BY <1>6, <1>7, <2>2, <3>1
    <2>4. i \in Kind => x + gone'[i] <= gone[i]
      <3>1. ASSUME i \in Kind  PROVE  x + gone'[i] <= gone[i]
        <4>1. gone[i] \in Int /\ gone'[i] = IF i = Crystal THEN gone[i] + 1 ELSE gone[i]
          BY <1>6, <1>7, <3>1 DEF Tally
        <4> QED BY <2>2, <4>1
      <3> QED BY <3>1
    <2> QED BY <1>6, <2>1, <2>2, <2>3, <2>4, OutsideAfter
  <1>15. NoMore
    BY <1>1, <1>6, <1>9, <1>13, <1>14, OneBalance
  <1>16. Stall(v)
    <2>1. Stall(b)
      BY <1>1 DEF Stalls
    <2>2. v[0].kind = Gil
      BY <1>8, <1>10, <2>1, Zero DEF Stall, Steady
    <2>3. ASSUME NEW x \in Slots, v[x].price > 0  PROVE  v[x].reserve = 0
      <3>1. u[x].price > 0 /\ b[x].price > 0 /\ b[x].price # 0
        BY <1>8, <1>10, <2>3 DEF Steady
      <3>2. b[x].reserve = 0
        BY <2>1, <3>1 DEF Stall
      <3>3. u[x].reserve = 0
        BY <1>8, <3>2 DEF Freed
      <3>4. x \notin Range(m)
        BY <1>6, <3>1 DEF Range
      <3>5. Uses(m, x) = 0
        BY <3>4, RecipeFacts, UsesFacts
      <3> QED BY <1>10, <3>3, <3>5
    <2> QED BY <2>2, <2>3 DEF Stall
  <1>17. Steady(v, b)
    <2>1. Steady(v, u)
      BY <1>10, Zero DEF Steady
    <2> QED BY <1>8, <2>1, SteadyAgain
  <1>18. Stalls'
    BY <1>1, <1>6, <1>16, <1>17, StallStep
  <1> QED BY <1>15, <1>18

\* A synthesis ends: what is lost counts as gone, and n units of j are made.
LEMMA SynthesisEnds ==
  ASSUME TradeInv, Ledger, Tally, TradeInv', Ledger', Tally', NEW c \in Char, craft[c] # <<>>,
         NEW lost \in SUBSET DOMAIN craft[c], NEW j \in Kind, NEW n \in Int,
         NEW u, u = Spent(bag[c], craft[c], lost), NEW v, v \in Bag, Has(v, u, j, n),
         bag' = [bag EXCEPT ![c] = v], UNCHANGED <<rows, mail, spent>>,
         \A k \in Kind : gone'[k] = UsedUp(c, lost)[k] - (IF k = j THEN n ELSE 0)
  PROVE  NoMore
  <1>1. PICK b \in Bag, m \in {craft[c]} : b = bag[c] /\ m = craft[c]
    BY DEF TradeInv, Bags
  <1>2. Crafted(m, b) /\ lost \in SUBSET DOMAIN m /\ u = Spent(b, m, lost) /\ u \in Bag
    <2>1. Crafted(m, b) /\ lost \in SUBSET DOMAIN m /\ u = Spent(b, m, lost)
      BY <1>1 DEF TradeInv, Crafts
    <2> QED BY <2>1, SpentBag
  <1>3. PICK card : card = [k \in Ids |-> Cardinality({i \in lost : b[m[i]].kind = k})]
    OBVIOUS
  <1>4. ASSUME NEW k \in Ids  PROVE  card[k] \in Nat /\ InBag(u, k) = InBag(b, k) - card[k]
    <2>1. card[k] = Cardinality({i \in lost : b[m[i]].kind = k})
      BY <1>3
    <2>2. IsFiniteSet(lost)
      BY <1>2, RecipeFacts, FS_Subset DEF Crafted
    <2>3. PICK L : L = {i \in lost : b[m[i]].kind = k}
      OBVIOUS
    <2>4. L \in SUBSET lost
      BY <2>3
    <2>5. Cardinality(L) \in Nat
      BY <2>2, <2>4, FS_Subset, FS_CardinalityType
    <2>6. InBag(Spent(b, m, lost), k) = InBag(b, k) - Cardinality({i \in lost : b[m[i]].kind = k})
      BY <1>2, SpentUnits
    <2> QED BY <1>2, <2>1, <2>3, <2>5, <2>6
  <1>5. PICK d : d = [k \in Ids |-> (IF k = j THEN n ELSE 0) - card[k]]
    OBVIOUS
  <1>6. d \in [Ids -> Int] /\ \A k \in Ids : InBag(v, k) <= InBag(b, k) + d[k]
    <2>1. ASSUME NEW k \in Ids  PROVE  d[k] \in Int /\ InBag(v, k) <= InBag(b, k) + d[k]
      <3>1. PICK x \in Int, y \in Nat : x = (IF k = j THEN n ELSE 0) /\ y = card[k]
        <4>1. card[k] \in Nat
          BY <1>4
        <4>2. (IF k = j THEN n ELSE 0) \in Int
          OBVIOUS
        <4> QED BY <4>1, <4>2
      <3>2. d[k] = x - y
        BY <1>5, <3>1
      <3>3. PICK p \in Int, q \in Int, r \in Int : p = InBag(b, k) /\ q = InBag(u, k) /\ r = InBag(v, k)
        <4>1. InBag(b, k) \in Int /\ InBag(u, k) \in Int /\ InBag(v, k) \in Int
          BY <1>2, InBagType
        <4> QED BY <4>1
      <3>4. q = p - y /\ r <= q + x
        BY <1>4, <3>1, <3>3 DEF Has
      <3>5. x - y \in Int /\ r <= p + (x - y)
        BY <3>4
      <3> QED BY <3>2, <3>3, <3>5
    <2>2. d \in [Ids -> Int]
      BY <1>5, <2>1
    <2> QED BY <2>1, <2>2
  <1>7. ASSUME NEW k \in Ids
        PROVE  d[k] + Outside(rows', mail', spent', gone', k) <= Outside(rows, mail, spent, gone, k)
    <2>1. PICK x \in Int, y \in Nat : x = (IF k = j THEN n ELSE 0) /\ y = card[k]
      BY <1>4
    <2>2. PICK z \in Int : z = d[k] /\ z = x - y
      BY <1>5, <1>6, <2>1
    <2>3. k = Gil => z + spent' <= spent
      <3>1. spent \in Int /\ spent' = spent /\ (k = Gil => x = 0)
        BY <2>1, ExchangeAssumption DEF Tally
      <3> QED BY <2>2, <3>1
    <2>4. k \in Kind => z + gone'[k] <= gone[k]
      <3>1. ASSUME k \in Kind  PROVE  z + gone'[k] <= gone[k]
        <4>1. PICK g \in Int : g = gone[k]
          BY <3>1 DEF Tally
        <4>2. UsedUp(c, lost)[k] = g + y
          BY <1>1, <1>3, <2>1, <3>1, <4>1 DEF UsedUp
        <4>3. gone'[k] = (g + y) - x
          BY <2>1, <3>1, <4>2
        <4>4. (x - y) + ((g + y) - x) <= g
          OBVIOUS
        <4> QED BY <2>2, <4>1, <4>3, <4>4
      <3> QED BY <3>1
    <2> QED BY <2>2, <2>3, <2>4, OutsideAfter
  <1> QED BY <1>1, <1>6, <1>7, OneBalance

\* What Spent gives.
LEMMA SpentFacts ==
  ASSUME TradeInv, NEW c \in Char, NEW lost \in SUBSET DOMAIN craft[c],
         NEW u, u = Spent(bag[c], craft[c], lost), craft[c] # <<>>
  PROVE  u \in Bag /\ Steady(u, bag[c]) /\ Freed(u, bag[c])
  <1>1. PICK b \in Bag, m \in {craft[c]} : b = bag[c] /\ m = craft[c]
    BY DEF TradeInv, Bags
  <1>2. Crafted(m, b) /\ lost \in SUBSET DOMAIN m /\ u = Spent(b, m, lost)
    BY <1>1 DEF TradeInv, Crafts
  <1>3. u \in Bag /\ \A s \in Slots : u[s].reserve = 0
    BY <1>2, SpentBag
  <1>4. Steady(u, b)
    BY <1>2, SpentSteady
  <1> QED BY <1>1, <1>3, <1>4 DEF Freed

LEMMA FailFacts ==
  ASSUME TradeInv, Ledger, Tally, Stalls, TradeInv', Ledger', Tally', NEW c \in Char,
         NEW lost \in SUBSET DOMAIN craft[c], SynthFails(c, lost)
  PROVE  NoMore /\ Stalls'
  <1>1. PICK u : u = Spent(bag[c], craft[c], lost)
    OBVIOUS
  <1>2. /\ bag' = [bag EXCEPT ![c] = u] /\ gone' = UsedUp(c, lost) /\ craft[c] # <<>>
        /\ UNCHANGED <<rows, mail, spent, view, shown>>
    BY <1>1 DEF SynthFails, bazaarVars, auctionVars
  <1>3. u \in Bag /\ Steady(u, bag[c]) /\ Freed(u, bag[c])
    BY <1>1, <1>2, SpentFacts
  <1>4. PICK j \in Kind, n \in Int : n = 0
    BY ExchangeAssumption
  <1>5. Has(u, u, j, n)
    BY <1>3, <1>4, HasSame
  <1>6. \A k \in Kind : gone'[k] = UsedUp(c, lost)[k] - (IF k = j THEN n ELSE 0)
    <2>1. ASSUME NEW k \in Kind  PROVE  gone'[k] = UsedUp(c, lost)[k] - (IF k = j THEN n ELSE 0)
      <3>1. gone'[k] \in Int
        BY DEF Tally
      <3> QED BY <1>2, <1>4, <3>1
    <2> QED BY <2>1
  <1>7. NoMore
    BY <1>1, <1>2, <1>3, <1>5, <1>6, SynthesisEnds
  <1>8. Stalls'
    BY <1>2, <1>3, OneStalls
  <1> QED BY <1>7, <1>8

LEMMA SucceedFacts ==
  ASSUME TradeInv, Ledger, Tally, Stalls, TradeInv', Ledger', Tally', NEW c \in Char,
         NEW r \in Results, SynthSucceeds(c, r)
  PROVE  NoMore /\ Stalls'
  <1>1. PICK lost \in SUBSET DOMAIN craft[c] : lost = DOMAIN craft[c]
    OBVIOUS
  <1>2. PICK u : u = Spent(bag[c], craft[c], lost)
    OBVIOUS
  <1>3. PICK k, q : k = r.kind /\ q = r.qty
    OBVIOUS
  <1>4. k \in Kind /\ q \in Nat /\ q <= Stack[k] /\ q \in Int
    <2>1. r \in [kind : Kind, qty : Nat \ {0}] /\ r.qty <= Stack[r.kind]
      BY ExchangeAssumption
    <2> QED BY <1>3, <2>1
  <1>5. PICK v : v = AddItemById(u, k, q)
    OBVIOUS
  <1>6. /\ bag' = [bag EXCEPT ![c] = v] /\ gone' = [UsedUp(c, lost) EXCEPT ![k] = @ - q]
        /\ craft[c] # <<>> /\ UNCHANGED <<rows, mail, spent, view, shown>>
    BY <1>1, <1>2, <1>3, <1>5 DEF SynthSucceeds, bazaarVars, auctionVars
  <1>7. u \in Bag /\ Steady(u, bag[c]) /\ Freed(u, bag[c])
    BY <1>2, <1>6, SpentFacts
  <1>8. u[0].kind = Gil
    BY <1>7 DEF Stalls, Stall, Steady
  <1>9. v \in Bag /\ Steady(v, u) /\ Freed(v, u) /\ Has(v, u, k, q)
    BY <1>4, <1>5, <1>7, <1>8, AddFacts
  <1>10. \A x \in Kind : gone'[x] = UsedUp(c, lost)[x] - (IF x = k THEN q ELSE 0)
    <2>1. PICK g : g = UsedUp(c, lost)
      OBVIOUS
    <2>2. g \in [Kind -> Int]
      BY <2>1, UsedUpFacts
    <2>3. ASSUME NEW x \in Kind  PROVE  gone'[x] = g[x] - (IF x = k THEN q ELSE 0)
      <3>1. gone'[x] = IF x = k THEN g[x] - q ELSE g[x]
        BY <1>4, <1>6, <2>1, <2>2
      <3>2. g[x] \in Int
        BY <2>2
      <3> QED BY <3>1, <3>2
    <2> QED BY <2>1, <2>3
  <1>11. NoMore
    BY <1>2, <1>4, <1>6, <1>9, <1>10, SynthesisEnds
  <1>12. Steady(v, bag[c]) /\ Freed(v, bag[c])
    BY <1>7, <1>9, SteadyAgain, FreedAgain
  <1>13. Stalls'
    BY <1>6, <1>12, OneStalls
  <1> QED BY <1>11, <1>13

LEMMA LeaveFacts ==
  ASSUME TradeInv, Ledger, Tally, Stalls, TradeInv', Ledger', Tally', NEW c \in Char,
         NEW lost \in SUBSET DOMAIN craft[c], LeaveZone(c, lost)
  PROVE  NoMore /\ Stalls'
  <1>1. PICK b \in Bag, o \in {offer[c]} : b = bag[c] /\ o = offer[c]
    BY DEF TradeInv, Bags
  <1>2. PICK u : u = Spent(b, craft[c], lost)
    OBVIOUS
  <1>3. PICK v : v = Unreserve(u, o)
    OBVIOUS
  <1>4. /\ bag' = [bag EXCEPT ![c] = v] /\ gone' = UsedUp(c, lost) /\ UNCHANGED <<rows, mail, spent>>
        /\ view' = [view EXCEPT ![c] = None] /\ shown' = [shown EXCEPT ![c] = NoPrices]
    BY <1>1, <1>2, <1>3 DEF LeaveZone
  <1>5. u \in Bag /\ Steady(u, b) /\ Freed(u, b)
    <2>1. CASE craft[c] = <<>>
      <3>1. u = b
        BY <1>2, <2>1, SpentNothing
      <3> QED BY <3>1, SteadySame
    <2>2. CASE craft[c] # <<>>
      BY <1>1, <1>2, <2>2, SpentFacts
    <2> QED BY <2>1, <2>2
  <1>6. /\ v \in Bag /\ \A k : InBag(v, k) = InBag(u, k)
        /\ Steady(v, b) /\ Freed(v, b)
    <2>1. /\ v \in Bag
          /\ \A s \in Slots : v[s].reserve = IF s \in Range(o) THEN 0 ELSE u[s].reserve
      BY <1>3, <1>5, UnreserveBag
    <2>2. Freed(v, u)
      BY <2>1 DEF Freed
    <2>3. Steady(v, u) /\ \A k : InBag(v, k) = InBag(u, k)
      BY <1>3, <1>5, UnreserveSame
    <2> QED BY <1>5, <2>1, <2>2, <2>3, SteadyAgain, FreedAgain
  <1>7. bag'[c] = v /\ \A x \in Char : x # c => bag'[x] = bag[x]
    BY <1>4 DEF TradeInv, Bags
  <1>8. NoMore
    <2>1. CASE craft[c] = <<>>
      <3>1. u = b
        BY <1>2, <2>1, SpentNothing
      <3>2. gone' = gone
        <4>1. ASSUME NEW k \in Kind  PROVE  gone'[k] = gone[k]
          <5>1. lost = {}
            BY <2>1
          <5>2. {i \in lost : bag[c][craft[c][i]].kind = k} = {}
            BY <5>1
          <5>3. gone'[k] = gone[k] + 0
            BY <1>4, <5>2, FS_EmptySet DEF UsedUp
          <5>4. gone[k] \in Int
            BY DEF Tally
          <5> QED BY <5>3, <5>4
        <4>2. gone \in [Kind -> Int] /\ gone' \in [Kind -> Int]
          BY DEF Tally
        <4> QED BY <4>1, <4>2
      <3>3. ASSUME NEW k \in Ids  PROVE  HeldBy(bag', k) <= HeldBy(bag, k)
        <4>1. PICK B \in [Char -> Bag], C \in [Char -> Bag] : B = bag /\ C = bag'
          BY DEF TradeInv, Bags
        <4>2. ASSUME NEW x \in Char  PROVE  InBag(C[x], k) = InBag(B[x], k)
          BY <1>1, <1>6, <1>7, <3>1, <4>1
        <4>3. HeldBy(C, k) = HeldBy(B, k) /\ HeldBy(B, k) \in Int
          BY <4>2, HeldBySame, HeldByType
        <4> QED BY <4>1, <4>3
      <3> QED BY <1>4, <3>2, <3>3, SameBalance
    <2>2. CASE craft[c] # <<>>
      <3>1. PICK j \in Kind, n \in Int : n = 0
        BY ExchangeAssumption
      <3>2. Has(v, u, j, n)
        <4>1. ASSUME NEW k \in Ids  PROVE  InBag(v, k) <= InBag(u, k) + (IF k = j THEN n ELSE 0)
          <5>1. InBag(v, k) = InBag(u, k) /\ InBag(u, k) \in Int
            BY <1>5, <1>6, InBagType
          <5> QED BY <3>1, <5>1
        <4> QED BY <4>1 DEF Has
      <3>3. \A k \in Kind : gone'[k] = UsedUp(c, lost)[k] - (IF k = j THEN n ELSE 0)
        <4>1. ASSUME NEW k \in Kind  PROVE  gone'[k] = UsedUp(c, lost)[k] - (IF k = j THEN n ELSE 0)
          <5>1. gone'[k] \in Int
            BY DEF Tally
          <5> QED BY <1>4, <3>1, <5>1
        <4> QED BY <4>1
      <3> QED BY <1>1, <1>2, <1>4, <1>6, <2>2, <3>2, <3>3, SynthesisEnds
    <2> QED BY <2>1, <2>2
  <1>9. Stalls'
    <2>1. ASSUME NEW x \in Char  PROVE  Steady(bag'[x], bag[x]) /\ Freed(bag'[x], bag[x])
      <3>1. CASE x = c
        BY <1>1, <1>6, <1>7, <3>1
      <3>2. CASE x # c
        BY <1>7, <3>2, SteadySame
      <3> QED BY <3>1, <3>2
    <2>2. DOMAIN shown' = Char
      BY <1>4 DEF Stalls
    <2>3. DOMAIN view = Char
      BY DEF TradeInv, Pairs, Refers
    <2>4. \A x \in Char : view'[x] = None \/ (view'[x] = view[x] /\ shown'[x] = shown[x])
      BY <1>4, <2>2, <2>3
    <2> QED BY <2>1, <2>2, <2>4, StallsKept
  <1> QED BY <1>8, <1>9

LEMMA SetPriceFacts ==
  ASSUME TradeInv, Ledger, Tally, Stalls, TradeInv', Ledger', Tally', NEW c \in Char, Trouble = {},
         NEW s \in 1..BagSize, NEW price \in {0} \cup Prices, SetPrice(c, s, price)
  PROVE  NoMore /\ Stalls'
  <1>1. PICK b \in Bag : b = bag[c]
    BY DEF TradeInv, Bags
  <1>2. PICK j : j = [b[s] EXCEPT !.price = price]
    OBVIOUS
  <1>3. PICK v : v = [b EXCEPT ![s] = j]
    OBVIOUS
  <1>4. /\ b[s] # Empty /\ b[s].reserve = 0 /\ \A x \in Char : view[x] # c
        /\ UNCHANGED <<view, shown, rows, mail, spent, gone>>
    BY <1>1 DEF SetPrice, bazaarVars, auctionVars
  <1>5. bag' = [bag EXCEPT ![c] = v]
    <2>1. bag' = [bag EXCEPT ![c][s].price = price]
      BY DEF SetPrice
    <2> QED BY <1>1, <1>2, <1>3, <2>1
  <1>6. s \in Slots /\ s # 0
    BY ExchangeAssumption DEF Slots
  <1>7. j.kind = b[s].kind /\ j.qty = b[s].qty /\ j.reserve = b[s].reserve
    <2>1. PICK i \in Item : i = b[s]
      BY <1>4, <1>6, BagFacts, ItemFacts
    <2>2. j = [i EXCEPT !.price = price]
      BY <1>2, <2>1
    <2> QED BY <2>1, <2>2 DEF Item
  <1>8. v[s] = j /\ \A x \in Slots : x # s => v[x] = b[x]
    BY <1>3, <1>6, BagFacts
  <1>9. \A k : InBag(v, k) = InBag(b, k)
    <2>1. \A x \in Slots : v[x].kind = b[x].kind /\ v[x].qty = b[x].qty
      BY <1>7, <1>8
    <2> QED BY <2>1, SameItems
  <1>10. bag'[c] = v /\ \A x \in Char : x # c => bag'[x] = bag[x]
    BY <1>5 DEF TradeInv, Bags
  <1>11. NoMore
    <2>1. ASSUME NEW k \in Ids  PROVE  HeldBy(bag', k) <= HeldBy(bag, k)
      <3>1. PICK B \in [Char -> Bag], C \in [Char -> Bag] : B = bag /\ C = bag'
        BY DEF TradeInv, Bags
      <3>2. \A x \in Char : InBag(C[x], k) = InBag(B[x], k)
        BY <1>1, <1>9, <1>10, <3>1
      <3>3. HeldBy(C, k) = HeldBy(B, k) /\ HeldBy(B, k) \in Int
        BY <3>2, HeldBySame, HeldByType
      <3> QED BY <3>1, <3>3
    <2> QED BY <1>4, <2>1, SameBalance
  <1>12. Stall(v)
    <2>1. b[0].kind = Gil /\ \A x \in Slots : b[x].price > 0 => b[x].reserve = 0
      BY <1>1 DEF Stalls, Stall
    <2>2. v[0].kind = Gil
      BY <1>6, <1>8, <2>1, Zero
    <2>3. \A x \in Slots : v[x].price > 0 => v[x].reserve = 0
      BY <1>4, <1>7, <1>8, <2>1
    <2> QED BY <2>2, <2>3 DEF Stall
  <1>13. Stalls'
    <2>1. \A x \in Char : Stall(bag'[x]) /\ view'[x] # x
      BY <1>4, <1>10, <1>12 DEF Stalls
    <2>2. ASSUME NEW x \in Char, NEW p \in Char, view'[x] = p, NEW y \in Slots
          PROVE  bag'[p][y].price = 0 \/ bag'[p][y].price = shown'[x][y]
      <3>1. view[x] = p /\ p # c
        BY <1>4, <2>2
      <3>2. bag'[p] = bag[p] /\ shown' = shown
        BY <1>4, <1>10, <3>1
      <3> QED BY <3>1, <3>2 DEF Stalls
    <2>3. DOMAIN shown' = Char
      BY <1>4 DEF Stalls
    <2> QED BY <2>1, <2>2, <2>3 DEF Stalls
  <1> QED BY <1>11, <1>13

LEMMA ViewFacts ==
  ASSUME TradeInv, Ledger, Tally, Stalls, TradeInv', Ledger', Tally', NEW c \in Char,
         NEW p \in Char, ViewWares(c, p)
  PROVE  NoMore /\ Stalls'
  <1>1. /\ c # p /\ UNCHANGED <<bag, rows, mail, spent, gone>> /\ view' = [view EXCEPT ![c] = p]
        /\ shown' = [shown EXCEPT ![c] = [s \in Slots |-> bag[p][s].price]]
    BY DEF ViewWares, auctionVars
  <1>2. NoMore
    <2>1. ASSUME NEW k \in Ids  PROVE  HeldBy(bag', k) <= HeldBy(bag, k)
      <3>1. PICK B \in [Char -> Bag] : B = bag
        BY DEF TradeInv, Bags
      <3>2. HeldBy(B, k) \in Int
        BY HeldByType
      <3> QED BY <1>1, <3>1, <3>2
    <2> QED BY <1>1, <2>1, SameBalance
  <1>3. Stalls'
    <2>1. DOMAIN view = Char /\ DOMAIN shown = Char
      BY DEF TradeInv, Pairs, Refers, Stalls
    <2>2. /\ view'[c] = p /\ \A x \in Char : x # c => view'[x] = view[x] /\ shown'[x] = shown[x]
          /\ shown'[c] = [s \in Slots |-> bag[p][s].price] /\ DOMAIN shown' = Char
      BY <1>1, <2>1
    <2>3. \A x \in Char : Stall(bag'[x]) /\ view'[x] # x
      BY <1>1, <2>2 DEF Stalls
    <2>4. ASSUME NEW x \in Char, NEW y \in Char, view'[x] = y, NEW s \in Slots
          PROVE  bag'[y][s].price = 0 \/ bag'[y][s].price = shown'[x][s]
      <3>1. CASE x = c
        BY <1>1, <2>2, <2>4, <3>1
      <3>2. CASE x # c
        BY <1>1, <2>2, <2>4, <3>2 DEF Stalls
      <3> QED BY <3>1, <3>2
    <2> QED BY <2>2, <2>3, <2>4 DEF Stalls
  <1> QED BY <1>2, <1>3

\* u is b with n as the reserve of slot s.
Reserves(u, b, s, n) == u = [b EXCEPT ![s].reserve = n]

LEMMA ReserveAt ==
  ASSUME NEW b \in Bag, NEW s \in Slots, NEW n, NEW u, Reserves(u, b, s, n)
  PROVE  \A x \in Slots : /\ u[x].kind = b[x].kind /\ u[x].qty = b[x].qty /\ u[x].price = b[x].price
                          /\ u[x].reserve = IF x = s THEN n ELSE b[x].reserve
  <1>1. PICK j : j = [b[s] EXCEPT !.reserve = n]
    OBVIOUS
  <1>2. j.kind = b[s].kind /\ j.qty = b[s].qty /\ j.price = b[s].price /\ j.reserve = n
    BY <1>1, ReserveField
  <1>3. u[s] = j /\ \A x \in Slots : x # s => u[x] = b[x]
    <2>1. u = [b EXCEPT ![s] = j]
      BY <1>1 DEF Reserves
    <2> QED BY <2>1, BagFacts
  <1> QED BY <1>2, <1>3

LEMMA OfferFacts ==
  ASSUME TradeInv, Ledger, Tally, Stalls, TradeInv', Ledger', Tally', NEW c \in Char, craft[c] = <<>>,
         NEW t \in 1..TradeSlots, NEW s \in Slots, NEW q, TradeOffer(c, t, s, q)
  PROVE  NoMore /\ Stalls'
  <1>1. PICK b \in Bag : b = bag[c]
    BY DEF TradeInv, Bags
  <1>2. PICK old : old = offer[c][t]
    OBVIOUS
  <1>3. PICK u : u = IF old = NoOffer THEN b ELSE [b EXCEPT ![old].reserve = 0]
    OBVIOUS
  <1>4. PICK n : n = IF q > 0 THEN u[s].reserve + q ELSE 0
    OBVIOUS
  <1>5. PICK v : v = [u EXCEPT ![s].reserve = n]
    OBVIOUS
  <1>6. /\ bag' = [bag EXCEPT ![c] = v] /\ b[s].price = 0
        /\ UNCHANGED <<view, shown, rows, mail, spent, gone>>
    <2>1. /\ b[s].price = 0 /\ UNCHANGED <<view, shown, rows, mail, spent, gone>>
          /\ bag' = [bag EXCEPT ![c] = [u EXCEPT ![s].reserve = IF q > 0 THEN @ + q ELSE 0]]
      BY <1>1, <1>2, <1>3 DEF TradeOffer, bazaarVars, auctionVars
    <2> QED BY <1>4, <1>5, <2>1
  <1>7. /\ u \in Bag
        /\ \A x \in Slots : /\ u[x].kind = b[x].kind /\ u[x].qty = b[x].qty /\ u[x].price = b[x].price
                            /\ u[x].reserve = 0 \/ u[x].reserve = b[x].reserve
    <2>1. CASE old = NoOffer
      BY <1>3, <2>1
    <2>2. CASE old # NoOffer
      <3>1. old \in Slots /\ old \in Range(offer[c])
        <4>1. offer[c] \in [1..TradeSlots -> Slots \cup {NoOffer}]
          BY DEF TradeInv, Offers
        <4> QED BY <1>2, <2>2, <4>1 DEF Range
      <3>2. b[old].reserve > 0
        BY <1>1, <3>1 DEF TradeInv, Offers
      <3>3. b[old] # Empty /\ 0 \in Nat /\ 0 <= b[old].qty
        BY <3>1, <3>2, EmptyFacts, BagFacts
      <3>4. u = [b EXCEPT ![old].reserve = 0]
        BY <1>3, <2>2
      <3>5. [b EXCEPT ![old].reserve = 0] \in Bag
        BY <3>1, <3>3, ReserveInBag
      <3>6. PICK z : z = 0
        OBVIOUS
      <3>7. Reserves(u, b, old, z)
        BY <3>4, <3>6 DEF Reserves
      <3>8. \A x \in Slots : /\ u[x].kind = b[x].kind /\ u[x].qty = b[x].qty /\ u[x].price = b[x].price
                             /\ u[x].reserve = IF x = old THEN z ELSE b[x].reserve
        BY <3>1, <3>7, ReserveAt
      <3> QED BY <3>4, <3>5, <3>6, <3>8
    <2> QED BY <2>1, <2>2
  <1>8. \A x \in Slots : /\ v[x].kind = u[x].kind /\ v[x].qty = u[x].qty /\ v[x].price = u[x].price
                         /\ v[x].reserve = IF x = s THEN n ELSE u[x].reserve
    <2>1. Reserves(v, u, s, n)
      BY <1>5 DEF Reserves
    <2> QED BY <1>7, <2>1, ReserveAt
  <1>9. \A k : InBag(v, k) = InBag(b, k)
    <2>1. \A x \in Slots : v[x].kind = b[x].kind /\ v[x].qty = b[x].qty
      BY <1>7, <1>8
    <2> QED BY <2>1, SameItems
  <1>10. bag'[c] = v /\ \A x \in Char : x # c => bag'[x] = bag[x]
    BY <1>6 DEF TradeInv, Bags
  <1>11. NoMore
    <2>1. ASSUME NEW k \in Ids  PROVE  HeldBy(bag', k) <= HeldBy(bag, k)
      <3>1. PICK B \in [Char -> Bag], C \in [Char -> Bag] : B = bag /\ C = bag'
        BY DEF TradeInv, Bags
      <3>2. \A x \in Char : InBag(C[x], k) = InBag(B[x], k)
        BY <1>1, <1>9, <1>10, <3>1
      <3>3. HeldBy(C, k) = HeldBy(B, k) /\ HeldBy(B, k) \in Int
        BY <3>2, HeldBySame, HeldByType
      <3> QED BY <3>1, <3>3
    <2> QED BY <1>6, <2>1, SameBalance
  <1>12. Stall(v) /\ Steady(v, b)
    <2>1. b[0].kind = Gil /\ \A x \in Slots : b[x].price > 0 => b[x].reserve = 0
      BY <1>1 DEF Stalls, Stall
    <2>2. Steady(v, b) /\ v[0].kind = Gil
      BY <1>7, <1>8, <2>1, Zero DEF Steady
    <2>3. ASSUME NEW x \in Slots, v[x].price > 0  PROVE  v[x].reserve = 0
      <3>1. b[x].price > 0 /\ x # s
        BY <1>6, <1>7, <1>8, <2>3
      <3> QED BY <1>7, <1>8, <2>1, <3>1
    <2> QED BY <2>2, <2>3 DEF Stall
  <1>13. Stalls'
    BY <1>1, <1>6, <1>12, StallStep
  <1> QED BY <1>11, <1>13

-----------------------------------------------------------------------------
\* Containers are cleaned: what bags contain is theirs.
LEMMA CleanSame ==
  ASSUME NEW cs, NEW bags \in [Char -> Bag], Clean(cs, bags), NEW x \in Char
  PROVE  /\ \A k : InBag(bag'[x], k) = InBag(bags[x], k)
         /\ Steady(bag'[x], bags[x]) /\ Freed(bag'[x], bags[x])
  <1>1. PICK b \in Bag, o \in {offer[x]} : b = bags[x] /\ o = offer[x]
    OBVIOUS
  <1>2. bag'[x] = IF x \in cs THEN Unreserve(b, o) ELSE b
    BY <1>1 DEF Clean
  <1>3. CASE x \notin cs
    BY <1>1, <1>2, <1>3, SteadySame
  <1>4. CASE x \in cs
    <2>1. PICK v : v = Unreserve(b, o)
      OBVIOUS
    <2>2. /\ v \in Bag
          /\ \A s \in Slots : v[s].reserve = IF s \in Range(o) THEN 0 ELSE b[s].reserve
      BY <2>1, UnreserveBag
    <2>3. Freed(v, b)
      BY <2>2 DEF Freed
    <2>4. Steady(v, b) /\ \A k : InBag(v, k) = InBag(b, k)
      BY <2>1, UnreserveSame
    <2> QED BY <1>1, <1>2, <1>4, <2>1, <2>3, <2>4
  <1> QED BY <1>3, <1>4

LEMMA CleanStep ==
  ASSUME TradeInv, Ledger, Tally, Stalls, TradeInv', Ledger', Tally', NEW cs, Clean(cs, bag),
         UNCHANGED <<view, shown, rows, mail, spent, gone>>
  PROVE  NoMore /\ Stalls'
  <1>1. bag \in [Char -> Bag]
    BY DEF TradeInv, Bags
  <1>2. \A c \in Char : /\ \A k : InBag(bag'[c], k) = InBag(bag[c], k)
                        /\ Steady(bag'[c], bag[c]) /\ Freed(bag'[c], bag[c])
    BY <1>1, CleanSame
  <1>3. DOMAIN shown' = Char
    BY DEF Stalls
  <1> QED BY <1>2, <1>3, SameStep

LEMMA CancelTradeFacts ==
  ASSUME TradeInv, Ledger, Tally, Stalls, TradeInv', Ledger', Tally', NEW c \in Char, TradeCancel(c)
  PROVE  NoMore /\ Stalls'
  <1>1. UNCHANGED <<view, shown, rows, mail, spent, gone>>
    BY DEF TradeCancel, bazaarVars, auctionVars
  <1>2. CASE Present(c)
    <2>1. PICK cs : cs = Cleaned(c, pending[c])
      OBVIOUS
    <2>2. Clean(cs, bag)
      BY <1>2, <2>1 DEF TradeCancel
    <2> QED BY <1>1, <2>2, CleanStep
  <1>3. CASE ~Present(c)
    <2>1. bag' = bag
      BY <1>3 DEF TradeCancel
    <2>2. DOMAIN shown' = Char
      BY <1>1 DEF Stalls
    <2> QED BY <1>1, <2>1, <2>2, NoStep
  <1> QED BY <1>2, <1>3

\* Both trades of an exchange, one after the other.
LEMMA ExchangedTogether ==
  ASSUME TradeInv, Stalls, NEW c \in Char, NEW p \in Char, c # p, NEW E, E = Exchanged(c, p)
  PROVE  /\ \A k \in Ids : InBag(E[c], k) + InBag(E[p], k) <= InBag(bag[c], k) + InBag(bag[p], k)
         /\ Steady(E[c], bag[c]) /\ Steady(E[p], bag[p])
  <1>0. /\ bag \in [Char -> Bag]
        /\ \A x \in Char : offer[x] \in [1..TradeSlots -> Slots \cup {NoOffer}]
    BY DEF TradeInv, Bags, Offers
  <1>1. PICK f \in Bag, g \in Bag : f = bag[c] /\ g = bag[p]
    BY <1>0
  <1>2. PICK o \in [1..TradeSlots -> Slots \cup {NoOffer}], u \in [1..TradeSlots -> Slots \cup {NoOffer}] :
          o = offer[c] /\ u = offer[p]
    BY <1>0
  <1>3. f[0].kind = Gil /\ g[0].kind = Gil
    BY <1>1 DEF Stalls, Stall
  <1>4. PICK one : one = DoTrade(f, g, o)
    OBVIOUS
  <1>5. /\ one.from \in Bag /\ one.to \in Bag
        /\ \A k \in Ids : InBag(one.from, k) + InBag(one.to, k) <= InBag(f, k) + InBag(g, k)
        /\ Steady(one.from, f) /\ Steady(one.to, g)
    <2>1. one.from \in Bag /\ one.to \in Bag
      BY <1>4, TradeBag
    <2> QED BY <1>3, <1>4, <2>1, TradeTogether
  <1>6. PICK h \in Bag, i \in Bag : h = one.to /\ i = one.from
    BY <1>5
  <1>7. i[0].kind = Gil
    BY <1>3, <1>5, <1>6 DEF Steady
  <1>8. PICK two : two = DoTrade(h, i, u)
    OBVIOUS
  <1>9. /\ two.from \in Bag /\ two.to \in Bag
        /\ \A k \in Ids : InBag(two.from, k) + InBag(two.to, k) <= InBag(h, k) + InBag(i, k)
        /\ Steady(two.from, h) /\ Steady(two.to, i)
    <2>1. two.from \in Bag /\ two.to \in Bag
      BY <1>8, TradeBag
    <2> QED BY <1>7, <1>8, <2>1, TradeTogether
  <1>10. PICK mine \in Bag, theirs \in Bag : mine = two.to /\ theirs = two.from
    BY <1>9
  <1>11. E[c] = mine /\ E[p] = theirs
    <2>1. E = [bag EXCEPT ![c] = mine, ![p] = theirs]
      BY <1>1, <1>2, <1>4, <1>6, <1>8, <1>10 DEF Exchanged
    <2> QED BY <1>0, <2>1
  <1>12. ASSUME NEW k \in Ids
         PROVE  InBag(mine, k) + InBag(theirs, k) <= InBag(f, k) + InBag(g, k)
    <2>1. PICK a \in Int, b \in Int, d \in Int, e \in Int, x \in Int, y \in Int :
            /\ a = InBag(f, k) /\ b = InBag(g, k) /\ d = InBag(h, k) /\ e = InBag(i, k)
            /\ x = InBag(mine, k) /\ y = InBag(theirs, k)
      <3>1. /\ InBag(f, k) \in Int /\ InBag(g, k) \in Int /\ InBag(h, k) \in Int /\ InBag(i, k) \in Int
            /\ InBag(mine, k) \in Int /\ InBag(theirs, k) \in Int
        BY InBagType
      <3> QED BY <3>1
    <2>2. e + d <= a + b /\ y + x <= d + e
      BY <1>5, <1>6, <1>9, <1>10, <2>1
    <2>3. x + y <= a + b
      BY <2>2
    <2> QED BY <2>1, <2>3
  <1>13. Steady(mine, f) /\ Steady(theirs, g)
    <2>1. Steady(mine, i) /\ Steady(i, f) /\ Steady(theirs, h) /\ Steady(h, g)
      BY <1>5, <1>6, <1>9, <1>10
    <2> QED BY <2>1, SteadyAgain
  <1> QED BY <1>1, <1>11, <1>12, <1>13

LEMMA AcceptFacts ==
  ASSUME TradeInv, Ledger, Tally, Stalls, TradeInv', Ledger', Tally', NEW c \in Char, TradeAccept(c)
  PROVE  NoMore /\ Stalls'
  <1>1. Pairs /\ window[c] /\ UNCHANGED <<view, shown, rows, mail, spent, gone>>
    BY DEF TradeInv, TradeAccept, bazaarVars, auctionVars
  <1>2. trading[c]
    BY <1>1 DEF Pairs
  <1>3. PICK p \in Char : p = pending[c] /\ p # c
    BY <1>1, <1>2 DEF Pairs
  <1>4. DOMAIN shown' = Char
    BY <1>1 DEF Stalls
  <1>5. CASE ~lock[p]
    <2>1. bag' = bag
      BY <1>3, <1>5 DEF TradeAccept
    <2> QED BY <1>1, <1>4, <2>1, NoStep
  <1>6. CASE lock[p]
    <2>1. PICK bags : bags = IF CanTrade(c, p) /\ CanTrade(p, c) THEN Exchanged(c, p) ELSE bag
      OBVIOUS
    <2>2. PICK cs : cs = {c, p}
      OBVIOUS
    <2>3. Clean(cs, bags)
      BY <1>3, <1>6, <2>1, <2>2 DEF TradeAccept
    <2>4. CASE bags = bag
      <3>1. Clean(cs, bag)
        BY <2>3, <2>4
      <3> QED BY <1>1, <3>1, CleanStep
    <2>5. CASE bags = Exchanged(c, p)
      <3>1. /\ bags \in [Char -> Bag]
            /\ \A x \in Char : x \notin {c, p} => bags[x] = bag[x]
            /\ Freed(bags[c], bag[c]) /\ Freed(bags[p], bag[p])
        BY <1>3, <2>5, ExchangedBags
      <3>2. /\ \A k \in Ids : InBag(bags[c], k) + InBag(bags[p], k) <= InBag(bag[c], k) + InBag(bag[p], k)
            /\ Steady(bags[c], bag[c]) /\ Steady(bags[p], bag[p])
        BY <1>3, <2>5, ExchangedTogether
      <3>3. ASSUME NEW x \in Char
            PROVE  /\ \A k : InBag(bag'[x], k) = InBag(bags[x], k)
                   /\ Steady(bag'[x], bags[x]) /\ Freed(bag'[x], bags[x])
        BY <2>3, <3>1, CleanSame
      <3>4. ASSUME NEW x \in Char  PROVE  Steady(bag'[x], bag[x]) /\ Freed(bag'[x], bag[x])
        <4>1. Steady(bags[x], bag[x]) /\ Freed(bags[x], bag[x])
          <5>1. CASE x \in {c, p}
            BY <3>1, <3>2, <5>1
          <5>2. CASE x \notin {c, p}
            BY <3>1, <5>2, SteadySame
          <5> QED BY <5>1, <5>2
        <4> QED BY <3>3, <4>1, SteadyAgain, FreedAgain
      <3>5. Stalls'
        BY <1>1, <1>4, <3>4, StallsKept
      <3>6. \A x \in Char : x \notin {c, p} => bag'[x] = bag[x]
        BY <2>2, <2>3, <3>1 DEF Clean
      <3>7. PICK d : d = [k \in Ids |-> 0]
        OBVIOUS
      <3>8. d \in [Ids -> Int]
        BY <3>7
      <3>9. ASSUME NEW k \in Ids
            PROVE  /\ InBag(bag'[c], k) + InBag(bag'[p], k) <= InBag(bag[c], k) + InBag(bag[p], k) + d[k]
                   /\ d[k] + Outside(rows', mail', spent', gone', k) <= Outside(rows, mail, spent, gone, k)
        <4>1. d[k] = 0
          BY <3>7
        <4>2. PICK a \in Int, b \in Int : a = InBag(bag[c], k) /\ b = InBag(bag[p], k)
          <5>1. bag[c] \in Bag /\ bag[p] \in Bag
            BY DEF TradeInv, Bags
          <5>2. InBag(bag[c], k) \in Int /\ InBag(bag[p], k) \in Int
            BY <5>1, InBagType
          <5> QED BY <5>2
        <4>3. InBag(bag'[c], k) + InBag(bag'[p], k) <= a + b
          <5>1. InBag(bag'[c], k) = InBag(bags[c], k) /\ InBag(bag'[p], k) = InBag(bags[p], k)
            BY <3>3
          <5> QED BY <3>2, <4>2, <5>1
        <4>4. a + b = a + b + 0
          OBVIOUS
        <4>5. Outside(rows', mail', spent', gone', k) = Outside(rows, mail, spent, gone, k)
          BY <1>1
        <4>6. Outside(rows, mail, spent, gone, k) \in Int
          BY SoundFacts, OutsideType
        <4>7. d[k] + Outside(rows', mail', spent', gone', k) <= Outside(rows, mail, spent, gone, k)
          BY <4>1, <4>5, <4>6
        <4>8. InBag(bag'[c], k) + InBag(bag'[p], k) <= InBag(bag[c], k) + InBag(bag[p], k) + d[k]
          BY <4>1, <4>2, <4>3, <4>4
        <4> QED BY <4>7, <4>8
      <3>10. NoMore
        BY <1>3, <3>6, <3>8, <3>9, TwoBalance
      <3> QED BY <3>5, <3>10
    <2> QED BY <2>1, <2>4, <2>5
  <1> QED BY <1>5, <1>6

LEMMA WithTaxType ==
  ASSUME NEW n \in Nat
  PROVE  WithTax(n) \in Nat
  <1>1. Tax * n \in Nat
    BY ExchangeAssumption
  <1>2. PICK m \in Nat : m = Tax * n
    BY <1>1
  <1>3. WithTax(n) = m \div 10000 + n
    BY <1>2 DEF WithTax
  <1>4. m \div 10000 \in Nat
    OBVIOUS
  <1> QED BY <1>3, <1>4

\* A purchase: u is the bag of the customer afterwards, v the one of the seller.
Sale(b, e, s, q, k, sum, w, u, v) ==
  /\ k \in Kind /\ q \in Nat /\ q <= Stack[k] /\ sum \in Nat /\ w \in Nat
  /\ u = UpdateItem(AddItem(b, k, q), 0, 0 - w)
  /\ v = UpdateItem(UpdateItem(e, 0, sum), s, 0 - q)
  /\ b[0].kind = Gil /\ b[0].reserve = 0 /\ w <= b[0].qty
  /\ e[0].kind = Gil /\ s \in Slots /\ s # 0 /\ e[s] # Empty /\ e[s].kind = k
  /\ e[s].reserve = 0 /\ q <= e[s].qty

LEMMA CustomerPays ==
  ASSUME NEW b \in Bag, NEW e, NEW s, NEW q, NEW k, NEW sum, NEW w, NEW u, NEW v,
         Sale(b, e, s, q, k, sum, w, u, v), NEW i \in Ids
  PROVE  /\ Steady(u, b) /\ Freed(u, b)
         /\ InBag(u, i) <= InBag(b, i) + Won(k, q, Gil, 0 - w)[i]
  <1>1. /\ k \in Kind /\ q \in Nat /\ q <= Stack[k] /\ w \in Nat
        /\ u = UpdateItem(AddItem(b, k, q), 0, 0 - w)
        /\ b[0].kind = Gil /\ b[0].reserve = 0 /\ w <= b[0].qty
    BY DEF Sale
  <1>2. PICK z \in Slots : z = 0
    BY Zero
  <1>3. PICK goods : goods = AddItem(b, k, q)
    OBVIOUS
  <1>4. b[z] # Empty /\ b[z].qty \in Nat
    <2>1. b[z] # Empty
      BY <1>1, <1>2, EmptyFacts, ExchangeAssumption
    <2> QED BY <2>1, BagFacts
  <1>5. goods \in Bag /\ Steady(goods, b) /\ Freed(goods, b) /\ Has(goods, b, k, q) /\ goods[z] = b[z]
    BY <1>1, <1>3, <1>4, AddFacts
  <1>6. Takes(u, goods, z, w)
    <2>1. w <= Unreserved(goods[z])
      BY <1>1, <1>2, <1>4, <1>5 DEF Unreserved
    <2> QED BY <1>1, <1>2, <1>3, <1>4, <1>5, <2>1 DEF Takes
  <1>7. u \in Bag /\ Steady(u, goods) /\ Freed(u, goods) /\ Has(u, goods, goods[z].kind, 0 - w)
    BY <1>5, <1>6, TakeFacts
  <1>8. PICK m \in Int : m = 0 - w
    BY <1>1
  <1>9. Has(u, goods, Gil, m) /\ q \in Int
    BY <1>1, <1>2, <1>5, <1>7, <1>8
  <1>10. InBag(u, i) <= InBag(b, i) + Won(k, q, Gil, m)[i]
    BY <1>5, <1>7, <1>9, HasTwice
  <1>11. Steady(u, b) /\ Freed(u, b)
    BY <1>5, <1>7, SteadyAgain, FreedAgain
  <1> QED BY <1>8, <1>10, <1>11

LEMMA SellerDelivers ==
  ASSUME NEW b, NEW e \in Bag, NEW s, NEW q, NEW k, NEW sum, NEW w, NEW u, NEW v,
         Sale(b, e, s, q, k, sum, w, u, v), NEW i \in Ids
  PROVE  /\ Steady(v, e) /\ Freed(v, e)
         /\ InBag(v, i) <= InBag(e, i) + Won(Gil, sum, k, 0 - q)[i]
  <1>1. /\ k \in Kind /\ q \in Nat /\ sum \in Nat /\ sum \in Int
        /\ v = UpdateItem(UpdateItem(e, 0, sum), s, 0 - q)
        /\ e[0].kind = Gil /\ s \in Slots /\ s # 0 /\ e[s] # Empty /\ e[s].kind = k
        /\ e[s].reserve = 0 /\ q <= e[s].qty
    BY DEF Sale
  <1>2. PICK z \in Slots : z = 0
    BY Zero
  <1>3. PICK paid : paid = UpdateItem(e, 0, sum)
    OBVIOUS
  <1>4. /\ paid \in Bag /\ Steady(paid, e) /\ Freed(paid, e) /\ paid[s] = e[s]
    BY <1>1, <1>3, GilFacts
  <1>5. Has(paid, e, Gil, sum)
    <2>1. Has(UpdateItem(e, z, sum), e, e[z].kind, sum)
      BY <1>1, <1>2, AddsUnits
    <2> QED BY <1>1, <1>2, <1>3, <2>1
  <1>6. Takes(v, paid, s, q)
    <2>1. e[s].qty \in Nat
      BY <1>1, BagFacts
    <2>2. q <= Unreserved(paid[s])
      BY <1>1, <1>4, <2>1 DEF Unreserved
    <2> QED BY <1>1, <1>3, <1>4, <2>2 DEF Takes
  <1>7. v \in Bag /\ Steady(v, paid) /\ Freed(v, paid) /\ Has(v, paid, paid[s].kind, 0 - q)
    BY <1>4, <1>6, TakeFacts
  <1>8. PICK n \in Int : n = 0 - q
    BY <1>1
  <1>9. Has(v, paid, k, n)
    BY <1>1, <1>4, <1>7, <1>8
  <1>10. InBag(v, i) <= InBag(e, i) + Won(Gil, sum, k, n)[i]
    BY <1>1, <1>4, <1>5, <1>7, <1>9, HasTwice
  <1>11. Steady(v, e) /\ Freed(v, e)
    BY <1>4, <1>7, SteadyAgain, FreedAgain
  <1> QED BY <1>8, <1>10, <1>11

LEMMA PurchaseFacts ==
  ASSUME TradeInv, Ledger, Tally, Stalls, TradeInv', Ledger', Tally', NEW c \in Char,
         Trouble = {}, craft[c] = <<>>,
         NEW s \in 1..BagSize, NEW q \in Quantity, Purchase(c, s, q)
  PROVE  NoMore /\ Stalls'
  <1>1. PICK p \in Char : p = view[c] /\ c # p
    <2>1. view[c] \in Char
      BY DEF Purchase, TradeInv, Pairs, Refers
    <2> QED BY <2>1 DEF Stalls
  <1>2. PICK b \in Bag, e \in Bag : b = bag[c] /\ e = bag[p]
    BY DEF TradeInv, Bags
  <1>3. PICK k, price : k = e[s].kind /\ price = e[s].price
    OBVIOUS
  <1>4. PICK sum, w : sum = price * q /\ w = WithTax(price * q)
    OBVIOUS
  <1>5. PICK u, v : /\ u = UpdateItem(AddItem(b, k, q), 0, 0 - w)
                    /\ v = UpdateItem(UpdateItem(e, 0, sum), s, 0 - q)
    OBVIOUS
  <1>6. /\ bag' = [bag EXCEPT ![c] = u, ![p] = v] /\ spent' = spent + (w - sum)
        /\ price # 0 /\ e[s].qty >= q /\ ~Busy(c)
        /\ WithTax(shown[c][s] * q) <= b[0].qty /\ UNCHANGED <<view, shown, rows, mail, gone>>
    BY <1>1, <1>2, <1>3, <1>4, <1>5 DEF Purchase, auctionVars
  <1>7. s \in Slots /\ s # 0 /\ q \in Nat /\ q >= 1 /\ q \in Int
    BY QuantityFacts, ExchangeAssumption DEF Slots
  <1>8. e[s] # Empty /\ e[s].qty \in Nat
    BY <1>6, <1>7, EmptyFacts, BagFacts
  <1>9. k \in Kind /\ q <= Stack[k] /\ price \in Nat
    <2>1. k \in Kind /\ Stack[k] \in Nat /\ e[s].qty <= Stack[k]
      BY <1>2, <1>3, <1>8, SlotFacts
    <2>2. price \in Nat
      BY <1>3, <1>7, BagFacts
    <2> QED BY <1>6, <1>7, <1>8, <2>1, <2>2
  <1>10. sum \in Nat /\ w \in Nat
    <2>1. sum \in Nat
      BY <1>4, <1>7, <1>9
    <2> QED BY <1>4, <2>1, WithTaxType
  <1>11. Sale(b, e, s, q, k, sum, w, u, v)
    <2>1. b[0].kind = Gil /\ e[0].kind = Gil
      BY <1>2 DEF Stalls, Stall
    <2>2. b[0].reserve = 0
      BY <1>2, <1>6, Zero, Idle
    <2>3. e[s].reserve = 0
      <3>1. e[s].price > 0
        BY <1>3, <1>6, <1>9
      <3> QED BY <1>2, <1>7, <3>1 DEF Stalls, Stall
    <2>4. w <= b[0].qty
      <3>1. price = shown[c][s]
        BY <1>1, <1>2, <1>3, <1>6, <1>7 DEF Stalls
      <3> QED BY <1>4, <1>6, <3>1
    <2>5. q <= e[s].qty
      BY <1>6, <1>7, <1>8
    <2> QED BY <1>3, <1>5, <1>7, <1>8, <1>9, <1>10, <2>1, <2>2, <2>3, <2>4, <2>5 DEF Sale
  <1>12. bag'[c] = u /\ bag'[p] = v /\ \A x \in Char : x \notin {c, p} => bag'[x] = bag[x]
    BY <1>1, <1>6 DEF TradeInv, Bags
  <1>13. PICK n \in Int, m \in Int : n = 0 - q /\ m = 0 - w
    BY <1>7, <1>10
  <1>14. PICK d : d = [i \in Ids |-> IF i = Gil THEN sum - w ELSE 0]
    OBVIOUS
  <1>15. d \in [Ids -> Int]
    BY <1>10, <1>14
  <1>16. ASSUME NEW i \in Ids
         PROVE  InBag(bag'[c], i) + InBag(bag'[p], i) <= InBag(bag[c], i) + InBag(bag[p], i) + d[i]
    <2>1. PICK x, y : x = Won(k, q, Gil, m)[i] /\ y = Won(Gil, sum, k, n)[i]
      OBVIOUS
    <2>2. InBag(u, i) <= InBag(b, i) + x /\ InBag(v, i) <= InBag(e, i) + y
      BY <1>11, <1>13, <2>1, CustomerPays, SellerDelivers
    <2>3. PICK f \in Int, g \in Int, h \in Int, j \in Int :
            f = InBag(b, i) /\ g = InBag(e, i) /\ h = InBag(u, i) /\ j = InBag(v, i)
      <3>1. InBag(b, i) \in Int /\ InBag(e, i) \in Int
        BY InBagType
      <3>2. InBag(u, i) \in Int /\ InBag(v, i) \in Int
        <4>1. u \in Bag /\ v \in Bag
          BY <1>12 DEF TradeInv, Bags
        <4> QED BY <4>1, InBagType
      <3> QED BY <3>1, <3>2
    <2>4. x \in Int /\ y \in Int /\ x + y = d[i]
      <3>1. k # Gil
        BY <1>9, ExchangeAssumption
      <3>2. /\ x = (IF i = k THEN q ELSE 0) + (IF i = Gil THEN m ELSE 0)
            /\ y = (IF i = Gil THEN sum ELSE 0) + (IF i = k THEN n ELSE 0)
            /\ d[i] = IF i = Gil THEN sum - w ELSE 0
        BY <1>14, <2>1 DEF Won
      <3> QED BY <1>7, <1>10, <1>13, <3>1, <3>2
    <2>5. h + j <= f + g + (x + y)
      <3>1. h <= f + x /\ j <= g + y
        BY <2>2, <2>3
      <3>2. x \in Int /\ y \in Int
        BY <2>4
      <3> QED BY <3>1, <3>2
    <2> QED BY <1>2, <1>12, <2>3, <2>4, <2>5
  <1>17. ASSUME NEW i \in Ids
         PROVE  d[i] + Outside(rows', mail', spent', gone', i) <= Outside(rows, mail, spent, gone, i)
    <2>1. PICK x \in Int : x = d[i]
      BY <1>15
    <2>2. i = Gil => x + spent' <= spent
      <3>1. spent \in Int /\ (i = Gil => x = sum - w)
        BY <1>14, <2>1 DEF Tally
      <3> QED BY <1>6, <1>10, <3>1
    <2>3. i \in Kind => x + gone'[i] <= gone[i]
      <3>1. ASSUME i \in Kind  PROVE  x + gone'[i] <= gone[i]
        <4>1. gone[i] \in Int /\ x = 0
          BY <1>14, <2>1, <3>1, ExchangeAssumption DEF Tally
        <4> QED BY <1>6, <4>1
      <3> QED BY <3>1
    <2> QED BY <1>6, <2>1, <2>2, <2>3, OutsideAfter
  <1>18. NoMore
    BY <1>1, <1>12, <1>15, <1>16, <1>17, TwoBalance
  <1>19. Stalls'
    <2>1. ASSUME NEW x \in Char  PROVE  Steady(bag'[x], bag[x]) /\ Freed(bag'[x], bag[x])
      <3>1. CASE x = c
        <4>1. Gil \in Ids
          BY DEF Ids
        <4> QED BY <1>2, <1>11, <1>12, <3>1, <4>1, CustomerPays
      <3>2. CASE x = p
        <4>1. Gil \in Ids
          BY DEF Ids
        <4> QED BY <1>2, <1>11, <1>12, <3>2, <4>1, SellerDelivers
      <3>3. CASE x \notin {c, p}
        BY <1>12, <3>3, SteadySame
      <3> QED BY <3>1, <3>2, <3>3
    <2>2. DOMAIN shown' = Char
      BY <1>6 DEF Stalls
    <2> QED BY <1>6, <2>1, <2>2, StallsKept
  <1> QED BY <1>18, <1>19

LEMMA TradeMakesNothing ==
  ASSUME TradeInv, Ledger, Tally, Stalls, TradeInv', Ledger', Tally', NEW c \in Char, craft[c] = <<>>, Trade(c)
  PROVE  NoMore /\ Stalls'
  <1>1. ASSUME NEW p, TradeRequest(c, p)  PROVE  NoMore /\ Stalls'
    <2>1. UNCHANGED <<bag, view, shown, rows, mail, spent, gone>>
      BY <1>1 DEF TradeRequest, bazaarVars, auctionVars
    <2>2. DOMAIN shown' = Char
      BY <2>1 DEF Stalls
    <2> QED BY <2>1, <2>2, NoStep
  <1>2. ASSUME NEW near, TradeBegin(c, near)  PROVE  NoMore /\ Stalls'
    <2>1. UNCHANGED <<bag, view, shown, rows, mail, spent, gone>>
      BY <1>2 DEF TradeBegin, bazaarVars, auctionVars
    <2>2. DOMAIN shown' = Char
      BY <2>1 DEF Stalls
    <2> QED BY <2>1, <2>2, NoStep
  <1>3. ASSUME NEW t \in 1..TradeSlots, NEW s \in Slots, NEW q, TradeOffer(c, t, s, q)
        PROVE  NoMore /\ Stalls'
    BY <1>3, OfferFacts
  <1>4. ASSUME TradeCancel(c) \/ TradeAccept(c)  PROVE  NoMore /\ Stalls'
    BY <1>4, CancelTradeFacts, AcceptFacts
  <1> QED BY <1>1, <1>2, <1>3, <1>4 DEF Trade

LEMMA BazaarMakesNothing ==
  ASSUME TradeInv, Ledger, Tally, Stalls, TradeInv', Ledger', Tally', NEW c \in Char, Trouble = {},
         craft[c] = <<>>, Bazaar(c)
  PROVE  NoMore /\ Stalls'
  <1>1. ASSUME NEW s \in 1..BagSize, NEW price \in {0} \cup Prices, SetPrice(c, s, price)
        PROVE  NoMore /\ Stalls'
    BY <1>1, SetPriceFacts
  <1>2. ASSUME OpenBazaar(c) \/ CloseBazaar(c)  PROVE  NoMore /\ Stalls'
    <2>1. UNCHANGED <<bag, view, shown, rows, mail, spent, gone>>
      BY <1>2 DEF OpenBazaar, CloseBazaar, auctionVars
    <2>2. DOMAIN shown' = Char
      BY <2>1 DEF Stalls
    <2> QED BY <2>1, <2>2, NoStep
  <1>3. ASSUME NEW p \in Char, ViewWares(c, p)  PROVE  NoMore /\ Stalls'
    BY <1>3, ViewFacts
  <1>4. ASSUME LeaveWares(c)  PROVE  NoMore /\ Stalls'
    <2>1. /\ UNCHANGED <<bag, rows, mail, spent, gone>>
          /\ view' = [view EXCEPT ![c] = None] /\ shown' = [shown EXCEPT ![c] = NoPrices]
      BY <1>4 DEF LeaveWares, auctionVars
    <2>2. DOMAIN view = Char /\ DOMAIN shown = Char
      BY DEF TradeInv, Pairs, Refers, Stalls
    <2>3. DOMAIN shown' = Char /\ \A x \in Char : view'[x] = None \/ (view'[x] = view[x] /\ shown'[x] = shown[x])
      BY <2>1, <2>2
    <2> QED BY <2>1, <2>3, NoStep
  <1>5. ASSUME NEW s \in 1..BagSize, NEW q \in Quantity, Purchase(c, s, q)  PROVE  NoMore /\ Stalls'
    BY <1>5, PurchaseFacts
  <1> QED BY <1>1, <1>2, <1>3, <1>4, <1>5 DEF Bazaar

LEMMA AuctionMakesNothing ==
  ASSUME TradeInv, Ledger, Tally, Stalls, TradeInv', Ledger', Tally', NEW c \in Char, Trouble = {},
         craft[c] = <<>>, Auction(c)
  PROVE  NoMore /\ Stalls'
  <1>1. ASSUME RefreshHistory(c)  PROVE  NoMore /\ Stalls'
    <2>1. UNCHANGED <<bag, view, shown, rows, mail, spent, gone>>
      BY <1>1 DEF RefreshHistory, bazaarVars
    <2>2. DOMAIN shown' = Char
      BY <2>1 DEF Stalls
    <2> QED BY <2>1, <2>2, NoStep
  <1> QED BY <1>1, PlaceFacts, BidFacts, CancelFacts DEF Auction

LEMMA AloneMakesNothing ==
  ASSUME TradeInv, Ledger, Tally, Stalls, TradeInv', Ledger', Tally', NEW c \in Char, Trouble = {},
         craft[c] = <<>>, Alone(c)
  PROVE  NoMore /\ Stalls'
  <1>1. ASSUME EnterZone(c)  PROVE  NoMore /\ Stalls'
    <2>1. UNCHANGED <<bag, view, shown, rows, mail, spent, gone>>
      BY <1>1 DEF EnterZone, bazaarVars, auctionVars
    <2>2. DOMAIN shown' = Char
      BY <2>1 DEF Stalls
    <2> QED BY <2>1, <2>2, NoStep
  <1> QED BY <1>1, DropFacts, SplitFacts, SellFacts, MergeFacts DEF Alone

LEMMA StepMakesNothing ==
  ASSUME Trouble = {}, TradeInv, Ledger, Tally, Stalls, TradeInv', Ledger', Tally', [Next]_vars
  PROVE  NoMore /\ Stalls'
  <1>1. CASE UNCHANGED vars
    <2>1. UNCHANGED <<bag, view, shown, rows, mail, spent, gone>>
      BY <1>1 DEF vars, bazaarVars, auctionVars
    <2>2. DOMAIN shown' = Char
      BY <2>1 DEF Stalls
    <2> QED BY <2>1, <2>2, NoStep
  <1>2. ASSUME NEW c \in Char, Synthesis(c)  PROVE  NoMore /\ Stalls'
    BY <1>2, StartFacts, FailFacts, LeaveFacts, SucceedFacts DEF Synthesis
  <1> QED BY <1>1, <1>2, TradeMakesNothing, BazaarMakesNothing, AuctionMakesNothing, AloneMakesNothing DEF Next

\* The sums are sums.
LEMMA SumsAre ==
  ASSUME NEW B, NEW R, NEW m, NEW n, NEW g, Sound(B, R, m, n, g)
  PROVE  /\ \A k \in Kind : HeldBy(B, k) + ForSale(R, k) + g[k] \in Int
         /\ HeldBy(B, Gil) + SumFunction(m) + n \in Int
  <1>1. ASSUME NEW k \in Kind  PROVE  HeldBy(B, k) + ForSale(R, k) + g[k] \in Int
    <2>1. k \in Ids
      BY DEF Ids
    <2>2. HeldBy(B, k) \in Int /\ ForSale(R, k) \in Int /\ g[k] \in Int
      BY <2>1, OutsideType
    <2> QED BY <2>2
  <1>2. HeldBy(B, Gil) + SumFunction(m) + n \in Int
    <2>1. Gil \in Ids
      BY DEF Ids
    <2>2. HeldBy(B, Gil) \in Int /\ SumFunction(m) \in Int /\ n \in Int
      BY <2>1, OutsideType DEF Sound
    <2> QED BY <2>2
  <1> QED BY <1>1, <1>2

LEMMA GoodsType ==
  ASSUME TradeInv, Ledger, Tally, TradeInv', Ledger', Tally'
  PROVE  /\ \A k \in Kind : Goods(k) \in Int /\ Goods(k)' \in Int
         /\ Money \in Int /\ Money' \in Int
  <1>1. Sound(bag, rows, mail, spent, gone)
    BY SoundFacts
  <1>2. Sound(bag', rows', mail', spent', gone')
    BY DEF TradeInv, Bags, Ledger, Tally, Sound
  <1>3. /\ \A k \in Kind : HeldBy(bag, k) + ForSale(rows, k) + gone[k] \in Int
        /\ HeldBy(bag, Gil) + SumFunction(mail) + spent \in Int
    BY <1>1, SumsAre
  <1>4. /\ \A k \in Kind : HeldBy(bag', k) + ForSale(rows', k) + gone'[k] \in Int
        /\ HeldBy(bag', Gil) + SumFunction(mail') + spent' \in Int
    BY <1>2, SumsAre
  <1>5. ASSUME NEW k \in Kind  PROVE  Goods(k) \in Int /\ Goods(k)' \in Int
    <2>1. /\ Goods(k) = HeldBy(bag, k) + ForSale(rows, k) + gone[k]
          /\ Goods(k)' = HeldBy(bag', k) + ForSale(rows', k) + gone'[k]
      BY DEF Goods, Held, OnSale, HeldBy, ForSale
    <2> QED BY <1>3, <1>4, <2>1
  <1>6. Money \in Int /\ Money' \in Int
    <2>1. /\ Money = HeldBy(bag, Gil) + SumFunction(mail) + spent
          /\ Money' = HeldBy(bag', Gil) + SumFunction(mail') + spent'
      BY DEF Money, Held, HeldBy
    <2> QED BY <1>3, <1>4, <2>1
  <1> QED BY <1>5, <1>6

LEMMA StartType == \A k : AtStart(k) \in Int
  <1>1. ASSUME NEW k  PROVE  AtStart(k) \in Int
    <2>1. Start \in [Char -> Bag]
      <3>1. \A c \in Char : Start[c] \in Bag
        <4>1. ASSUME NEW c \in Char  PROVE  Start[c] \in Bag
          <5>1. Start[c] \in [Slots -> Stacked \cup {Empty}]
            BY ExchangeAssumption
          <5>2. ASSUME NEW s \in Slots  PROVE  Start[c][s] \in Good \cup {Empty}
            <6>1. Start[c][s] \in Stacked \cup {Empty} /\ Start[c][s].reserve = 0
              BY <5>1, ExchangeAssumption
            <6>2. Start[c][s] \in Stacked => Start[c][s].qty \in Nat
              BY DEF Stacked, Item
            <6> QED BY <6>1, <6>2 DEF Good
          <5>3. ASSUME NEW s \in 1..BagSize  PROVE  Start[c][s].kind # Gil
            <6>1. s \in Slots /\ s # 0
              BY ExchangeAssumption DEF Slots
            <6> QED BY <6>1, ExchangeAssumption
          <5> QED BY <5>1, <5>2, <5>3 DEF Bag
        <4> QED BY <4>1
      <3> QED BY <3>1, ExchangeAssumption
    <2>2. AtStart(k) = HeldBy(Start, k)
      BY DEF AtStart, HeldBy
    <2>3. HeldBy(Start, k) \in Int
      BY <2>1, HeldByType
    <2> QED BY <2>2, <2>3
  <1> QED BY <1>1

LEMMA NothingDoubledInit == Init => NothingDoubled
  <1> SUFFICES ASSUME Init PROVE NothingDoubled
    OBVIOUS
  <1>1. \A k : Held(k) = AtStart(k) /\ AtStart(k) \in Int
    BY StartType DEF Init, Held, AtStart
  <1>2. ASSUME NEW k \in Kind  PROVE  Goods(k) <= AtStart(k)
    <2>1. PICK D, f : D = {x \in rows : x.kind = k /\ x.sale = 0} /\ f = [r \in D |-> Units(k, r.stack)]
      OBVIOUS
    <2>2. D = {}
      BY <2>1 DEF Init
    <2>3. OnSale(k) = SumFunctionOnSet(f, D)
      BY <2>1 DEF OnSale, SumFunction
    <2>4. OnSale(k) = 0
      BY <2>2, <2>3, SumOfNone
    <2>5. gone[k] = 0
      BY DEF Init
    <2>6. PICK a \in Int : a = AtStart(k)
      BY <1>1
    <2>7. Goods(k) = a + 0 + 0
      BY <1>1, <2>4, <2>5, <2>6 DEF Goods
    <2> QED BY <2>6, <2>7
  <1>3. Money <= AtStart(Gil)
    <2>1. IsFiniteSet(Char) /\ mail = [c \in Char |-> 0]
      BY ExchangeAssumption DEF Init
    <2>2. PICK n \in Int : n = 0
      OBVIOUS
    <2>3. PICK m : m = mail
      OBVIOUS
    <2>4. \A c \in Char : m[c] = n
      BY <2>1, <2>2, <2>3
    <2>5. SumFunctionOnSet(m, Char) = n * Cardinality(Char) /\ Cardinality(Char) \in Nat
      BY <2>1, <2>4, SumOfEqual, FS_CardinalityType
    <2>6. PICK w \in Nat : w = Cardinality(Char)
      BY <2>5
    <2>7. SumFunctionOnSet(m, Char) = 0
      BY <2>2, <2>5, <2>6
    <2>8. SumFunction(mail) = 0
      BY <2>1, <2>3, <2>7 DEF SumFunction
    <2>9. spent = 0
      BY DEF Init
    <2>10. PICK a \in Int : a = AtStart(Gil)
      BY <1>1
    <2>11. Money = a + 0 + 0
      BY <1>1, <2>8, <2>9, <2>10 DEF Money
    <2> QED BY <2>10, <2>11
  <1> QED BY <1>2, <1>3 DEF NothingDoubled

LEMMA NothingDoubledNext ==
  ASSUME Trouble = {}, TradeInv, Ledger, Tally, Stalls, TradeInv', Ledger', Tally', [Next]_vars,
         NothingDoubled
  PROVE  NothingDoubled'
  <1>1. NoMore
    BY StepMakesNothing
  <1>2. (\A k \in Kind : Goods(k) \in Int) /\ Money \in Int
    BY GoodsType
  <1>3. (\A k \in Kind : Goods(k)' \in Int) /\ Money' \in Int
    BY GoodsType
  <1>4. \A k \in Kind : AtStart(k) \in Int /\ Goods(k) <= AtStart(k) /\ Goods(k)' <= Goods(k)
    BY <1>1, StartType DEF NoMore, NothingDoubled
  <1>5. AtStart(Gil) \in Int /\ Money <= AtStart(Gil) /\ Money' <= Money
    BY <1>1, StartType DEF NoMore, NothingDoubled
  <1>6. ASSUME NEW k \in Kind  PROVE  Goods(k)' <= AtStart(k)
    <2>1. PICK x \in Int, y \in Int, z \in Int : x = Goods(k)' /\ y = Goods(k) /\ z = AtStart(k)
      BY <1>2, <1>3, <1>4
    <2>2. x <= y /\ y <= z
      BY <1>4, <2>1
    <2> QED BY <2>1, <2>2
  <1>7. Money' <= AtStart(Gil)
    <2>1. PICK x \in Int, y \in Int, z \in Int : x = Money' /\ y = Money /\ z = AtStart(Gil)
      BY <1>2, <1>3, <1>5
    <2>2. x <= y /\ y <= z
      BY <1>5, <2>1
    <2> QED BY <2>1, <2>2
  <1> QED BY <1>6, <1>7 DEF NothingDoubled, AtStart

\* Where players do none of Troubles, no unit of an item and no gil exists twice:
\* whatever one bag wins (AddItem, DoTrade, 0x106, 0x04E, 0x059) another bag, a row of
\* auction_house, the delivery box or what was spent and used up loses in the same
\* step, because nothing is taken that UpdateItem would refuse to take.
THEOREM NothingDoubledAlways ==
  ASSUME Trouble = {}
  PROVE  Spec => []NothingDoubled
  <1> DEFINE Inv == ExchangeInv /\ Tally /\ Stalls /\ NothingDoubled
  <1>0. Baseline
    BY DEF Baseline
  <1>1. Init => Inv
    BY RefersInit, TradeInit, LedgerInit, TallyInit, StallsInit, NothingDoubledInit DEF ExchangeInv
  <1>2. Inv /\ [Next]_vars => Inv'
    <2> SUFFICES ASSUME Inv, [Next]_vars  PROVE  Inv'
      OBVIOUS
    <2>1. Refers /\ TradeInv /\ Ledger /\ Tally /\ Stalls /\ NothingDoubled
      BY DEF ExchangeInv
    <2>2. Refers'
      BY <2>1, RefersNext
    <2>3. TradeInv' /\ Ledger' /\ Tally'
      BY <1>0, <2>1, <2>2, TradeNext, LedgerNext, TallyNext
    <2>4. Stalls'
      BY <2>1, <2>3, StepMakesNothing
    <2>5. NothingDoubled'
      BY <2>1, <2>3, NothingDoubledNext
    <2> QED BY <2>2, <2>3, <2>4, <2>5 DEF ExchangeInv
  <1>3. Inv => NothingDoubled
    OBVIOUS
  <1> QED BY <1>1, <1>2, <1>3, PTL DEF Spec
=============================================================================
