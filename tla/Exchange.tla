------------------------------ MODULE Exchange ------------------------------
(* How items and gil change hands on a map server: trades between players     *)
(* (packets 0x032 to 0x034), bazaars (0x104 to 0x10B), the auction house      *)
(* (0x04E), synthesis (0x096, 0x059) and what a player does alone with a bag  *)
(* (0x028, 0x029, 0x03A, 0x085).  Every step is one handler of packet_system.cpp, run to its end by *)
(* the game thread; what varies is their order, and that a client knows only  *)
(* what it was sent before.                                                   *)
(*                                                                            *)
(* Left out: item flags that only forbid (EX, NOAUCTION, NOSALE), charges,    *)
(* jail and /blockaid, wide distances other than the 6 yalms of a trade, the  *)
(* storages other than the inventory, and the delivery box itself (module     *)
(* DeliveryBox): the gil a sale sends there is counted in mail.               *)
EXTENDS Integers, FiniteSets, Sequences, Functions, FiniteSetsExt

CONSTANTS
  Char,        \* the players of one zone
  None,        \* nobody: TradePending and BazaarID after clean()
  Kind,        \* item ids
  Gil,         \* the item id of gil, which stays in slot 0
  Nothing,     \* the id in an empty slot
  Rare,        \* ids with ITEM_FLAG_RARE
  Stack,       \* stack size of each id
  BagSize,     \* slots of an inventory, slot 0 not counted
  Start,       \* the inventory each player starts with
  TradeSlots,  \* slots of a trade window: 1..TradeSlots
  Prices,      \* prices players ask and bid
  Fee, Tax,    \* fee of a sale at the auction, tax of a bazaar in 1/10000
  Crystal,     \* the crystal of the one recipe of synth_recipes,
  Ingredients, \* its ingredients, a sequence of ids,
  Results,     \* and what may come of it, of either quality
  Limit,       \* sales a player may have at the auction (7)
  MaxRows,     \* bound on the rows of auction_house
  MaxTurns,    \* bound on what players begin: see Turn below
  MaxCount,    \* bound on the count of a container
  Trouble      \* what players may also do: see Troubles

Slots == 0..BagSize

(* What the code lets happen and the properties below do not survive: a player *)
(* who leaves in the middle of a trade, a trade request while one of the two is *)
(* in the TradePending of a third (or a third in his), an offer changed after   *)
(* the own OK, the market or the sort button used while a trade is open, prices *)
(* changed under the eyes of a customer.                                        *)
Troubles == {"left", "crossed", "after_ok", "in_trade", "reprice"}
Empty == [kind |-> Nothing, qty |-> 0, reserve |-> 0, price |-> 0]
Item == [kind : Kind \cup {Gil}, qty : Nat, reserve : Nat, price : Nat]
Stacked == {i \in Item : i.qty <= Stack[i.kind]}

ASSUME ExchangeAssumption ==
  /\ IsFiniteSet(Char)
  /\ Gil \notin Kind /\ Nothing \notin Kind \cup {Gil} /\ None \notin Char
  /\ Rare \subseteq Kind /\ Stack \in [Kind \cup {Gil} -> Nat \ {0}]
  /\ \A v \in {BagSize, TradeSlots, Fee, Tax, Limit, MaxRows, MaxTurns, MaxCount} : v \in Nat
  /\ Prices \subseteq Nat \ {0} /\ Trouble \subseteq Troubles
  /\ Ingredients \in Seq(Kind) \ {<<>>} /\ Crystal \in Kind \ Range(Ingredients)
  /\ Results \subseteq [kind : Kind, qty : Nat \ {0}]
  /\ \A r \in Results : r.qty <= Stack[r.kind]
  /\ Start \in [Char -> [Slots -> Stacked \cup {Empty}]]
  /\ \A c \in Char, s, t \in Slots :
       /\ Start[c][s].reserve = 0 /\ (Start[c][s].kind = Gil <=> s = 0)
       /\ Start[c][s].kind \in Rare /\ Start[c][t].kind = Start[c][s].kind => s = t

VARIABLES
  here,     \* here[c]: c is in the zone
  bag,      \* bag[c][s]: the item in slot s, its reserve and bazaar price
  pending,  \* TradePending
  trading,  \* the type of UContainer is UCONTAINER_TRADE
  lock,     \* m_lock of UContainer
  count,    \* m_count of UContainer
  offer,    \* m_PItem of UContainer: the slot of the item, or 0 - 1
  window,   \* client: its trade window is open
  flag,     \* FLAG_BAZAAR
  view,     \* BazaarID
  shown,    \* client: the prices it was shown in the bazaar of view
  rows,     \* auction_house
  history,  \* m_ah_history: the sales as c last saw them
  craft,    \* CraftContainer while the animation is SYNTH: the ingredients' slots
  mail,     \* gil the trigger auction_house_buy put in the delivery box
  spent,    \* gil that left the game in fees and taxes, or came from vendors (< 0)
  gone,     \* gone[k]: units of k that players threw away, sold to a vendor or
            \* used up, less those they made
  agreed,   \* history variable: both offers when c's OK was handled
  turns     \* what players have begun so far

tradeVars == <<pending, trading, lock, count, offer, window, agreed>>
bazaarVars == <<flag, view, shown>>
auctionVars == <<rows, history, mail>>
vars == <<here, bag, tradeVars, bazaarVars, auctionVars, craft, spent, gone, turns>>

NoOffer == 0 - 1
NoOffers == [t \in 1..TradeSlots |-> NoOffer]
NoPrices == [s \in Slots |-> 0]
NoView == [of |-> None, at |-> NoPrices]

Init ==
  /\ here = [c \in Char |-> TRUE]
  /\ bag = Start
  /\ pending = [c \in Char |-> None]
  /\ trading = [c \in Char |-> FALSE]
  /\ lock = [c \in Char |-> FALSE]
  /\ count = [c \in Char |-> 0]
  /\ offer = [c \in Char |-> NoOffers]
  /\ window = [c \in Char |-> FALSE]
  /\ agreed = [c \in Char |-> <<>>]
  /\ turns = 0
  /\ flag = [c \in Char |-> FALSE]
  /\ view = [c \in Char |-> None]
  /\ shown = [c \in Char |-> NoPrices]
  /\ rows = {}
  /\ history = [c \in Char |-> <<>>]
  /\ craft = [c \in Char |-> <<>>]
  /\ mail = [c \in Char |-> 0]
  /\ spent = 0
  /\ gone = [k \in Kind |-> 0]

-----------------------------------------------------------------------------
(* The inventory, charutils.cpp.  An operator takes a bag and returns it       *)
(* changed; where the code returns ERROR_SLOTID or 0 the bag is as it was.     *)

FreeSlots(b) == {s \in 1..BagSize : b[s] = Empty}
HasItem(b, k) == \E s \in Slots : b[s].kind = k
Unreserved(i) == i.qty - i.reserve
AtMost(n, m) == IF n < m THEN n ELSE m

(* UpdateItem: refused for an empty slot and when the reserve would be touched; *)
(* more than a stack is cut off; an item of which none is left is deleted.      *)
(* Using items (CItemState) is not in the model, nor the refusal for one in use. *)
UpdateItem(b, s, q) ==
  LET left == AtMost(b[s].qty + q, Stack[b[s].kind])
  IN  IF b[s] = Empty \/ Unreserved(b[s]) + q < 0 THEN b
      ELSE [b EXCEPT ![s] = IF left = 0 /\ b[s].kind # Gil THEN Empty ELSE [@ EXCEPT !.qty = left]]

AddItemTwice(b, k, q) ==
  IF k = Gil THEN UpdateItem(b, 0, q)
  ELSE IF FreeSlots(b) = {} THEN b
  ELSE [b EXCEPT ![Min(FreeSlots(b))] = [kind |-> k, qty |-> q, reserve |-> 0, price |-> 0]]

(* AddItem(PItem): gil goes to slot 0, a second rare item and an item for     *)
(* which there is no slot are deleted, any other goes to the first free slot. *)
AddItem(b, k, q) ==
  IF k = Gil THEN UpdateItem(b, 0, q)
  ELSE IF FreeSlots(b) = {} \/ (k \in Rare /\ HasItem(b, k)) THEN b
  ELSE [b EXCEPT ![Min(FreeSlots(b))] = [kind |-> k, qty |-> q, reserve |-> 0, price |-> 0]]

(* AddItem(id, quantity): needs a free slot, for gil too. *)
AddItemById(b, k, q) == IF FreeSlots(b) = {} \/ q = 0 THEN b ELSE AddItem(b, k, q)

-----------------------------------------------------------------------------
(* Trade.  The client of a player opens its window on the packet of a trade    *)
(* that begins and closes it on one that ends; while it is open it lets the     *)
(* player offer each stack in one place, and offer only before the own OK.      *)

(* Players begin MaxTurns things; what is begun may go on as long as it does.  *)
Turn == turns < MaxTurns /\ turns' = turns + 1

Present(c) == pending[c] # None /\ here[pending[c]]
Mutual(c) == pending[pending[c]] = c
Busy(c) == window[c] /\ "in_trade" \notin Trouble

(* 0x032.  Overwrites what either side had pending. *)
TradeRequest(c, p) ==
  /\ c # p /\ here[c] /\ here[p] /\ ~window[c]
  /\ "crossed" \in Trouble \/ \A x \in {c, p}, y \in Char : pending[x] = y \/ pending[y] = x => y \in {c, p}
  /\ pending[p] # c /\ ~trading[p]
  /\ pending' = [pending EXCEPT ![c] = p, ![p] = c]
  /\ Turn
  /\ UNCHANGED <<here, bag, trading, lock, count, offer, window, agreed, bazaarVars, auctionVars, spent, gone>>

(* 0x033, action 0.  near: the two stand within 6 yalms. *)
TradeBegin(c, near) ==
  LET p == pending[c]
      opens == near /\ ~trading[c] /\ ~trading[p]
  IN
  /\ here[c] /\ Present(c) /\ Mutual(c) /\ ~window[c]
  /\ IF opens
     THEN /\ trading' = [trading EXCEPT ![c] = TRUE, ![p] = TRUE]
          /\ window' = [window EXCEPT ![c] = TRUE, ![p] = TRUE]
          /\ UNCHANGED pending
     ELSE /\ pending' = [pending EXCEPT ![c] = None, ![p] = None]
          /\ UNCHANGED <<trading, window>>
  /\ UNCHANGED <<here, bag, lock, count, offer, agreed, bazaarVars, auctionVars, spent, gone, turns>>

(* CUContainer::Clean of the trade containers of cs: the items they point at   *)
(* lose their reserve.                                                          *)
Unreserve(b, offers) ==
  [s \in Slots |-> IF s \in Range(offers) THEN [b[s] EXCEPT !.reserve = 0] ELSE b[s]]
Clean(cs, bags) ==
  /\ bag' = [c \in Char |-> IF c \in cs THEN Unreserve(bags[c], offer[c]) ELSE bags[c]]
  /\ trading' = [c \in Char |-> c \notin cs /\ trading[c]]
  /\ lock' = [c \in Char |-> c \notin cs /\ lock[c]]
  /\ count' = [c \in Char |-> IF c \in cs THEN 0 ELSE count[c]]
  /\ offer' = [c \in Char |-> IF c \in cs THEN NoOffers ELSE offer[c]]
  /\ agreed' = [c \in Char |-> IF c \in cs THEN <<>> ELSE agreed[c]]

Cleaned(c, p) == {x \in {c, p} : trading[x] /\ (x = c \/ Mutual(c))}

(* 0x033, action 1.  The container of the other is cleaned when the two are    *)
(* pending on each other, but its TradePending is in any case.                  *)
TradeCancel(c) ==
  LET p == pending[c] IN
  /\ here[c]
  /\ IF Present(c)
     THEN /\ Clean(Cleaned(c, p), bag)
          /\ pending' = [pending EXCEPT ![c] = None, ![p] = None]
          /\ window' = [window EXCEPT ![c] = FALSE, ![p] = FALSE]
     ELSE /\ window[c]
          /\ window' = [window EXCEPT ![c] = FALSE]
          /\ UNCHANGED <<bag, pending, trading, lock, count, offer, agreed>>
  /\ UNCHANGED <<here, turns, bazaarVars, auctionVars, spent, gone>>

SetItemUncounted(n, put) == n
SetItemCount(n, put) == IF put THEN n + 1 ELSE n
UnlockedOwn(c, p) == [lock EXCEPT ![c] = FALSE]
Unlocked(c, p) == [lock EXCEPT ![c] = FALSE, ![p] = FALSE]

(* 0x034: slot t of the window of c now offers q units of the item in slot s   *)
(* (q = 0 withdraws it).  What was in t before loses its reserve, ClearSlot     *)
(* leaves m_count as it is, and SetItem does nothing on a locked container.     *)
TradeOffer(c, t, s, q) ==
  LET p     == pending[c]
      old   == offer[c][t]
      fresh == IF old = NoOffer THEN bag[c] ELSE [bag[c] EXCEPT ![old].reserve = 0]
      put   == q > 0 /\ ~lock[c]
  IN
  /\ here[c] /\ window[c] /\ Present(c) /\ (~lock[c] \/ "after_ok" \in Trouble) /\ count[c] < MaxCount
  /\ IF q = 0 THEN s = old
              ELSE s # old /\ s \notin Range(offer[c]) /\ q <= bag[c][s].qty
                   /\ \A u \in 1..(t - 1) : offer[c][u] # NoOffer
  /\ bag[c][s] # Empty /\ bag[c][s].price = 0
  /\ q + fresh[s].reserve <= fresh[s].qty
  /\ bag' = [bag EXCEPT ![c] = [fresh EXCEPT ![s].reserve = IF q > 0 THEN @ + q ELSE 0]]
  /\ offer' = [offer EXCEPT ![c][t] = IF put THEN s ELSE NoOffer]
  /\ count' = [count EXCEPT ![c] = SetItemCount(@, put)]
  /\ lock' = Unlocked(c, p)
  /\ agreed' = [x \in Char |-> IF lock'[x] THEN agreed[x] ELSE <<>>]
  /\ UNCHANGED <<here, pending, trading, window, bazaarVars, auctionVars, spent, gone, turns>>

(* What c offers, as the two windows show it. *)
Offered(c) ==
  [t \in 1..TradeSlots |->
     IF offer[c][t] = NoOffer THEN <<Nothing, 0>>
     ELSE <<bag[c][offer[c][t]].kind, bag[c][offer[c][t]].reserve>>]

(* CanTrade: slots of p that are free or that p's own offers will leave free,   *)
(* and no second rare item.                                                     *)
CanTrade(c, p) ==
  /\ Cardinality(FreeSlots(bag[p])) + count[p] >= count[c]
  /\ \A t \in 1..TradeSlots :
       LET k == Offered(c)[t][1] IN k \in Rare => ~HasItem(bag[p], k)

(* DoTrade: slot after slot, each item is added to the bag of the receiver and  *)
(* then taken from the giver, whatever AddItem returned.                        *)
GivenItem(b, s) ==
  IF Stack[b.from[s].kind] = 1 /\ b.from[s].reserve = 1
  THEN AddItem(b.to, b.from[s].kind, b.from[s].qty)
  ELSE AddItemById(b.to, b.from[s].kind, b.from[s].reserve)
DoTrade(from, to, offers) ==
  LET given[t \in 0..TradeSlots] ==
        IF t = 0 THEN [from |-> from, to |-> to]
        ELSE LET b == given[t - 1]
                 s == offers[t]
             IN  IF s = NoOffer THEN b
                 ELSE [to   |-> GivenItem(b, s),
                       from |-> UpdateItem([b.from EXCEPT ![s].reserve = 0], s, 0 - b.from[s].reserve)]
  IN given[TradeSlots]

(* Both trades of an exchange that c completes: first what c gives, then what p *)
(* gives.                                                                       *)
Exchanged(c, p) ==
  LET one == DoTrade(bag[c], bag[p], offer[c])
      two == DoTrade(one.to, one.from, offer[p])
  IN  [bag EXCEPT ![c] = two.to, ![p] = two.from]

(* 0x033, action 2.  The second OK executes the trade or refuses it. *)
TradeAccept(c) ==
  LET p == pending[c] IN
  /\ here[c] /\ window[c] /\ Present(c) /\ Mutual(c) /\ ~lock[c]
  /\ IF lock[p]
     THEN /\ Clean({c, p}, IF CanTrade(c, p) /\ CanTrade(p, c) THEN Exchanged(c, p) ELSE bag)
          /\ pending' = [pending EXCEPT ![c] = None, ![p] = None]
          /\ window' = [window EXCEPT ![c] = FALSE, ![p] = FALSE]
     ELSE /\ lock' = [lock EXCEPT ![c] = TRUE]
          /\ agreed' = [agreed EXCEPT ![c] = <<Offered(c), Offered(p)>>]
          /\ UNCHANGED <<bag, pending, trading, count, offer, window>>
  /\ UNCHANGED <<here, turns, bazaarVars, auctionVars, spent, gone>>

-----------------------------------------------------------------------------
(* Bazaar. *)

(* 0x10A: an item that a trade reserves cannot be priced; a priced item is      *)
(* LOCKED, and price 0 unlocks it.                                              *)
SetPrice(c, s, price) ==
  /\ here[c] /\ bag[c][s] # Empty /\ bag[c][s].reserve = 0
  /\ "reprice" \in Trouble \/ \A x \in Char : view[x] # c
  /\ bag' = [bag EXCEPT ![c][s].price = price]
  /\ Turn
  /\ UNCHANGED <<here, tradeVars, bazaarVars, auctionVars, spent, gone>>

(* 0x109 and 0x10B. *)
Priced(b) == \E s \in 1..BagSize : b[s].price > 0
OpenBazaar(c) ==
  /\ here[c] /\ ~flag[c] /\ Priced(bag[c]) /\ flag' = [flag EXCEPT ![c] = TRUE]
  /\ UNCHANGED <<here, bag, tradeVars, view, shown, auctionVars, spent, gone, turns>>
CloseBazaar(c) ==
  /\ here[c] /\ flag[c] /\ flag' = [flag EXCEPT ![c] = FALSE]
  /\ UNCHANGED <<here, bag, tradeVars, view, shown, auctionVars, spent, gone, turns>>

(* 0x105 and 0x104. *)
ViewWares(c, p) ==
  /\ c # p /\ here[c] /\ here[p] /\ view[c] = None /\ flag[p] /\ ~Busy(c)
  /\ view' = [view EXCEPT ![c] = p]
  /\ shown' = [shown EXCEPT ![c] = [s \in Slots |-> bag[p][s].price]]
  /\ UNCHANGED <<here, bag, tradeVars, flag, auctionVars, spent, gone, turns>>
LeaveWares(c) ==
  /\ here[c] /\ view[c] # None
  /\ view' = [view EXCEPT ![c] = None]
  /\ shown' = [shown EXCEPT ![c] = NoPrices]
  /\ UNCHANGED <<here, bag, tradeVars, flag, auctionVars, spent, gone, turns>>

WithTax(price) == (Tax * price) \div 10000 + price

(* 0x106: q units of slot s.  The client asks for what it was shown and its gil *)
(* covers; the handler tests the price of one unit, delivers, then takes the    *)
(* gil, pays the seller and takes the goods.                                    *)
Purchase(c, s, q) ==
  LET p     == view[c]
      price == bag[p][s].price
      goods == AddItem(bag[c], bag[p][s].kind, q)
  IN
  /\ here[c] /\ ~Busy(c) /\ p # None /\ here[p]
  /\ shown[c][s] > 0 /\ WithTax(shown[c][s] * q) <= bag[c][0].qty
  /\ FreeSlots(bag[c]) # {}
  /\ price # 0 /\ bag[c][0].qty >= price /\ bag[p][s].qty >= q
  /\ goods # bag[c]
  /\ bag' = [bag EXCEPT ![c] = UpdateItem(goods, 0, 0 - WithTax(price * q)),
                        ![p] = UpdateItem(UpdateItem(bag[p], 0, price * q), s, 0 - q)]
  /\ flag' = [flag EXCEPT ![p] = flag[p] /\ Priced(bag'[p])]
  /\ spent' = spent + (WithTax(price * q) - price * q)
  /\ Turn
  /\ UNCHANGED <<here, tradeVars, view, shown, auctionVars, gone>>

-----------------------------------------------------------------------------
(* Auction house, 0x04E.  A row with sale = 0 is for sale. *)

Row == [id : 1..MaxRows, kind : Kind, stack : BOOLEAN, seller : Char, price : Prices, sale : {0} \cup Prices]
Units(k, stack) == IF stack THEN Stack[k] ELSE 1
NewId == 1 + Max({r.id : r \in rows} \cup {0})

(* Action 0x05: SELECT ... WHERE seller = c AND sale = 0 ORDER BY id LIMIT 7.    *)
Unsold(c) == {r \in rows : r.seller = c /\ r.sale = 0}
RefreshHistory(c) ==
  LET first == {r \in Unsold(c) : Cardinality({x \in Unsold(c) : x.id < r.id}) < Limit}
      nth(n) == CHOOSE r \in first : Cardinality({x \in first : x.id < r.id}) = n - 1
  IN
  /\ here[c] /\ ~Busy(c)
  /\ history' = [history EXCEPT ![c] = [n \in 1..Cardinality(first) |->
                   [kind |-> nth(n).kind, stack |-> nth(n).stack, price |-> nth(n).price]]]
  /\ UNCHANGED <<here, bag, tradeVars, bazaarVars, rows, mail, spent, gone, turns>>

(* Action 0x0B: the row is inserted, then the item and the fee are taken. *)
PlaceSale(c, s, stack, price) ==
  LET i == bag[c][s] IN
  /\ here[c] /\ ~Busy(c) /\ NewId <= MaxRows
  /\ i # Empty /\ i.price = 0 /\ i.qty >= 1
  /\ stack => Stack[i.kind] > 1 /\ i.qty = Stack[i.kind]
  /\ bag[c][0].qty >= Fee /\ Len(history[c]) < Limit
  /\ rows' = rows \cup {[id |-> NewId, kind |-> i.kind, stack |-> stack, seller |-> c, price |-> price, sale |-> 0]}
  /\ bag' = [bag EXCEPT ![c] = UpdateItem(UpdateItem(bag[c], s, 0 - Units(i.kind, stack)), 0, 0 - Fee)]
  /\ spent' = spent + Fee
  /\ Turn
  /\ UNCHANGED <<here, tradeVars, bazaarVars, history, mail, gone>>

(* Action 0x0E: the cheapest row that the bid covers is sold for the bid; the   *)
(* trigger sends the bid to the seller.                                         *)
Bid(c, k, stack, bid) ==
  LET open == {r \in rows : r.kind = k /\ r.stack = stack /\ r.sale = 0 /\ r.price <= bid} IN
  /\ here[c] /\ ~Busy(c) /\ FreeSlots(bag[c]) # {}
  /\ k \in Rare => ~HasItem(bag[c], k)
  /\ bag[c][0].qty >= bid
  /\ \E r \in open :
       /\ \A x \in open : r.price <= x.price
       /\ rows' = (rows \ {r}) \cup {[r EXCEPT !.sale = bid]}
       /\ mail' = [mail EXCEPT ![r.seller] = @ + bid]
  /\ bag' = [bag EXCEPT ![c] = UpdateItem(AddItemById(bag[c], k, Units(k, stack)), 0, 0 - bid)]
  /\ Turn
  /\ UNCHANGED <<here, tradeVars, bazaarVars, history, spent, gone>>

(* Action 0x0C: the n-th sale of the history is taken back, in a transaction    *)
(* that is rolled back when no row matches or the bag refuses the item.         *)
MatchingSoldToo(c, h) == {r \in rows : r.seller = c /\ r.kind = h.kind /\ r.stack = h.stack /\ r.price = h.price}
Matching(c, h) == {r \in Unsold(c) : r.kind = h.kind /\ r.stack = h.stack /\ r.price = h.price}
CancelSale(c, n) ==
  LET h    == history[c][n]
      back == AddItemById(bag[c], h.kind, Units(h.kind, h.stack))
  IN
  /\ here[c] /\ ~Busy(c) /\ back # bag[c]
  /\ \E r \in Matching(c, h) : rows' = rows \ {r}
  /\ bag' = [bag EXCEPT ![c] = back]
  /\ Turn
  /\ UNCHANGED <<here, tradeVars, bazaarVars, history, mail, spent, gone>>

-----------------------------------------------------------------------------
(* What a player does alone. *)

(* 0x028. *)
Drop(c, s, q) ==
  LET i == bag[c][s] IN
  /\ here[c] /\ i # Empty /\ i.price = 0 /\ q <= Unreserved(i)
  /\ bag' = [bag EXCEPT ![c] = UpdateItem(bag[c], s, 0 - q)]
  /\ gone' = [gone EXCEPT ![i.kind] = @ + q]
  /\ Turn
  /\ UNCHANGED <<here, tradeVars, bazaarVars, auctionVars, spent>>

(* 0x029 from the inventory to the inventory: q units become a stack of their   *)
(* own.                                                                         *)
Split(c, s, q) ==
  LET i == bag[c][s]
      more == AddItemById(bag[c], i.kind, q)
  IN
  /\ here[c] /\ i # Empty /\ i.price = 0 /\ q <= Unreserved(i) /\ q < i.qty /\ more # bag[c]
  /\ bag' = [bag EXCEPT ![c] = UpdateItem(more, s, 0 - q)]
  /\ Turn
  /\ UNCHANGED <<here, tradeVars, bazaarVars, auctionVars, spent, gone>>

(* 0x03A for two slots a < b: as much of b as fits is moved to a.  The reserve   *)
(* is tested by UpdateItem only, for the second of the two updates.             *)
Merge(c, a, b) ==
  LET i == bag[c][a]
      j == bag[c][b]
      moved == AtMost(Stack[i.kind] - i.qty, j.qty)
  IN
  /\ here[c] /\ ~Busy(c) /\ a < b /\ i # Empty /\ j.kind = i.kind /\ i.price = 0 /\ j.price = 0
  /\ i.qty < Stack[i.kind] /\ j.qty < Stack[i.kind]
  /\ bag' = [bag EXCEPT ![c] = UpdateItem(UpdateItem(bag[c], a, moved), b, 0 - moved)]
  /\ Turn
  /\ UNCHANGED <<here, tradeVars, bazaarVars, auctionVars, spent, gone>>

(* 0x085, for one gil a unit: the gil is paid, then the goods are taken. *)
SellToVendor(c, s, q) ==
  LET i == bag[c][s] IN
  /\ here[c] /\ i # Empty /\ i.price = 0 /\ i.reserve = 0 /\ q <= i.qty
  /\ bag' = [bag EXCEPT ![c] = UpdateItem(UpdateItem(bag[c], 0, q), s, 0 - q)]
  /\ spent' = spent - q
  /\ gone' = [gone EXCEPT ![i.kind] = @ + q]
  /\ Turn
  /\ UNCHANGED <<here, tradeVars, bazaarVars, auctionVars>>

(* Synthesis.  A client whose character synthesizes sends nothing but the end   *)
(* of it, and uses up neither wares of its bazaar nor offers of a trade.        *)

Uses(m, s) == Cardinality({i \in DOMAIN m : m[i] = s})

(* 0x096 with the crystal in slot s and the ingredients in the slots m, where   *)
(* the handler finds them unreserved: startSynth reserves them and takes the     *)
(* crystal.                                                                     *)
StartSynth(c, s, m) ==
  LET b == UpdateItem(bag[c], s, 0 - 1) IN
  /\ here[c] /\ ~window[c] /\ craft[c] = <<>>
  /\ bag[c][s].kind = Crystal /\ bag[c][s].price = 0 /\ Unreserved(bag[c][s]) > 0
  /\ \A i \in DOMAIN m :
       /\ bag[c][m[i]].kind = Ingredients[i] /\ bag[c][m[i]].price = 0
       /\ Uses(m, m[i]) <= Unreserved(bag[c][m[i]])
  /\ bag' = [bag EXCEPT ![c] = [x \in Slots |-> [b[x] EXCEPT !.reserve = @ + Uses(m, x)]]]
  /\ craft' = [craft EXCEPT ![c] = m]
  /\ gone' = [gone EXCEPT ![Crystal] = @ + 1]
  /\ Turn
  /\ UNCHANGED <<here, tradeVars, bazaarVars, auctionVars, spent>>

(* The bag of a synthesis that ends: the ingredients of slots m lose their      *)
(* reserve, and of those numbered in lost one unit each.                         *)
\* A variant in error: taken while they are reserved, which UpdateItem refuses.
SpentFirst(b, m, lost) ==
  [s \in Slots |-> IF s \in Range(m) THEN UpdateItem(b, s, 0 - Uses([i \in lost |-> m[i]], s))[s]
                   ELSE b[s]]
Spent(b, m, lost) ==
  [s \in Slots |-> IF s \in Range(m)
                   THEN UpdateItem([b EXCEPT ![s].reserve = @ - Uses(m, s)], s,
                                   0 - Uses([i \in lost |-> m[i]], s))[s]
                   ELSE b[s]]
UsedUp(c, lost) ==
  [k \in Kind |-> gone[k] + Cardinality({i \in lost : bag[c][craft[c][i]].kind = k})]

(* 0x059.  doSynthFail: any of the ingredients are lost.                        *)
SynthFails(c, lost) ==
  /\ here[c] /\ craft[c] # <<>>
  /\ bag' = [bag EXCEPT ![c] = Spent(bag[c], craft[c], lost)]
  /\ gone' = UsedUp(c, lost)
  /\ craft' = [craft EXCEPT ![c] = <<>>]
  /\ UNCHANGED <<here, tradeVars, bazaarVars, auctionVars, spent, turns>>

(* 0x059.  doSynthResult: all of them are, and the result is added if the bag    *)
(* takes it.                                                                    *)
SynthSucceeds(c, r) ==
  LET all == DOMAIN craft[c] IN
  /\ here[c] /\ craft[c] # <<>>
  /\ bag' = [bag EXCEPT ![c] = AddItemById(Spent(bag[c], craft[c], all), r.kind, r.qty)]
  /\ gone' = [UsedUp(c, all) EXCEPT ![r.kind] = @ - r.qty]
  /\ craft' = [craft EXCEPT ![c] = <<>>]
  /\ UNCHANGED <<here, tradeVars, bazaarVars, auctionVars, spent, turns>>

(* 0x00D: only the own TradePending is cleaned, and a synthesis fails.  The      *)
(* character that comes back is a new object read from the database, which       *)
(* knows prices but no reserve.                                                 *)
LeaveZone(c, lost) ==
  /\ here[c] /\ ("left" \in Trouble \/ ~trading[c])
  /\ here' = [here EXCEPT ![c] = FALSE]
  /\ pending' = [pending EXCEPT ![c] = None]
  /\ trading' = [trading EXCEPT ![c] = FALSE]
  /\ lock' = [lock EXCEPT ![c] = FALSE]
  /\ count' = [count EXCEPT ![c] = 0]
  /\ offer' = [offer EXCEPT ![c] = NoOffers]
  /\ window' = [window EXCEPT ![c] = FALSE]
  /\ agreed' = [agreed EXCEPT ![c] = <<>>]
  /\ bag' = [bag EXCEPT ![c] = Unreserve(Spent(bag[c], craft[c], lost), offer[c])]
  /\ gone' = UsedUp(c, lost)
  /\ craft' = [craft EXCEPT ![c] = <<>>]
  /\ flag' = [flag EXCEPT ![c] = FALSE]
  /\ view' = [view EXCEPT ![c] = None]
  /\ shown' = [shown EXCEPT ![c] = NoPrices]
  /\ history' = [history EXCEPT ![c] = <<>>]
  /\ Turn
  /\ UNCHANGED <<rows, mail, spent>>
EnterZone(c) ==
  /\ ~here[c] /\ here' = [here EXCEPT ![c] = TRUE]
  /\ UNCHANGED <<bag, tradeVars, bazaarVars, auctionVars, spent, gone, turns>>

-----------------------------------------------------------------------------
Quantity == 1..Max({Stack[k] : k \in Kind})

Trade(c) ==
  \/ \E p \in Char : TradeRequest(c, p)
  \/ \E near \in BOOLEAN : TradeBegin(c, near)
  \/ TradeCancel(c)
  \/ \E t \in 1..TradeSlots, s \in Slots, q \in 0..Max(Quantity) : TradeOffer(c, t, s, q)
  \/ TradeAccept(c)
Bazaar(c) ==
  \/ \E s \in 1..BagSize, price \in {0} \cup Prices : SetPrice(c, s, price)
  \/ OpenBazaar(c)
  \/ CloseBazaar(c)
  \/ \E p \in Char : ViewWares(c, p)
  \/ LeaveWares(c)
  \/ \E s \in 1..BagSize, q \in Quantity : Purchase(c, s, q)
Auction(c) ==
  \/ RefreshHistory(c)
  \/ \E s \in 1..BagSize, stack \in BOOLEAN, price \in Prices : PlaceSale(c, s, stack, price)
  \/ \E k \in Kind, stack \in BOOLEAN, bid \in Prices : Bid(c, k, stack, bid)
  \/ \E n \in DOMAIN history[c] : CancelSale(c, n)
Alone(c) ==
  \/ \E s \in 1..BagSize, q \in Quantity : Drop(c, s, q) \/ Split(c, s, q) \/ SellToVendor(c, s, q)
  \/ \E a, b \in 1..BagSize : Merge(c, a, b)
  \/ EnterZone(c)
Synthesis(c) ==
  \/ \E s \in 1..BagSize, m \in [DOMAIN Ingredients -> 1..BagSize] : StartSynth(c, s, m)
  \/ \E lost \in SUBSET DOMAIN craft[c] : SynthFails(c, lost) \/ LeaveZone(c, lost)
  \/ \E r \in Results : SynthSucceeds(c, r)

Next == \E c \in Char :
  \/ craft[c] = <<>> /\ UNCHANGED craft /\ (Trade(c) \/ Bazaar(c) \/ Auction(c) \/ Alone(c))
  \/ Synthesis(c)
Spec == Init /\ [][Next]_vars

-----------------------------------------------------------------------------
(* The state is well formed, and what a container counts it at least holds:    *)
(* its count never falls below the offers that are in it (CUContainer::SetItem). *)
TypeOK ==
  /\ here \in [Char -> BOOLEAN] /\ trading \in [Char -> BOOLEAN]
  /\ lock \in [Char -> BOOLEAN] /\ window \in [Char -> BOOLEAN] /\ flag \in [Char -> BOOLEAN]
  /\ bag \in [Char -> [Slots -> Item \cup {Empty}]]
  /\ pending \in [Char -> Char \cup {None}] /\ view \in [Char -> Char \cup {None}]
  /\ offer \in [Char -> [1..TradeSlots -> Slots \cup {NoOffer}]]
  /\ count \in [Char -> 0..MaxCount]
  /\ \A c \in Char : count[c] >= Cardinality({t \in 1..TradeSlots : offer[c][t] # NoOffer})
  /\ rows \subseteq Row /\ gone \in [Kind -> Int] /\ mail \in [Char -> Nat] /\ spent \in Int
  /\ \A c \in Char : \A n \in DOMAIN history[c] : history[c][n].kind \in Kind
  /\ \A c \in Char : craft[c] = <<>> \/ craft[c] \in [DOMAIN Ingredients -> 1..BagSize]
  /\ turns \in 0..MaxTurns

\* Units of k in a bag, in all bags, for sale, and to begin with.
InBag(b, k) == SumFunction([s \in Slots |-> IF b[s].kind = k THEN b[s].qty ELSE 0])
Held(k) == SumFunction([c \in Char |-> InBag(bag[c], k)])
OnSale(k) == SumFunction([r \in {x \in rows : x.kind = k /\ x.sale = 0} |-> Units(k, r.stack)])
AtStart(k) == SumFunction([c \in Char |-> InBag(Start[c], k)])
Goods(k) == Held(k) + OnSale(k) + gone[k]
Money == Held(Gil) + SumFunction(mail) + spent

(* However trades, sales, purchases, refunds and the handling of bags follow    *)
(* one another, no unit of an item and no gil exists twice: DoTrade adds to one *)
(* bag and takes from the other, the auction takes the row back with the item. *)
NothingDoubled ==
  /\ \A k \in Kind : Goods(k) <= AtStart(k)
  /\ Money <= AtStart(Gil)

(* No unit of an item and no gil disappears.  "Either players containers are    *)
(* full or illegal item trade attempted.." (packet_system.cpp:1206) is when a   *)
(* trade fails; a trade into a bag that CanTrade thinks has room loses items.   *)
NothingLost ==
  /\ \A k \in Kind : Goods(k) >= AtStart(k)
  /\ Money >= AtStart(Gil)

(* The reserve of an item is what the player's trade window offers of it or a   *)
(* synthesis will take: it ends with the trade or the synthesis, however that    *)
(* ends, and nothing reserved has been used up elsewhere meanwhile (its pointer *)
(* in m_PItem would dangle, and the end of the synthesis find another item).    *)
ReserveIsHeld ==
  \A c \in Char :
    /\ \A s \in Slots : bag[c][s].reserve > 0 <=> s \in Range(offer[c]) \cup Range(craft[c])
    /\ \A s \in Slots : bag[c][s].reserve <= bag[c][s].qty
    /\ \A i \in DOMAIN craft[c] : bag[c][craft[c][i]].kind = Ingredients[i]
    /\ trading[c] \/ offer[c] = NoOffers

(* A trade is between two, who have both a window open and trade with nobody     *)
(* else, and it is the trade that both saw: a handled OK stands for the two       *)
(* offers as they are, and whatever is changed in either window after it, by     *)
(* whomever, takes it back before the second OK executes the trade.              *)
TradeAgreed ==
  \A c \in Char : trading[c] =>
    /\ window[c] /\ pending[c] # None
    /\ trading[pending[c]] /\ pending[pending[c]] = c
    /\ lock[c] => agreed[c] = <<Offered(c), Offered(pending[c])>>

(* Nobody ever owns a rare item twice, whichever way the second one is offered  *)
(* and whatever was put up for sale in the meantime.                            *)
RareOnce ==
  \A c \in Char, k \in Rare : Cardinality({s \in Slots : bag[c][s].kind = k}) <= 1
=============================================================================
