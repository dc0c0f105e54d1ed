----------------------------- MODULE DeliveryBox -----------------------------
(***************************************************************************)
(* Items sent from one character to another through the delivery box       *)
(* (src/src/map/packet_system.cpp, SmallPacket0x04D, and the triggers in    *)
(* src/sql/triggers.sql).  A character puts items into the cells of the     *)
(* send box (box 2) and sends them; each then waits in the queue of the     *)
(* receiver's box (box 1), is moved to a free cell there, and is taken,     *)
(* returned or dropped.  The sender may cancel until then.                 *)
(*                                                                         *)
(* The table delivery_box is shared by all map servers.  Each session has  *)
(* a copy of one box's cells in its UContainer; the handlers decide on the *)
(* copy and act on the table.  The characters may play on any servers.     *)
(*                                                                         *)
(* Items of one kind (item and quantity) are not told apart, as by the      *)
(* code, and a transaction that fails changes nothing; 0x02 has none, and   *)
(* leaves its row behind when UpdateItem refuses the item.  The client is   *)
(* external: it lists a box it has opened and then works on that box.      *)
(***************************************************************************)
EXTENDS Integers, FiniteSets, FiniteSetsExt, Functions

CONSTANTS
    Player,    \* characters
    Kind,      \* what an item may be: its id and quantity
    Cells,     \* cells of a box (8); the queue has the slots above
    Capacity,  \* items an inventory holds
    Stock,     \* items of each kind a character starts with
    SlotWidth, \* 256: the lowest slot of the queue is read into a uint8
    MaxSends,  \* bound: rows put into receivers' boxes, and 0x02 refused
    AH         \* the auction house, which sends as character 0

ASSUME PlayerAssumption == IsFiniteSet(Player) /\ AH \notin Player \cup Kind
ASSUME NumbersAssumption ==
    /\ Cells \in Nat \ {0} /\ Capacity \in Nat /\ Stock \in Nat /\ MaxSends \in Nat
    /\ Stock * Cardinality(Kind) <= Capacity

(* Between two visits of its owner a box gets few enough deliveries for the *)
(* uint8; see the hazards.                                                 *)
ASSUME WidthAssumption == SlotWidth \in Nat /\ Cells + MaxSends <= SlotWidth

VARIABLES
    delivery_box,  \* the table
    inventory,     \* how many items of a kind a character carries
    UContainer,    \* each session's copy of the cells
    opened,        \* client: the box it has opened (0: none)
    listed,        \* client: it has the list of the box's cells
    sends,         \* ghost: how often what MaxSends bounds has happened
    made,          \* ghost: items the auction house paid less those thrown away
    refused        \* ghost: how often UpdateItem refused a 0x02, by kind

vars == <<delivery_box, inventory, UContainer, opened, listed, sends, made, refused>>

Cell == 0 .. Cells - 1
Slot == 0 .. Cells + MaxSends

(* charid owns the row.  senderid is the other side: the sender in box 1,   *)
(* the receiver in box 2.  n is a ghost: the rows of box 1 in the order in  *)
(* which they were sent.                                                   *)
Row == [charid : Player, box : {1, 2}, slot : Slot, itemid : Kind,
        senderid : Player \cup {AH}, sent : BOOLEAN, received : BOOLEAN,
        n : 0 .. MaxSends]

NoItem == [itemid |-> AH, other |-> AH, sent |-> FALSE]
Item == [itemid : Kind, other : Player \cup {AH}, sent : BOOLEAN] \cup {NoItem}
Clean == [c \in Cell |-> NoItem]

(* The queries.                                                            *)
Rows(p, b) == {r \in delivery_box : r.charid = p /\ r.box = b}
At(p, b, c) == {r \in Rows(p, b) : r.slot = c}
Queue(p) == {r \in Rows(p, 1) : r.slot >= Cells}

(* The copy of a row in memory.                                            *)
Shown(r) == [itemid |-> r.itemid, other |-> r.senderid, sent |-> r.sent]

IsSlotEmpty(p, c) == UContainer[p][c] = NoItem

Carried(p) == SumFunction(inventory[p])

Init ==
    /\ delivery_box = {}
    /\ inventory = [p \in Player |-> [k \in Kind |-> Stock]]
    /\ UContainer = [p \in Player |-> Clean]
    /\ opened = [p \in Player |-> 0]
    /\ listed = [p \in Player |-> FALSE]
    /\ sends = 0
    /\ made = [k \in Kind |-> 0]
    /\ refused = [k \in Kind |-> 0]

-----------------------------------------------------------------------------
(* The trigger delivery_box_insert: a row of box 1 goes behind all others.  *)
(* A variant in error: behind the number of them.                          *)
BehindCount(p) == Cells + Cardinality(Queue(p))
Behind(p) ==
    LET top == Max({r.slot : r \in Rows(p, 1)} \cup {0})
    IN IF top < Cells THEN Cells ELSE top + 1

(* INSERT of a row of box 1 for the character p.                           *)
Delivery(p, k, from) ==
    [charid |-> p, box |-> 1, slot |-> Behind(p), itemid |-> k, senderid |-> from,
     sent |-> FALSE, received |-> FALSE, n |-> sends + 1]

(* The rows with r changed to s, or without it.                            *)
Replaced(r, s) == (delivery_box \ {r}) \cup {s}

Show(p, c, item) == UContainer' = [UContainer EXCEPT ![p][c] = item]

(* Client: it works on box b, whose list it has.                           *)
Working(p, b) == opened[p] = b /\ listed[p]
clientVars == <<opened, listed>>

-----------------------------------------------------------------------------
(* 0x0D, 0x0E: the copy is cleared; 0x01 fills it.                         *)
Open(p, b) ==
    /\ opened[p] = 0
    /\ opened' = [opened EXCEPT ![p] = b]
    /\ UContainer' = [UContainer EXCEPT ![p] = Clean]
    /\ UNCHANGED <<delivery_box, inventory, listed, sends, made, refused>>

List(p) ==
    /\ opened[p] # 0 /\ ~ listed[p]
    /\ listed' = [listed EXCEPT ![p] = TRUE]
    /\ UContainer' = [UContainer EXCEPT ![p] = [c \in Cell |->
           IF At(p, opened[p], c) = {} THEN UContainer[p][c]
           ELSE Shown(CHOOSE r \in At(p, opened[p], c) : TRUE)]]
    /\ UNCHANGED <<delivery_box, inventory, opened, sends, made, refused>>

(* 0x0F, and whatever ends the session.                                    *)
Close(p) ==
    /\ opened[p] # 0
    /\ opened' = [opened EXCEPT ![p] = 0] /\ listed' = [listed EXCEPT ![p] = FALSE]
    /\ UContainer' = [UContainer EXCEPT ![p] = Clean]
    /\ UNCHANGED <<delivery_box, inventory, sends, made, refused>>

-----------------------------------------------------------------------------
(* The send box.                                                           *)

(* 0x02: the row of an item that goes from the inventory into a cell.  It is *)
(* inserted before UpdateItem is asked for the item.                       *)
SendRow(p, c, k, to) ==
    [charid |-> p, box |-> 2, slot |-> c, itemid |-> k, senderid |-> to,
     sent |-> FALSE, received |-> FALSE, n |-> 0]

InsertRow(p, c, k, to) ==
    /\ Working(p, 2) /\ inventory[p][k] > 0 /\ IsSlotEmpty(p, c)
    /\ At(p, 2, c) = {}
    /\ delivery_box' = delivery_box \cup {SendRow(p, c, k, to)}
    /\ UNCHANGED <<clientVars, made>>

PutIn(p, c, k, to) ==
    /\ InsertRow(p, c, k, to)
    /\ Show(p, c, Shown(SendRow(p, c, k, to)))
    /\ inventory' = [inventory EXCEPT ![p][k] = @ - 1]
    /\ UNCHANGED <<sends, refused>>

(* UpdateItem refuses what a trade or a synthesis reserves and what is being *)
(* used; nothing in 0x02 looks for that before.  The item stays where it is *)
(* and the cell empty, but the row stays too.                              *)
PutInRefused(p, c, k, to) ==
    /\ sends < MaxSends
    /\ InsertRow(p, c, k, to)
    /\ sends' = sends + 1
    /\ refused' = [refused EXCEPT ![k] = @ + 1]
    /\ UNCHANGED <<inventory, UContainer>>

(* 0x03: the row is marked and a row of the receiver's box is made of it.  *)
Send(p, c) ==
    /\ Working(p, 2) /\ ~ IsSlotEmpty(p, c) /\ ~ UContainer[p][c].sent
    /\ sends < MaxSends
    /\ \E r \in At(p, 2, c) :
          /\ r.senderid = UContainer[p][c].other /\ ~ r.sent
          /\ delivery_box' = Replaced(r, [r EXCEPT !.sent = TRUE])
                 \cup {Delivery(r.senderid, UContainer[p][c].itemid, p)}
    /\ sends' = sends + 1
    /\ Show(p, c, [UContainer[p][c] EXCEPT !.sent = TRUE])
    /\ UNCHANGED <<inventory, clientVars, made, refused>>

(* The rows a cancelled item may be taken from; and a variant in error that *)
(* leaves out slot >= 8.                                                   *)
AnyDelivery(to, p, k) ==
    {r \in Rows(to, 1) : r.senderid = p /\ r.itemid = k}
WaitingDelivery(to, p, k) ==
    {r \in Queue(to) : r.senderid = p /\ r.itemid = k}

(* UPDATE ... WHERE sent = 1 AND received = 0; and a variant in error.      *)
SentOnly(r) == r.sent
MayCancel(r) == r.sent /\ ~ r.received

(* 0x04: the sender takes the item out of the receiver's queue again.  If   *)
(* it is not there, the sender's row is an orphan and is deleted.          *)
Cancel(p, c) ==
    /\ Working(p, 2) /\ ~ IsSlotEmpty(p, c)
    /\ LET item == UContainer[p][c]
           waiting == WaitingDelivery(item.other, p, item.itemid)
       IN \E r \in At(p, 2, c) :
             /\ MayCancel(r)
             /\ \/ \E d \in waiting :
                      /\ delivery_box' = Replaced(r, [r EXCEPT !.sent = FALSE]) \ {d}
                      /\ Show(p, c, [item EXCEPT !.sent = FALSE])
                \/ /\ waiting = {}
                   /\ delivery_box' = delivery_box \ {x \in {r} : x.itemid = item.itemid}
                   /\ UNCHANGED UContainer
    /\ UNCHANGED <<inventory, clientVars, sends, made, refused>>

(* 0x07: the first cell whose item has been received is cleared.           *)
RemoveReceived(p) ==
    /\ Working(p, 2)
    /\ LET done == {r \in Rows(p, 2) : r.received}
       IN \E r \in done :
             /\ \A other \in done : r.slot <= other.slot
             /\ ~ IsSlotEmpty(p, r.slot) /\ UContainer[p][r.slot].sent
             /\ delivery_box' = delivery_box \ {r}
             /\ Show(p, r.slot, NoItem)
    /\ UNCHANGED <<inventory, clientVars, sends, made, refused>>

-----------------------------------------------------------------------------
(* The receiver's box.                                                     *)

(* The rows of p's box 1 when the row of slot queue has gone to the cell c  *)
(* and those above it have moved up.  A variant in error: all others have. *)
AllMovedUp(p, queue, c) ==
    {[r EXCEPT !.slot = IF r.slot = queue THEN c ELSE @ - 1] : r \in Rows(p, 1)}
MovedUp(p, queue, c) ==
    {IF r.slot = queue THEN [r EXCEPT !.slot = c]
     ELSE IF r.slot > queue THEN [r EXCEPT !.slot = @ - 1] ELSE r : r \in Rows(p, 1)}

(* The sender's rows that may be meant when p gets an item k of from; one   *)
(* of them is marked.                                                      *)
Pending(from, p, k) ==
    {r \in delivery_box : /\ r.charid = from /\ r.box = 2 /\ r.senderid = p
                          /\ r.itemid = k /\ r.sent /\ ~ r.received}
Marked(from, p, k) ==
    IF Pending(from, p, k) = {} THEN {delivery_box}
    ELSE {Replaced(r, [r EXCEPT !.received = TRUE]) : r \in Pending(from, p, k)}

(* 0x06: the first row of the queue goes to a cell.                        *)
TakeUp(p, c) ==
    /\ Working(p, 1) /\ IsSlotEmpty(p, c) /\ At(p, 1, c) = {}
    /\ \E r \in Queue(p) :
          /\ \A other \in Queue(p) : r.slot <= other.slot
          /\ \E rows \in Marked(r.senderid, p, r.itemid) :
                delivery_box' = (rows \ Rows(p, 1))
                                    \cup MovedUp(p, r.slot % SlotWidth, c)
          /\ Show(p, c, Shown(r))
    /\ UNCHANGED <<inventory, clientVars, sends, made, refused>>

(* 0x09: back to the sender, as a new row of the sender's box 1.           *)
Return(p, c) ==
    /\ Working(p, 1) /\ ~ IsSlotEmpty(p, c) /\ sends < MaxSends
    /\ \E r \in At(p, 1, c) :
          /\ r.senderid # AH
          /\ delivery_box' = (delivery_box \ {r})
                 \cup {Delivery(r.senderid, UContainer[p][c].itemid, p)}
    /\ sends' = sends + 1
    /\ Show(p, c, NoItem)
    /\ UNCHANGED <<inventory, clientVars, made, refused>>

(* DELETE ... WHERE sent = 0 for the send box; and a variant in error.      *)
TakeAny(r) == TRUE
MayTake(r) == r.box = 2 => ~ r.sent

(* 0x0A: from a cell of either box into the inventory.                     *)
Take(p, c) ==
    /\ listed[p] /\ ~ IsSlotEmpty(p, c) /\ Carried(p) < Capacity
    /\ \E r \in At(p, opened[p], c) :
          /\ MayTake(r)
          /\ delivery_box' = delivery_box \ {r}
    /\ inventory' = [inventory EXCEPT ![p][UContainer[p][c].itemid] = @ + 1]
    /\ Show(p, c, NoItem)
    /\ UNCHANGED <<clientVars, sends, made, refused>>

(* 0x0B: thrown away.                                                      *)
Drop(p, c) ==
    /\ Working(p, 1) /\ ~ IsSlotEmpty(p, c)
    /\ \E r \in At(p, 1, c) :
          /\ delivery_box' = delivery_box \ {r}
          /\ made' = [made EXCEPT ![r.itemid] = @ - 1]
    /\ Show(p, c, NoItem)
    /\ UNCHANGED <<inventory, clientVars, sends, refused>>

(* The trigger auction_house_buy pays a seller through the box.            *)
Pay(p, k) ==
    /\ sends < MaxSends
    /\ delivery_box' = delivery_box \cup {Delivery(p, k, AH)}
    /\ sends' = sends + 1
    /\ made' = [made EXCEPT ![k] = @ + 1]
    /\ UNCHANGED <<inventory, UContainer, clientVars, refused>>

Next ==
    \E p \in Player :
        \/ \E b \in {1, 2} : Open(p, b)
        \/ List(p) \/ Close(p) \/ RemoveReceived(p)
        \/ \E c \in Cell : \/ \E k \in Kind, to \in Player :
                                  PutIn(p, c, k, to) \/ PutInRefused(p, c, k, to)
                           \/ Send(p, c) \/ Cancel(p, c) \/ TakeUp(p, c)
                           \/ Return(p, c) \/ Take(p, c) \/ Drop(p, c)
        \/ \E k \in Kind : Pay(p, k)

Spec == Init /\ [][Next]_vars

-----------------------------------------------------------------------------
(* Properties.                                                             *)

(* Every variable holds values of the kind the program gives it, and the   *)
(* primary key of the table is kept.                                       *)
TypeOK ==
    /\ delivery_box \subseteq Row
    /\ \A r, s \in delivery_box :
          r.charid = s.charid /\ r.box = s.box /\ r.slot = s.slot => r = s
    /\ inventory \in [Player -> [Kind -> Nat]]
    /\ UContainer \in [Player -> [Cell -> Item]]
    /\ opened \in [Player -> 0 .. 2]
    /\ listed \in [Player -> BOOLEAN]
    /\ sends \in 0 .. MaxSends
    /\ made \in [Kind -> Int]
    /\ refused \in [Kind -> Nat]

(* Nothing is lost, and nothing doubled but what a refused 0x02 leaves both *)
(* in the inventory and in the box: the items that are carried, that lie in *)
(* a send box and are not sent, and that lie in a receiver's box are those  *)
(* that there were, that the auction house paid and one for each refusal,   *)
(* less those thrown away, however sending, cancelling, receiving and       *)
(* returning meet.                                                         *)
Conserved ==
    \A k \in Kind :
        SumFunction([p \in Player |-> inventory[p][k]])
              + Cardinality({r \in delivery_box : r.itemid = k /\ (r.box = 1 \/ ~ r.sent)})
            = Stock * Cardinality(Player) + made[k] + refused[k]

(* What a sender sees as under way is under way: for each item that is sent *)
(* and not received, one waits in the receiver's queue.  Hence 0x04 never   *)
(* has to delete an orphan while both characters exist.                    *)
PendingIsQueued ==
    \A p, to \in Player, k \in Kind :
        Cardinality(Pending(p, to, k)) <= Cardinality({r \in Queue(to) :
                                              r.senderid = p /\ r.itemid = k})

(* The copy a session works on is the table's content, although the other  *)
(* side changes rows of the same box meanwhile: all it may change is        *)
(* outside the copy.  The row of a refused 0x02 alone is missing in the     *)
(* copy, until the box is opened again; it is not sent.                     *)
Missing(r) == r.box = 2 /\ ~ r.sent /\ refused[r.itemid] > 0
CopyIsTable ==
    \A p \in Player : listed[p] =>
        \A c \in Cell :
            /\ ~ IsSlotEmpty(p, c) => At(p, opened[p], c) # {}
            /\ \A r \in At(p, opened[p], c) :
                  Shown(r) = UContainer[p][c] \/ (IsSlotEmpty(p, c) /\ Missing(r))

(* Deliveries come out in the order in which they were sent, over cancelled *)
(* ones and over the moving up of the queue: the slots of a queue are in    *)
(* the order of its rows.                                                  *)
QueueInOrder ==
    \A p \in Player : \A r, s \in Queue(p) : r.n < s.n => r.slot < s.slot
=============================================================================
