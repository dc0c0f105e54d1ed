--------------------------- MODULE DeliveryBoxProofs ---------------------------
(***************************************************************************)
(* What DeliveryBox keeps for any characters, items and bounds.  The table  *)
(* is looked at as a set T of rows, m of which have gone into receivers'    *)
(* boxes: each handler is a deletion, a mark, an insertion or a moving up,  *)
(* or two of them, and a lemma says what each of these keeps.  What is     *)
(* conserved is a sum over the inventories and the size of a set of rows.  *)
(***************************************************************************)
EXTENDS DeliveryBox, Sums

-----------------------------------------------------------------------------
\* A set of numbers with an upper bound has a maximum.
LEMMA MaxOfBounded ==
  ASSUME NEW N \in Nat, NEW S \in SUBSET (0 .. N), S # {}
  PROVE  Max(S) \in S /\ \A x \in S : x <= Max(S)
  <1> DEFINE Away == {N - x : x \in S}
             Less == OpToRel(<, Nat)
  <1>1. Away \subseteq Nat /\ Away # {}
    <2>1. \A x \in S : N - x \in Nat
      OBVIOUS
    <2>2. PICK x \in S : TRUE
      OBVIOUS
    <2>3. N - x \in Away
      OBVIOUS
    <2> QED BY <2>1, <2>3
  <1>2. PICK a \in Away : \A b \in Away : ~ (<<b, a>> \in Less)
    <2>1. IsWellFoundedOn(Less, Nat)
      BY NatLessThanWellFounded, Zenon
    <2> HIDE DEF Less, Away
    <2> QED BY <1>1, <2>1, WFMin
  <1>3. \A b \in Away : a <= b
    <2>1. ASSUME NEW b \in Away PROVE a <= b
      <3>1. a \in Nat /\ b \in Nat
        BY <1>1
      <3>2. <<b, a>> \in Nat \X Nat
        BY <3>1
      <3>3. ~ (b < a)
        BY <1>2, <3>1, <3>2 DEF OpToRel
      <3> QED BY <3>1, <3>3
    <2> QED BY <2>1
  <1>4. PICK x \in S : a = N - x
    OBVIOUS
  <1>5. \A y \in S : x >= y
    BY <1>3, <1>4
  <1>6. \E z \in S : \A y \in S : z >= y
    BY <1>5
  <1> HIDE DEF Away, Less
  <1> QED BY <1>6 DEF Max

-----------------------------------------------------------------------------
(***************************************************************************)
(* The table                                                               *)
(***************************************************************************)
\* The rows of box 1 behind the cells.
Waits(r) == r.box = 1 /\ r.slot >= Cells

\* Rows of the send box are in cells; no row is sent to the auction house.
\* The slots of box 1 stay below the number of rows that went there.
Table(T, m) ==
    /\ IsFiniteSet(T) /\ T \subseteq Row
    /\ \A r, s \in T : r.charid = s.charid /\ r.box = s.box /\ r.slot = s.slot => r = s
    /\ \A r \in T : /\ r.box = 2 => r.slot \in Cell /\ r.senderid \in Player
                    /\ r.box = 1 => r.slot < Cells + m /\ r.n <= m
    /\ \A r, s \in T : /\ Waits(r) /\ Waits(s) /\ r.charid = s.charid /\ r.n < s.n
                       => r.slot < s.slot

\* A deletion.
LEMMA TableShrinks ==
  ASSUME NEW T, NEW m, Table(T, m), NEW U \in SUBSET T
  PROVE  Table(U, m)
  <1>1. IsFiniteSet(U)
    BY FS_Subset DEF Table
  <1> QED BY <1>1 DEF Table

\* An UPDATE of sent or received.
LEMMA TableMarked ==
  ASSUME NEW T, NEW m, Table(T, m), NEW r \in T, NEW s \in Row,
         s.charid = r.charid, s.box = r.box, s.slot = r.slot,
         s.senderid = r.senderid, s.n = r.n
  PROVE  Table((T \ {r}) \cup {s}, m)
  <1> DEFINE U == (T \ {r}) \cup {s}
  <1>1. IsFiniteSet(U) /\ U \subseteq Row
    BY FS_RemoveElement, FS_AddElement DEF Table
  <1>2. \A x, y \in U : x.charid = y.charid /\ x.box = y.box /\ x.slot = y.slot => x = y
    BY DEF Table
  <1>3. \A x \in U : /\ x.box = 2 => x.slot \in Cell /\ x.senderid \in Player
                     /\ x.box = 1 => x.slot < Cells + m /\ x.n <= m
    BY DEF Table
  <1>4. \A x, y \in U : /\ Waits(x) /\ Waits(y) /\ x.charid = y.charid /\ x.n < y.n
                        => x.slot < y.slot
    BY DEF Table, Waits
  <1> QED BY <1>1, <1>2, <1>3, <1>4 DEF Table

\* A row put into a free cell of a send box.
LEMMA TableFilled ==
  ASSUME NEW T, NEW m, Table(T, m), NEW d \in Row,
         d.box = 2, d.slot \in Cell, d.senderid \in Player,
         \A r \in T : ~ (r.charid = d.charid /\ r.box = 2 /\ r.slot = d.slot)
  PROVE  Table(T \cup {d}, m)
  <1> DEFINE U == T \cup {d}
  <1>1. IsFiniteSet(U) /\ U \subseteq Row
    BY FS_AddElement DEF Table
  <1>2. \A x, y \in U : x.charid = y.charid /\ x.box = y.box /\ x.slot = y.slot => x = y
    BY DEF Table
  <1>3. \A x \in U : /\ x.box = 2 => x.slot \in Cell /\ x.senderid \in Player
                     /\ x.box = 1 => x.slot < Cells + m /\ x.n <= m
    BY DEF Table
  <1>4. \A x, y \in U : /\ Waits(x) /\ Waits(y) /\ x.charid = y.charid /\ x.n < y.n
                        => x.slot < y.slot
    BY DEF Table, Waits
  <1> QED BY <1>1, <1>2, <1>3, <1>4 DEF Table

\* The same table when one delivery more is counted.
LEMMA TableLater ==
  ASSUME NEW T, NEW m \in 0 .. MaxSends, Table(T, m)
  PROVE  Table(T, m + 1)
  BY NumbersAssumption DEF Table, Row, Slot

\* A row put behind all others of a receiver's box.
LEMMA TableDelivered ==
  ASSUME NEW T, NEW m \in 0 .. MaxSends, Table(T, m), NEW d \in Row,
         d.box = 1, d.slot >= Cells, d.slot < Cells + (m + 1), d.n = m + 1,
         \A r \in T : r.charid = d.charid /\ r.box = 1 => r.slot < d.slot
  PROVE  Table(T \cup {d}, m + 1)
  <1> DEFINE U == T \cup {d}
  <1>1. IsFiniteSet(U) /\ U \subseteq Row
    BY FS_AddElement DEF Table
  <1>2. \A x, y \in U : x.charid = y.charid /\ x.box = y.box /\ x.slot = y.slot => x = y
    <2>1. \A x \in T : ~ (x.charid = d.charid /\ x.box = 1 /\ x.slot = d.slot)
      <3>1. d.slot \in Nat /\ \A x \in T : x.slot \in Nat
        BY NumbersAssumption DEF Table, Row, Slot
      <3> QED BY <3>1
    <2> QED BY <2>1 DEF Table
  <1>3. \A x \in U : /\ x.box = 2 => x.slot \in Cell /\ x.senderid \in Player
                     /\ x.box = 1 => x.slot < Cells + (m + 1) /\ x.n <= m + 1
    BY NumbersAssumption DEF Table, Row, Slot
  <1>4. \A x, y \in U : /\ Waits(x) /\ Waits(y) /\ x.charid = y.charid /\ x.n < y.n
                        => x.slot < y.slot
    BY NumbersAssumption DEF Table, Waits, Row, Slot
  <1> QED BY <1>1, <1>2, <1>3, <1>4 DEF Table

\* What the moving up of p's queue makes of a row: that of slot q goes to c.
Lifted(r, p, q, c) ==
    IF ~ (r.charid = p /\ r.box = 1) THEN r
    ELSE IF r.slot = q THEN [r EXCEPT !.slot = c]
    ELSE IF r.slot > q THEN [r EXCEPT !.slot = @ - 1] ELSE r

\* What moving up does to each field of a row.
LEMMA LiftedFields ==
  ASSUME NEW r \in Row, NEW p, NEW q \in Slot, NEW c \in Cell, q >= Cells
  PROVE  LET l == Lifted(r, p, q, c)
         IN  /\ l \in Row /\ l.charid = r.charid /\ l.box = r.box /\ l.itemid = r.itemid
             /\ l.senderid = r.senderid /\ l.sent = r.sent /\ l.received = r.received
             /\ l.n = r.n
             /\ l.slot = IF ~ (r.charid = p /\ r.box = 1) THEN r.slot
                         ELSE IF r.slot = q THEN c
                         ELSE IF r.slot > q THEN r.slot - 1 ELSE r.slot
  <1>1. r.slot \in 0 .. Cells + MaxSends /\ c \in 0 .. Cells + MaxSends
        /\ q \in 0 .. Cells + MaxSends /\ Cells \in Nat /\ MaxSends \in Nat
    BY NumbersAssumption DEF Row, Slot, Cell
  <1>2. CASE ~ (r.charid = p /\ r.box = 1)
    BY <1>2 DEF Lifted
  <1>3. CASE r.charid = p /\ r.box = 1 /\ r.slot = q
    BY <1>1, <1>3 DEF Lifted, Row, Slot
  <1>4. CASE r.charid = p /\ r.box = 1 /\ r.slot # q /\ r.slot > q
    <2>1. r.slot - 1 \in Slot
      BY <1>1, <1>4 DEF Slot
    <2> QED BY <1>4, <2>1 DEF Lifted, Row
  <1>5. CASE r.charid = p /\ r.box = 1 /\ r.slot # q /\ ~ (r.slot > q)
    BY <1>5 DEF Lifted
  <1> QED BY <1>2, <1>3, <1>4, <1>5

\* Slots in a cell or from q on stay apart if c is free.
LEMMA SlotsApart ==
  ASSUME NEW n \in Nat, NEW q \in Nat, NEW c \in Nat, NEW a \in Nat, NEW b \in Nat,
         q >= n, c < n, a < n \/ a >= q, b < n \/ b >= q, a # c, b # c,
         (IF a = q THEN c ELSE IF a > q THEN a - 1 ELSE a)
           = (IF b = q THEN c ELSE IF b > q THEN b - 1 ELSE b)
  PROVE  a = b
  <1>1. CASE a = q
    BY <1>1
  <1>2. CASE a > q
    BY <1>2
  <1>3. CASE a < q
    BY <1>3
  <1> QED BY <1>1, <1>2, <1>3

\* Moving up keeps the rows of a table apart.
LEMMA LiftedApart ==
  ASSUME NEW T, NEW m \in 0 .. MaxSends, Table(T, m), NEW p \in Player, NEW c \in Cell,
         NEW first \in T, first.charid = p, Waits(first),
         \A r \in T : Waits(r) /\ r.charid = p => first.slot <= r.slot,
         \A r \in T : ~ (r.charid = p /\ r.box = 1 /\ r.slot = c),
         NEW r \in T, NEW s \in T,
         Lifted(r, p, first.slot, c).charid = Lifted(s, p, first.slot, c).charid,
         Lifted(r, p, first.slot, c).box = Lifted(s, p, first.slot, c).box,
         Lifted(r, p, first.slot, c).slot = Lifted(s, p, first.slot, c).slot
  PROVE  r.slot = s.slot /\ r = s
  <1> DEFINE q == first.slot
             L(x) == Lifted(x, p, q, c)
  <1>1. /\ Cells \in Nat /\ MaxSends \in Nat /\ m \in Nat
        /\ q \in Slot /\ q >= Cells /\ c < Cells /\ c \in Nat /\ q \in Nat
        /\ \A x \in T : x \in Row /\ x.slot \in Nat /\ x.n \in Nat
    BY NumbersAssumption DEF Table, Row, Slot, Cell, Waits
  <1>2. \A x \in T : /\ L(x).charid = x.charid /\ L(x).box = x.box
                     /\ L(x).slot = IF ~ (x.charid = p /\ x.box = 1) THEN x.slot
                                    ELSE IF x.slot = q THEN c
                                    ELSE IF x.slot > q THEN x.slot - 1 ELSE x.slot
    BY <1>1, LiftedFields
  <1>3. L(r).slot = L(s).slot /\ r.charid = s.charid /\ r.box = s.box
    BY <1>2
  <1> HIDE DEF L
  <1>4. \A x \in T : x.charid = p /\ x.box = 1 => x.slot < Cells \/ x.slot >= q
    BY <1>1 DEF Waits
  <1>5. r.slot = s.slot
    <2>1. CASE ~ (r.charid = p /\ r.box = 1)
      BY <1>2, <1>3, <2>1
    <2>2. CASE r.charid = p /\ r.box = 1
      <3>1. /\ L(r).slot = IF r.slot = q THEN c
                           ELSE IF r.slot > q THEN r.slot - 1 ELSE r.slot
            /\ L(s).slot = IF s.slot = q THEN c
                           ELSE IF s.slot > q THEN s.slot - 1 ELSE s.slot
        BY <1>2, <1>3, <2>2
      <3>2. r.slot # c /\ s.slot # c
        BY <1>3, <2>2
      <3>3. /\ r.slot < Cells \/ r.slot >= q
            /\ s.slot < Cells \/ s.slot >= q
        BY <1>3, <1>4, <2>2
      <3>4. r.slot \in Nat /\ s.slot \in Nat /\ L(r).slot = L(s).slot
        BY <1>1, <1>3
      <3> HIDE DEF q
      <3> QED BY <1>1, <3>1, <3>2, <3>3, <3>4, SlotsApart
    <2> QED BY <2>1, <2>2
  <1> QED BY <1>3, <1>5 DEF Table

\* The first of a queue goes to a free cell, and the others move up.
LEMMA TableMovesUp ==
  ASSUME NEW T, NEW m \in 0 .. MaxSends, Table(T, m), NEW p \in Player, NEW c \in Cell,
         NEW first \in T, first.charid = p, Waits(first),
         \A r \in T : Waits(r) /\ r.charid = p => first.slot <= r.slot,
         \A r \in T : ~ (r.charid = p /\ r.box = 1 /\ r.slot = c)
  PROVE  Table({Lifted(r, p, first.slot, c) : r \in T}, m)
  <1> DEFINE q == first.slot
             L(r) == Lifted(r, p, q, c)
             U == {L(r) : r \in T}
  <1>1. /\ Cells \in Nat /\ MaxSends \in Nat /\ m \in Nat
        /\ q \in Slot /\ q >= Cells /\ c < Cells /\ c \in Nat /\ q \in Nat
        /\ \A r \in T : r \in Row /\ r.slot \in Nat /\ r.n \in Nat
    BY NumbersAssumption DEF Table, Row, Slot, Cell, Waits
  <1>2. \A r \in T : /\ L(r) \in Row /\ L(r).charid = r.charid /\ L(r).box = r.box
                     /\ L(r).senderid = r.senderid /\ L(r).n = r.n
                     /\ L(r).slot = IF ~ (r.charid = p /\ r.box = 1) THEN r.slot
                                    ELSE IF r.slot = q THEN c
                                    ELSE IF r.slot > q THEN r.slot - 1 ELSE r.slot
    BY <1>1, LiftedFields
  <1> HIDE DEF L
  <1>3. IsFiniteSet(U)
    <2> DEFINE f == [r \in T |-> L(r)]
    <2>1. f \in Surjection(T, U)
      BY DEF Surjection
    <2> QED BY <2>1, FS_Surjection DEF Table
  <1>4. U \subseteq Row
    BY <1>2
  <1>5. \A r \in T : r.charid = p /\ r.box = 1 => r.slot < Cells \/ r.slot >= q
    BY <1>1 DEF Waits
  <1>6. \A r, s \in T : L(r).charid = L(s).charid /\ L(r).box = L(s).box
                           /\ L(r).slot = L(s).slot => r.slot = s.slot
    BY LiftedApart DEF L
  <1>7. \A x, y \in U : x.charid = y.charid /\ x.box = y.box /\ x.slot = y.slot => x = y
    <2> SUFFICES ASSUME NEW r \in T, NEW s \in T, L(r).charid = L(s).charid,
                        L(r).box = L(s).box, L(r).slot = L(s).slot
                 PROVE  r = s
      OBVIOUS
    <2>1. r.slot = s.slot /\ r.charid = s.charid /\ r.box = s.box
      BY <1>2, <1>6
    <2> QED BY <2>1 DEF Table
  <1>8. \A x \in U : /\ x.box = 2 => x.slot \in Cell /\ x.senderid \in Player
                     /\ x.box = 1 => x.slot < Cells + m /\ x.n <= m
    <2> SUFFICES ASSUME NEW r \in T
                 PROVE  /\ L(r).box = 2 => L(r).slot \in Cell /\ L(r).senderid \in Player
                        /\ L(r).box = 1 => L(r).slot < Cells + m /\ L(r).n <= m
      OBVIOUS
    <2>1. /\ r.box = 2 => r.slot \in Cell /\ r.senderid \in Player
          /\ r.box = 1 => r.slot < Cells + m /\ r.n <= m
      BY DEF Table
    <2>2. r.box = 2 => ~ (r.charid = p /\ r.box = 1)
      OBVIOUS
    <2>3. r.slot \in Nat
      BY <1>1
    <2> HIDE DEF q
    <2> QED BY <1>1, <1>2, <2>1, <2>2, <2>3
  <1>9. \A x, y \in U : /\ Waits(x) /\ Waits(y) /\ x.charid = y.charid /\ x.n < y.n
                        => x.slot < y.slot
    <2> SUFFICES ASSUME NEW r \in T, NEW s \in T, Waits(L(r)), Waits(L(s)),
                        L(r).charid = L(s).charid, L(r).n < L(s).n
                 PROVE  L(r).slot < L(s).slot
      OBVIOUS
    <2>1. /\ r.charid = s.charid /\ r.box = 1 /\ s.box = 1 /\ r.n < s.n
          /\ r.slot \in Nat /\ s.slot \in Nat
      BY <1>1, <1>2 DEF Waits
    <2>2. CASE r.charid # p
      BY <1>2, <2>1, <2>2 DEF Table, Waits
    <2>3. CASE r.charid = p
      <3>1. /\ L(r).slot = IF r.slot = q THEN c
                           ELSE IF r.slot > q THEN r.slot - 1 ELSE r.slot
            /\ L(s).slot = IF s.slot = q THEN c
                           ELSE IF s.slot > q THEN s.slot - 1 ELSE s.slot
        BY <1>2, <2>1, <2>3
      <3>2. L(r).slot >= Cells /\ L(s).slot >= Cells
        BY DEF Waits
      <3>3. r.slot > q /\ s.slot > q
        <4> HIDE DEF q
        <4>1. /\ r.slot < Cells \/ r.slot >= q
              /\ s.slot < Cells \/ s.slot >= q
          BY <1>5, <2>1, <2>3
        <4> QED BY <1>1, <2>1, <3>1, <3>2, <4>1
      <3>4. r.slot < s.slot
        BY <1>1, <2>1, <3>3 DEF Table, Waits
      <3> HIDE DEF q
      <3> QED BY <1>1, <2>1, <3>1, <3>3, <3>4
    <2> QED BY <2>2, <2>3
  <1> QED BY <1>3, <1>4, <1>7, <1>8, <1>9 DEF Table, L

-----------------------------------------------------------------------------
(***************************************************************************)
(* Types                                                                   *)
(***************************************************************************)
TypeInv == TypeOK /\ Table(delivery_box, sends)

\* The constants and the slots; a slot in use survives the uint8 it is read into.
LEMMA Numbers ==
  /\ Cells \in Nat /\ Cells > 0 /\ MaxSends \in Nat /\ Stock \in Nat
  /\ Cell \subseteq Slot /\ Slot \subseteq Nat
  /\ \A c \in Cell : c < Cells
  /\ \A q \in Slot : q < Cells + MaxSends => q % SlotWidth = q
  <1>1. /\ Cells \in Nat /\ Cells > 0 /\ MaxSends \in Nat /\ Stock \in Nat
        /\ Cell \subseteq Slot /\ Slot \subseteq Nat
        /\ \A c \in Cell : c < Cells
    BY NumbersAssumption DEF Cell, Slot
  <1>2. \A q \in Slot : q < Cells + MaxSends => q % SlotWidth = q
    BY <1>1, WidthAssumption DEF Slot
  <1> QED BY <1>1, <1>2

\* What the trigger computes is behind all rows of the box.
LEMMA BehindAll ==
  ASSUME TypeInv, NEW p \in Player
  PROVE  /\ Behind(p) \in Nat /\ Behind(p) >= Cells /\ Behind(p) < Cells + (sends + 1)
         /\ \A r \in delivery_box : r.charid = p /\ r.box = 1 => r.slot < Behind(p)
  <1> DEFINE S == {r.slot : r \in Rows(p, 1)} \cup {0}
             N == Cells + MaxSends
  <1>1. N \in Nat /\ sends \in Nat /\ Cells \in Nat /\ Cells > 0
    BY Numbers DEF TypeInv, TypeOK
  <1>2. \A r \in Rows(p, 1) : /\ r \in delivery_box /\ r.slot \in 0 .. N
                              /\ r.slot < Cells + sends
    BY DEF Rows, TypeInv, Table, Row, Slot
  <1>3. S \in SUBSET (0 .. N) /\ S # {}
    BY <1>1, <1>2
  <1>4. Max(S) \in S /\ \A x \in S : x <= Max(S)
    <2> HIDE DEF S, N
    <2> QED BY <1>1, <1>3, MaxOfBounded
  <1>5. Max(S) \in Nat /\ Max(S) < Cells + sends
    <2>1. \A x \in S : x \in Nat /\ x < Cells + sends
      BY <1>1, <1>2
    <2> QED BY <1>4, <2>1
  <1>6. Behind(p) = IF Max(S) < Cells THEN Cells ELSE Max(S) + 1
    BY DEF Behind
  <1>7. \A r \in delivery_box : r.charid = p /\ r.box = 1 =>
           r.slot <= Max(S) /\ r.slot \in Nat
    <2> SUFFICES ASSUME NEW r \in delivery_box, r.charid = p, r.box = 1
                 PROVE  r.slot <= Max(S) /\ r.slot \in Nat
      OBVIOUS
    <2>1. r \in Rows(p, 1)
      BY DEF Rows
    <2>2. r.slot \in S
      BY <2>1
    <2> QED BY <1>2, <1>4, <2>1, <2>2
  <1> HIDE DEF S, N
  <1> QED BY <1>1, <1>5, <1>6, <1>7

\* The trigger's row is one, and keeps the table in order.
LEMMA Delivered ==
  ASSUME TypeInv, sends < MaxSends, NEW p \in Player, NEW k \in Kind,
         NEW from \in Player \cup {AH}
  PROVE  LET d == Delivery(p, k, from)
         IN  /\ d \in Row /\ d.charid = p /\ d.box = 1 /\ d.slot >= Cells
             /\ d.slot < Cells + (sends + 1) /\ d.itemid = k /\ d.senderid = from
             /\ d.n = sends + 1
             /\ \A r \in delivery_box : r.charid = p /\ r.box = 1 => r.slot < d.slot
             /\ sends \in 0 .. MaxSends /\ sends + 1 \in 0 .. MaxSends
  <1>1. sends \in 0 .. MaxSends /\ MaxSends \in Nat /\ Cells \in Nat
    BY Numbers DEF TypeInv, TypeOK
  <1>2. Behind(p) \in Slot
    BY <1>1, BehindAll DEF Slot
  <1>3. sends + 1 \in 0 .. MaxSends
    BY <1>1
  <1>4. Delivery(p, k, from) \in Row
    BY <1>2, <1>3 DEF Delivery, Row
  <1>5. /\ Delivery(p, k, from).charid = p /\ Delivery(p, k, from).box = 1
        /\ Delivery(p, k, from).slot = Behind(p) /\ Delivery(p, k, from).itemid = k
        /\ Delivery(p, k, from).senderid = from /\ Delivery(p, k, from).n = sends + 1
    BY DEF Delivery
  <1> QED BY <1>1, <1>3, <1>4, <1>5, BehindAll

\* Nothing is in the table at the start.
LEMMA TypeInit == Init => TypeInv
  <1> SUFFICES ASSUME Init PROVE TypeInv
    OBVIOUS
  <1>1. Table(delivery_box, sends)
    BY FS_EmptySet DEF Init, Table
  <1>2. Clean \in [Cell -> Item]
    BY DEF Clean, Item
  <1> QED BY <1>1, <1>2, Numbers DEF Init, TypeInv, TypeOK

\* A copy's cell is set to an item.
LEMMA ShowType ==
  ASSUME UContainer \in [Player -> [Cell -> Item]],
         NEW p \in Player, NEW c \in Cell, NEW item \in Item, Show(p, c, item)
  PROVE  /\ UContainer' \in [Player -> [Cell -> Item]]
         /\ UContainer'[p][c] = item
         /\ \A b \in Cell : b # c => UContainer'[p][b] = UContainer[p][b]
         /\ \A o \in Player : o # p => UContainer'[o] = UContainer[o]
  BY DEF Show

\* A row in the copy, and a cell of it with sent changed.
LEMMA ShownType ==
  /\ \A r \in Row : Shown(r) \in Item /\ Shown(r) # NoItem
  /\ \A item \in Item : item # NoItem =>
        /\ item.itemid \in Kind /\ item.other \in Player \cup {AH}
        /\ \A b \in BOOLEAN : /\ [item EXCEPT !.sent = b] \in Item
                              /\ [item EXCEPT !.sent = b] # NoItem
                              /\ [item EXCEPT !.sent = b] =
                                    [itemid |-> item.itemid, other |-> item.other, sent |-> b]
  /\ NoItem \in Item
  <1>1. \A r \in Row : Shown(r) \in Item /\ Shown(r) # NoItem
    BY PlayerAssumption DEF Row, Shown, Item, NoItem
  <1>2. ASSUME NEW item \in Item, item # NoItem
        PROVE  /\ item.itemid \in Kind /\ item.other \in Player \cup {AH}
               /\ \A b \in BOOLEAN : [item EXCEPT !.sent = b] =
                     [itemid |-> item.itemid, other |-> item.other, sent |-> b]
    BY <1>2 DEF Item
  <1>3. ASSUME NEW k \in Kind, NEW o \in Player \cup {AH}, NEW b \in BOOLEAN
        PROVE  /\ [itemid |-> k, other |-> o, sent |-> b] \in Item
               /\ [itemid |-> k, other |-> o, sent |-> b] # NoItem
    BY PlayerAssumption DEF Item, NoItem
  <1>4. NoItem \in Item
    BY DEF Item
  <1>5. ASSUME NEW item \in Item, item # NoItem, NEW b \in BOOLEAN
        PROVE  /\ [item EXCEPT !.sent = b] \in Item
               /\ [item EXCEPT !.sent = b] # NoItem
    <2>1. [item EXCEPT !.sent = b] =
             [itemid |-> item.itemid, other |-> item.other, sent |-> b]
      BY <1>2, <1>5
    <2>2. item.itemid \in Kind /\ item.other \in Player \cup {AH}
      BY <1>2, <1>5
    <2> QED BY <1>3, <2>1, <2>2
  <1> QED BY <1>1, <1>2, <1>4, <1>5

\* The variables of the characters and their copies.
Others ==
    /\ inventory \in [Player -> [Kind -> Nat]]
    /\ UContainer \in [Player -> [Cell -> Item]]
    /\ opened \in [Player -> 0 .. 2]
    /\ listed \in [Player -> BOOLEAN]
    /\ made \in [Kind -> Int]
    /\ refused \in [Kind -> Nat]

\* The types are those of the table and of the rest.
LEMMA TypeParts ==
  /\ TypeInv <=> Table(delivery_box, sends) /\ sends \in 0 .. MaxSends /\ Others
  /\ TypeInv' <=> Table(delivery_box', sends') /\ sends' \in 0 .. MaxSends /\ Others'
  BY DEF TypeInv, TypeOK, Others, Table

\* Rows of the table, and what the client's box has in a cell.
LEMMA AtRows ==
  ASSUME TypeInv, NEW p \in Player, NEW b, NEW c, NEW r \in At(p, b, c)
  PROVE  r \in delivery_box /\ r \in Row /\ r.charid = p /\ r.box = b /\ r.slot = c
  BY DEF At, Rows, TypeInv, Table

\* The list and the closing of a box leave the table alone.
LEMMA TypeClient ==
  ASSUME TypeInv, NEW p \in Player,
         (\E b \in {1, 2} : Open(p, b)) \/ List(p) \/ Close(p)
  PROVE  TypeInv'
  <1>1. UNCHANGED <<delivery_box, inventory, sends, made, refused>>
    BY DEF Open, List, Close
  <1>2. UContainer \in [Player -> [Cell -> Item]] /\ opened \in [Player -> 0 .. 2]
        /\ listed \in [Player -> BOOLEAN]
    BY TypeParts DEF Others
  <1>3. Clean \in [Cell -> Item]
    BY ShownType DEF Clean
  <1>4. opened' \in [Player -> 0 .. 2] /\ listed' \in [Player -> BOOLEAN]
    <2>1. 0 \in 0 .. 2 /\ 1 \in 0 .. 2 /\ 2 \in 0 .. 2
      OBVIOUS
    <2> QED BY <1>2, <2>1 DEF Open, List, Close
  <1>5. UContainer' \in [Player -> [Cell -> Item]]
    <2>1. CASE (\E b \in {1, 2} : Open(p, b)) \/ Close(p)
      BY <1>2, <1>3, <2>1 DEF Open, Close
    <2>2. CASE List(p)
      <3> DEFINE new == [c \in Cell |->
                            IF At(p, opened[p], c) = {} THEN UContainer[p][c]
                            ELSE Shown(CHOOSE r \in At(p, opened[p], c) : TRUE)]
      <3>1. ASSUME NEW c \in Cell, At(p, opened[p], c) # {}
            PROVE  Shown(CHOOSE r \in At(p, opened[p], c) : TRUE) \in Item
        BY <3>1, AtRows, ShownType
      <3>2. new \in [Cell -> Item]
        BY <1>2, <3>1
      <3>3. UContainer' = [UContainer EXCEPT ![p] = new]
        BY <2>2 DEF List
      <3> HIDE DEF new
      <3> QED BY <1>2, <3>2, <3>3
    <2> QED BY <2>1, <2>2
  <1> QED BY <1>1, <1>4, <1>5, TypeParts DEF Others

\* The row of an item that goes into a cell of the send box.
LEMMA SendRowType ==
  ASSUME NEW p \in Player, NEW c \in Cell, NEW k \in Kind, NEW to \in Player,
         NEW r, r = SendRow(p, c, k, to)
  PROVE  /\ r \in Row /\ r.charid = p /\ r.box = 2 /\ r.slot = c /\ r.senderid = to
         /\ r.itemid = k /\ ~ r.sent
  BY Numbers DEF Row, SendRow

\* It is inserted.
LEMMA TypeInsertRow ==
  ASSUME TypeInv, NEW p \in Player, NEW c \in Cell, NEW k \in Kind, NEW to \in Player,
         InsertRow(p, c, k, to)
  PROVE  Table(delivery_box', sends)
  <1>1. PICK r : r = SendRow(p, c, k, to)
    OBVIOUS
  <1>2. r \in Row /\ r.charid = p /\ r.box = 2 /\ r.slot = c /\ r.senderid = to
    BY <1>1, SendRowType
  <1>3. \A x \in delivery_box : ~ (x.charid = p /\ x.box = 2 /\ x.slot = c)
    BY DEF InsertRow, At, Rows
  <1>4. Table(delivery_box \cup {r}, sends)
    BY <1>2, <1>3, TableFilled DEF TypeInv
  <1> QED BY <1>1, <1>4 DEF InsertRow

\* A cell of the send box is filled.
LEMMA TypePutIn ==
  ASSUME TypeInv, NEW p \in Player, NEW c \in Cell, NEW k \in Kind, NEW to \in Player,
         PutIn(p, c, k, to)
  PROVE  TypeInv'
  <1>1. Table(delivery_box', sends')
    BY TypeInsertRow DEF PutIn
  <1>2. inventory' \in [Player -> [Kind -> Nat]]
    <2>1. inventory[p][k] - 1 \in Nat /\ inventory \in [Player -> [Kind -> Nat]]
      BY TypeParts DEF PutIn, InsertRow, Others
    <2> QED BY <2>1 DEF PutIn
  <1>3. UContainer' \in [Player -> [Cell -> Item]]
    <2>1. Shown(SendRow(p, c, k, to)) \in Item
      BY SendRowType, ShownType
    <2> QED BY <2>1, ShowType, TypeParts DEF PutIn, Others
  <1> QED BY <1>1, <1>2, <1>3, TypeParts DEF PutIn, InsertRow, Others, clientVars

\* It is inserted and the item refused.
LEMMA TypePutInRefused ==
  ASSUME TypeInv, NEW p \in Player, NEW c \in Cell, NEW k \in Kind, NEW to \in Player,
         PutInRefused(p, c, k, to)
  PROVE  TypeInv'
  <1>1. sends \in 0 .. MaxSends /\ sends + 1 \in 0 .. MaxSends
    BY Numbers, TypeParts DEF PutInRefused
  <1>2. Table(delivery_box', sends + 1)
    <2>1. Table(delivery_box', sends)
      BY TypeInsertRow DEF PutInRefused
    <2> QED BY <1>1, <2>1, TableLater
  <1>3. refused' \in [Kind -> Nat]
    BY TypeParts DEF PutInRefused, Others
  <1> QED BY <1>1, <1>2, <1>3, TypeParts DEF PutInRefused, InsertRow, Others, clientVars

\* The sender's row is marked and the receiver's is made.
LEMMA TypeSend ==
  ASSUME TypeInv, NEW p \in Player, NEW c \in Cell, Send(p, c)
  PROVE  TypeInv'
  <1>1. PICK r \in At(p, 2, c) :
           delivery_box' = Replaced(r, [r EXCEPT !.sent = TRUE])
               \cup {Delivery(r.senderid, UContainer[p][c].itemid, p)}
    BY DEF Send
  <1>2. /\ r \in delivery_box /\ r \in Row /\ r.box = 2 /\ r.senderid \in Player
        /\ sends < MaxSends
    BY AtRows DEF TypeInv, Table, Send
  <1>3. /\ UContainer[p][c] \in Item /\ UContainer[p][c] # NoItem
        /\ UContainer[p][c].itemid \in Kind
        /\ [UContainer[p][c] EXCEPT !.sent = TRUE] \in Item
    <2>1. UContainer[p][c] \in Item /\ UContainer[p][c] # NoItem
      BY TypeParts DEF Others, Send, IsSlotEmpty
    <2> QED BY <2>1, ShownType
  <1> DEFINE s == [r EXCEPT !.sent = TRUE]
             d == Delivery(r.senderid, UContainer[p][c].itemid, p)
  <1>4. /\ s \in Row /\ s.charid = r.charid /\ s.box = r.box /\ s.slot = r.slot
        /\ s.senderid = r.senderid /\ s.n = r.n
    BY <1>2 DEF Row
  <1>5. /\ d \in Row /\ d.charid = r.senderid /\ d.box = 1 /\ d.slot >= Cells
        /\ d.slot < Cells + (sends + 1) /\ d.n = sends + 1
        /\ \A x \in delivery_box : x.charid = d.charid /\ x.box = 1 => x.slot < d.slot
        /\ sends \in 0 .. MaxSends /\ sends + 1 \in 0 .. MaxSends
    BY <1>2, <1>3, Delivered
  <1> HIDE DEF s, d
  <1>6. Table((delivery_box \ {r}) \cup {s}, sends)
    BY <1>2, <1>4, TableMarked DEF TypeInv
  <1>7. \A x \in (delivery_box \ {r}) \cup {s} :
           x.charid = d.charid /\ x.box = 1 => x.slot < d.slot
    BY <1>2, <1>4, <1>5
  <1>8. Table(((delivery_box \ {r}) \cup {s}) \cup {d}, sends + 1)
    BY <1>5, <1>6, <1>7, TableDelivered
  <1>9. delivery_box' = ((delivery_box \ {r}) \cup {s}) \cup {d} /\ sends' = sends + 1
    BY <1>1 DEF Replaced, s, d, Send
  <1>10. UContainer' \in [Player -> [Cell -> Item]]
    BY <1>3, ShowType, TypeParts DEF Send, Others
  <1> QED BY <1>5, <1>8, <1>9, <1>10, TypeParts DEF Send, Others, clientVars

\* The sender's row is marked and the receiver's is deleted.
LEMMA TypeCancel ==
  ASSUME TypeInv, NEW p \in Player, NEW c \in Cell, Cancel(p, c)
  PROVE  TypeInv'
  <1>1. PICK r \in At(p, 2, c) :
           \/ \E d : /\ delivery_box' = Replaced(r, [r EXCEPT !.sent = FALSE]) \ {d}
                     /\ Show(p, c, [UContainer[p][c] EXCEPT !.sent = FALSE])
           \/ \E S : delivery_box' = delivery_box \ S /\ UContainer' = UContainer
    BY DEF Cancel
  <1>2. r \in delivery_box /\ r \in Row
    BY AtRows
  <1> DEFINE s == [r EXCEPT !.sent = FALSE]
  <1>3. Table((delivery_box \ {r}) \cup {s}, sends)
    <2>1. /\ s \in Row /\ s.charid = r.charid /\ s.box = r.box /\ s.slot = r.slot
          /\ s.senderid = r.senderid /\ s.n = r.n
      BY <1>2 DEF Row
    <2> HIDE DEF s
    <2> QED BY <1>2, <2>1, TableMarked DEF TypeInv
  <1>4. Table(delivery_box', sends)
    <2>1. CASE \E d : delivery_box' = Replaced(r, s) \ {d}
      <3>1. delivery_box' \in SUBSET ((delivery_box \ {r}) \cup {s})
        BY <2>1 DEF Replaced
      <3> HIDE DEF s
      <3> QED BY <1>3, <3>1, TableShrinks
    <2>2. CASE \E S : delivery_box' = delivery_box \ S
      <3>1. delivery_box' \in SUBSET delivery_box
        BY <2>2
      <3> QED BY <3>1, TableShrinks DEF TypeInv
    <2> QED BY <1>1, <2>1, <2>2
  <1>5. UContainer' \in [Player -> [Cell -> Item]]
    <2>1. UContainer[p][c] \in Item /\ UContainer[p][c] # NoItem
          /\ UContainer \in [Player -> [Cell -> Item]]
      BY TypeParts DEF Others, Cancel, IsSlotEmpty
    <2>2. [UContainer[p][c] EXCEPT !.sent = FALSE] \in Item
      BY <2>1, ShownType
    <2> QED BY <1>1, <2>1, <2>2, ShowType
  <1> QED BY <1>4, <1>5, TypeParts DEF Cancel, Others, clientVars

\* Rows of a cell that go.
LEMMA TypeRemoved ==
  ASSUME TypeInv, NEW p \in Player,
         RemoveReceived(p) \/ \E c \in Cell : Take(p, c) \/ Drop(p, c)
  PROVE  TypeInv'
  <1>1. Table(delivery_box', sends) /\ sends' = sends
    <2>1. delivery_box' \in SUBSET delivery_box
      BY DEF RemoveReceived, Take, Drop
    <2> QED BY <2>1, TableShrinks DEF TypeInv, RemoveReceived, Take, Drop
  <1>2. UContainer' \in [Player -> [Cell -> Item]]
    <2>1. PICK c \in Cell : Show(p, c, NoItem)
      <3>1. CASE RemoveReceived(p)
        <4>1. PICK r \in Rows(p, 2) : Show(p, r.slot, NoItem)
          BY <3>1 DEF RemoveReceived
        <4>2. r.slot \in Cell
          BY DEF Rows, TypeInv, Table
        <4> QED BY <4>1, <4>2
      <3>2. CASE \E c \in Cell : Take(p, c) \/ Drop(p, c)
        BY <3>2 DEF Take, Drop
      <3> QED BY <3>1, <3>2
    <2> QED BY <2>1, ShowType, ShownType, TypeParts DEF Others
  <1>3. inventory' \in [Player -> [Kind -> Nat]] /\ made' \in [Kind -> Int]
    <2>1. inventory \in [Player -> [Kind -> Nat]] /\ made \in [Kind -> Int]
          /\ UContainer \in [Player -> [Cell -> Item]]
      BY TypeParts DEF Others
    <2>2. CASE RemoveReceived(p)
      BY <2>1, <2>2 DEF RemoveReceived
    <2>3. ASSUME NEW c \in Cell, Take(p, c)
          PROVE  inventory' \in [Player -> [Kind -> Nat]] /\ made' = made
      <3>1. UContainer[p][c].itemid \in Kind
        BY <2>1, <2>3, ShownType DEF Take, IsSlotEmpty
      <3>2. inventory' = [inventory EXCEPT ![p][UContainer[p][c].itemid] = @ + 1]
        BY <2>3 DEF Take
      <3> QED BY <2>1, <2>3, <3>1, <3>2 DEF Take
    <2>4. ASSUME NEW c \in Cell, Drop(p, c)
          PROVE  inventory' = inventory /\ made' \in [Kind -> Int]
      <3>1. PICK r \in At(p, 1, c) : made' = [made EXCEPT ![r.itemid] = @ - 1]
        BY <2>4 DEF Drop
      <3>2. r.itemid \in Kind
        BY AtRows DEF Row
      <3> QED BY <2>1, <2>4, <3>1, <3>2 DEF Drop
    <2> QED BY <2>1, <2>2, <2>3, <2>4
  <1> QED BY <1>1, <1>2, <1>3, TypeParts
       DEF RemoveReceived, Take, Drop, Others, clientVars

\* The auction house pays.
LEMMA TypePay ==
  ASSUME TypeInv, NEW p \in Player, NEW k \in Kind, Pay(p, k)
  PROVE  TypeInv'
  <1> DEFINE d == Delivery(p, k, AH)
  <1>1. /\ d \in Row /\ d.charid = p /\ d.box = 1 /\ d.slot >= Cells
        /\ d.slot < Cells + (sends + 1) /\ d.n = sends + 1
        /\ \A x \in delivery_box : x.charid = d.charid /\ x.box = 1 => x.slot < d.slot
        /\ sends \in 0 .. MaxSends /\ sends + 1 \in 0 .. MaxSends
    BY Delivered DEF Pay
  <1>2. delivery_box' = delivery_box \cup {d} /\ sends' = sends + 1
    BY DEF Pay
  <1> HIDE DEF d
  <1>3. Table(delivery_box \cup {d}, sends + 1)
    BY <1>1, TableDelivered DEF TypeInv
  <1>4. made' \in [Kind -> Int]
    BY TypeParts DEF Pay, Others
  <1> QED BY <1>1, <1>2, <1>3, <1>4, TypeParts DEF Pay, Others, clientVars

\* An item goes back.
LEMMA TypeReturn ==
  ASSUME TypeInv, NEW p \in Player, NEW c \in Cell, Return(p, c)
  PROVE  TypeInv'
  <1>1. PICK r \in At(p, 1, c) :
           /\ r.senderid # AH
           /\ delivery_box' = (delivery_box \ {r})
                  \cup {Delivery(r.senderid, UContainer[p][c].itemid, p)}
    BY DEF Return
  <1> DEFINE d == Delivery(r.senderid, UContainer[p][c].itemid, p)
  <1>2. r.senderid \in Player /\ UContainer[p][c].itemid \in Kind
    <2>1. UContainer[p][c] \in Item /\ UContainer[p][c] # NoItem
      BY TypeParts DEF Others, Return, IsSlotEmpty
    <2> QED BY <1>1, <2>1, AtRows, ShownType DEF Row
  <1>3. /\ d \in Row /\ d.charid = r.senderid /\ d.box = 1 /\ d.slot >= Cells
        /\ d.slot < Cells + (sends + 1) /\ d.n = sends + 1
        /\ \A x \in delivery_box : x.charid = d.charid /\ x.box = 1 => x.slot < d.slot
        /\ sends \in 0 .. MaxSends /\ sends + 1 \in 0 .. MaxSends
    BY <1>2, Delivered DEF Return
  <1>4. delivery_box' = (delivery_box \ {r}) \cup {d} /\ sends' = sends + 1
    BY <1>1 DEF Return
  <1> HIDE DEF d
  <1>5. Table(delivery_box \ {r}, sends)
    BY TableShrinks DEF TypeInv
  <1>6. Table((delivery_box \ {r}) \cup {d}, sends + 1)
    BY <1>3, <1>5, TableDelivered
  <1>7. UContainer' \in [Player -> [Cell -> Item]]
    BY ShowType, ShownType, TypeParts DEF Return, Others
  <1> QED BY <1>3, <1>4, <1>6, <1>7, TypeParts DEF Return, Others, clientVars

\* The first row of the queue goes to a cell: the whole table is the one with
\* at most one row marked, and moved up.
LEMMA TakenUp ==
  ASSUME TypeInv, NEW p \in Player, NEW c \in Cell, TakeUp(p, c)
  PROVE  \E r \in Queue(p), rows \in SUBSET Row :
            /\ rows \in Marked(r.senderid, p, r.itemid) /\ r \in rows
            /\ r \in delivery_box /\ r.charid = p /\ Waits(r)
            /\ \A x \in Queue(p) : r.slot <= x.slot
            /\ \/ rows = delivery_box /\ Pending(r.senderid, p, r.itemid) = {}
               \/ \E x \in Pending(r.senderid, p, r.itemid) :
                     rows = Replaced(x, [x EXCEPT !.received = TRUE])
            /\ \A x : x \in rows /\ x.box = 1 <=> x \in delivery_box /\ x.box = 1
            /\ delivery_box' = {Lifted(x, p, r.slot, c) : x \in rows}
            /\ Show(p, c, Shown(r))
  <1>1. PICK r \in Queue(p) :
           /\ \A other \in Queue(p) : r.slot <= other.slot
           /\ \E rows \in Marked(r.senderid, p, r.itemid) :
                 delivery_box' = (rows \ Rows(p, 1))
                                     \cup MovedUp(p, r.slot % SlotWidth, c)
           /\ Show(p, c, Shown(r))
    BY DEF TakeUp
  <1>2. /\ r \in delivery_box /\ r.charid = p /\ r.box = 1 /\ Waits(r)
        /\ r.slot % SlotWidth = r.slot
    <2>1. r \in delivery_box /\ r.charid = p /\ r.box = 1 /\ r.slot >= Cells
      BY DEF Queue, Rows
    <2>2. r.slot \in Slot /\ r.slot < Cells + MaxSends
      <3>1. r.slot \in Slot /\ r.slot < Cells + sends /\ sends \in 0 .. MaxSends
        BY <2>1, TypeParts DEF TypeInv, Table, Row
      <3> QED BY <3>1, Numbers DEF Slot
    <2> QED BY <2>1, <2>2, Numbers DEF Waits
  <1>3. PICK rows \in Marked(r.senderid, p, r.itemid) :
           delivery_box' = (rows \ Rows(p, 1)) \cup MovedUp(p, r.slot, c)
    BY <1>1, <1>2
  <1>4. \/ rows = delivery_box /\ Pending(r.senderid, p, r.itemid) = {}
        \/ \E x \in Pending(r.senderid, p, r.itemid) :
              rows = Replaced(x, [x EXCEPT !.received = TRUE])
    BY <1>3 DEF Marked
  <1>5. rows \subseteq Row /\ \A x : x \in rows /\ x.box = 1 <=> x \in delivery_box /\ x.box = 1
    <2>1. delivery_box \subseteq Row
      BY DEF TypeInv, Table
    <2>2. CASE rows = delivery_box
      BY <2>1, <2>2
    <2>3. ASSUME NEW x \in Pending(r.senderid, p, r.itemid),
                 rows = Replaced(x, [x EXCEPT !.received = TRUE])
          PROVE  rows \subseteq Row
                 /\ \A y : y \in rows /\ y.box = 1 <=> y \in delivery_box /\ y.box = 1
      <3>1. x \in delivery_box /\ x \in Row /\ x.box = 2
        BY <2>1 DEF Pending
      <3> DEFINE s == [x EXCEPT !.received = TRUE]
      <3>2. s \in Row /\ s.box = 2
        BY <3>1 DEF Row
      <3> HIDE DEF s
      <3>3. rows = (delivery_box \ {x}) \cup {s}
        BY <2>3 DEF Replaced, s
      <3> QED BY <2>1, <3>1, <3>2, <3>3
    <2> QED BY <1>4, <2>2, <2>3
  <1>6. delivery_box' = {Lifted(x, p, r.slot, c) : x \in rows}
    <2>1. \A x : x \in Rows(p, 1) <=> x \in rows /\ x.charid = p /\ x.box = 1
      BY <1>5 DEF Rows
    <2>2. MovedUp(p, r.slot, c) = {Lifted(x, p, r.slot, c) : x \in Rows(p, 1)}
      <3>1. \A x \in Rows(p, 1) :
               Lifted(x, p, r.slot, c) =
                  IF x.slot = r.slot THEN [x EXCEPT !.slot = c]
                  ELSE IF x.slot > r.slot THEN [x EXCEPT !.slot = @ - 1] ELSE x
        BY <2>1 DEF Lifted
      <3> QED BY <3>1 DEF MovedUp
    <2>3. \A x \in rows : x \notin Rows(p, 1) => Lifted(x, p, r.slot, c) = x
      BY <2>1 DEF Lifted
    <2>4. Rows(p, 1) \subseteq rows
      BY <2>1
    <2> QED BY <1>3, <2>2, <2>3, <2>4
  <1> QED BY <1>1, <1>2, <1>3, <1>4, <1>5, <1>6

\* The first of the queue goes to a cell.
LEMMA TypeTakeUp ==
  ASSUME TypeInv, NEW p \in Player, NEW c \in Cell, TakeUp(p, c)
  PROVE  TypeInv'
  <1>1. PICK r \in Queue(p), rows \in SUBSET Row :
            /\ r \in rows /\ r \in delivery_box /\ r.charid = p /\ Waits(r)
            /\ \A x \in Queue(p) : r.slot <= x.slot
            /\ \/ rows = delivery_box /\ Pending(r.senderid, p, r.itemid) = {}
               \/ \E x \in Pending(r.senderid, p, r.itemid) :
                     rows = Replaced(x, [x EXCEPT !.received = TRUE])
            /\ \A x : x \in rows /\ x.box = 1 <=> x \in delivery_box /\ x.box = 1
            /\ delivery_box' = {Lifted(x, p, r.slot, c) : x \in rows}
            /\ Show(p, c, Shown(r))
    BY TakenUp
  <1>2. Table(rows, sends)
    <2>1. CASE rows = delivery_box
      BY <2>1 DEF TypeInv
    <2>2. ASSUME NEW x \in Pending(r.senderid, p, r.itemid),
                 rows = Replaced(x, [x EXCEPT !.received = TRUE])
          PROVE  Table(rows, sends)
      <3> DEFINE s == [x EXCEPT !.received = TRUE]
      <3>1. x \in delivery_box /\ x \in Row
        BY DEF Pending, TypeInv, Table
      <3>2. /\ s \in Row /\ s.charid = x.charid /\ s.box = x.box /\ s.slot = x.slot
            /\ s.senderid = x.senderid /\ s.n = x.n
        BY <3>1 DEF Row
      <3> HIDE DEF s
      <3>3. rows = (delivery_box \ {x}) \cup {s}
        BY <2>2 DEF Replaced, s
      <3> QED BY <3>1, <3>2, <3>3, TableMarked DEF TypeInv
    <2> QED BY <1>1, <2>1, <2>2
  <1>3. Table(delivery_box', sends)
    <2>1. \A x \in rows : Waits(x) /\ x.charid = p => r.slot <= x.slot
      BY <1>1 DEF Queue, Rows, Waits
    <2>2. \A x \in rows : ~ (x.charid = p /\ x.box = 1 /\ x.slot = c)
      BY <1>1 DEF TakeUp, At, Rows
    <2>3. sends \in 0 .. MaxSends
      BY TypeParts
    <2>4. Table({Lifted(x, p, r.slot, c) : x \in rows}, sends)
      BY <1>1, <1>2, <2>1, <2>2, <2>3, TableMovesUp
    <2> QED BY <1>1, <2>4
  <1>4. UContainer' \in [Player -> [Cell -> Item]]
    BY <1>1, ShowType, ShownType, TypeParts DEF Others
  <1> QED BY <1>3, <1>4, TypeParts DEF TakeUp, Others, clientVars

\* Every step keeps the types and the table.
LEMMA TypeStep == TypeInv /\ [Next]_vars => TypeInv'
  <1> SUFFICES ASSUME TypeInv, [Next]_vars PROVE TypeInv'
    OBVIOUS
  <1>1. CASE UNCHANGED vars
    BY <1>1, TypeParts DEF vars, Others
  <1>2. CASE Next
    BY <1>2, TypeClient, TypePutIn, TypePutInRefused, TypeSend, TypeCancel, TypeRemoved, TypeReturn,
       TypeTakeUp, TypePay DEF Next
  <1> QED BY <1>1, <1>2

\* Every reachable state is well typed, and the primary key of the table is
\* kept, over everything that is put behind a queue and moved up in it.
THEOREM TypeCorrect == Spec => []TypeOK
  <1>1. TypeInv => TypeOK
    BY DEF TypeInv
  <1> QED BY <1>1, TypeInit, TypeStep, PTL DEF Spec

\* Deliveries come out in the order in which they were sent.
THEOREM QueueInOrderAlways == Spec => []QueueInOrder
  <1>1. TypeInv => QueueInOrder
    BY DEF TypeInv, Table, QueueInOrder, Queue, Rows, Waits
  <1> QED BY <1>1, TypeInit, TypeStep, PTL DEF Spec

-----------------------------------------------------------------------------
(***************************************************************************)
(* The copy of a box, and what is under way                                *)
(***************************************************************************)
Is(r, p, b, c) == r.charid = p /\ r.box = b /\ r.slot = c

\* An item that box b may have and no copy, when R have been refused.
Hidden(R, b, item) == b = 2 /\ ~ item.sent /\ R[item.itemid] > 0

\* The item is what the rows T have in a cell, or the cell is empty and the row
\* one of a refused 0x02.
Fits(T, R, p, b, c, item) ==
    /\ item # NoItem => \E r \in T : Is(r, p, b, c)
    /\ \A r \in T : Is(r, p, b, c) =>
          Shown(r) = item \/ (item = NoItem /\ Hidden(R, b, Shown(r)))

\* What was refused stays refused.
HiddenStay == \A b, item : Hidden(refused, b, item) => Hidden(refused', b, item)

\* A copy that is listed is the table's, and one that is not is clear.
CopyInv ==
    \A p \in Player :
        IF listed[p] THEN /\ opened[p] \in {1, 2}
                          /\ \A c \in Cell :
                                Fits(delivery_box, refused, p, opened[p], c,
                                     UContainer[p][c])
        ELSE UContainer[p] = Clean

\* Of the rows T: p's that are under way to the character to, and those in its
\* queue that came from p.
UnderWay(T, p, to, k) ==
    {r \in T : /\ r.charid = p /\ r.box = 2 /\ r.senderid = to
               /\ r.itemid = k /\ r.sent /\ ~ r.received}
Waiting(T, p, to, k) ==
    {r \in T : r.charid = to /\ Waits(r) /\ r.senderid = p /\ r.itemid = k}

WayInv(T) ==
    \A p, to \in Player, k \in Kind :
        Cardinality(UnderWay(T, p, to, k)) <= Cardinality(Waiting(T, p, to, k))

BoxInv == TypeInv /\ CopyInv /\ WayInv(delivery_box)

\* The handlers' and the property's names for the rows under way and waiting.
LEMMA WayNames ==
  ASSUME NEW p, NEW to, NEW k
  PROVE  /\ Pending(p, to, k) = UnderWay(delivery_box, p, to, k)
         /\ WaitingDelivery(to, p, k) = Waiting(delivery_box, p, to, k)
         /\ {r \in Queue(to) : r.senderid = p /\ r.itemid = k}
               = Waiting(delivery_box, p, to, k)
  BY DEF Pending, UnderWay, WaitingDelivery, Waiting, Queue, Rows, Waits

\* Nothing else is under way, and no less waits.
LEMMA WayKept ==
  ASSUME NEW T, NEW U, IsFiniteSet(T), IsFiniteSet(U), WayInv(T),
         \A x \in U : x.box = 2 /\ x.sent /\ ~ x.received => x \in T,
         \A x \in T : Waits(x) => x \in U
  PROVE  WayInv(U)
  <1> SUFFICES ASSUME NEW p \in Player, NEW to \in Player, NEW k \in Kind
               PROVE  Cardinality(UnderWay(U, p, to, k))
                         <= Cardinality(Waiting(U, p, to, k))
    BY DEF WayInv
  <1>1. /\ UnderWay(U, p, to, k) \in SUBSET UnderWay(T, p, to, k)
        /\ Waiting(T, p, to, k) \in SUBSET Waiting(U, p, to, k)
    BY DEF UnderWay, Waiting
  <1>2. /\ IsFiniteSet(UnderWay(T, p, to, k)) /\ IsFiniteSet(Waiting(U, p, to, k))
        /\ IsFiniteSet(UnderWay(U, p, to, k)) /\ IsFiniteSet(Waiting(T, p, to, k))
    <2>1. /\ UnderWay(T, p, to, k) \in SUBSET T /\ Waiting(U, p, to, k) \in SUBSET U
          /\ UnderWay(U, p, to, k) \in SUBSET U /\ Waiting(T, p, to, k) \in SUBSET T
      BY DEF UnderWay, Waiting
    <2> QED BY <2>1, FS_Subset
  <1>3. /\ Cardinality(UnderWay(U, p, to, k)) <= Cardinality(UnderWay(T, p, to, k))
        /\ Cardinality(Waiting(T, p, to, k)) <= Cardinality(Waiting(U, p, to, k))
    BY <1>1, <1>2, FS_Subset
  <1>4. Cardinality(UnderWay(T, p, to, k)) <= Cardinality(Waiting(T, p, to, k))
    BY DEF WayInv
  <1>5. /\ Cardinality(UnderWay(T, p, to, k)) \in Nat
        /\ Cardinality(UnderWay(U, p, to, k)) \in Nat
        /\ Cardinality(Waiting(T, p, to, k)) \in Nat
        /\ Cardinality(Waiting(U, p, to, k)) \in Nat
    BY <1>2, FS_CardinalityType
  <1> QED BY <1>3, <1>4, <1>5

\* One more under way, and one more waiting.
LEMMA OneMore ==
  ASSUME NEW A, NEW B, NEW C, NEW D, IsFiniteSet(A), IsFiniteSet(B),
         IsFiniteSet(C), IsFiniteSet(D), Cardinality(A) <= Cardinality(B),
         NEW s, NEW d, C \subseteq A \cup {s}, d \notin B, B \cup {d} \subseteq D
  PROVE  Cardinality(C) <= Cardinality(D)
  <1>1. /\ IsFiniteSet(A \cup {s}) /\ Cardinality(A \cup {s}) <= Cardinality(A) + 1
        /\ IsFiniteSet(B \cup {d}) /\ Cardinality(B \cup {d}) = Cardinality(B) + 1
        /\ Cardinality(A) \in Nat /\ Cardinality(B) \in Nat
    <2>1. Cardinality(A) \in Nat /\ Cardinality(B) \in Nat
      BY FS_CardinalityType
    <2>2. /\ IsFiniteSet(A \cup {s})
          /\ Cardinality(A \cup {s}) = IF s \in A THEN Cardinality(A) ELSE Cardinality(A) + 1
      BY FS_AddElement
    <2>3. IsFiniteSet(B \cup {d}) /\ Cardinality(B \cup {d}) = Cardinality(B) + 1
      BY FS_AddElement
    <2> QED BY <2>1, <2>2, <2>3
  <1>2. Cardinality(C) <= Cardinality(A \cup {s}) /\ Cardinality(B \cup {d}) <= Cardinality(D)
    <2>1. C \in SUBSET (A \cup {s}) /\ B \cup {d} \in SUBSET D
      OBVIOUS
    <2> QED BY <1>1, <2>1, FS_Subset
  <1>3. /\ Cardinality(C) \in Nat /\ Cardinality(D) \in Nat
        /\ Cardinality(A \cup {s}) \in Nat /\ Cardinality(B \cup {d}) \in Nat
    BY <1>1, FS_CardinalityType
  <1> QED BY <1>1, <1>2, <1>3

\* One less under way, and one less waiting: in D as many wait as in B \ {d}.
LEMMA OneLess ==
  ASSUME NEW A, NEW B, NEW C, NEW n \in Nat, IsFiniteSet(A), IsFiniteSet(B),
         IsFiniteSet(C), Cardinality(A) <= Cardinality(B),
         NEW s \in A, NEW d \in B, C \subseteq A \ {s}, Cardinality(B \ {d}) <= n
  PROVE  Cardinality(C) <= n
  <1>1. /\ IsFiniteSet(A \ {s}) /\ Cardinality(A \ {s}) = Cardinality(A) - 1
        /\ IsFiniteSet(B \ {d}) /\ Cardinality(B \ {d}) = Cardinality(B) - 1
        /\ Cardinality(A) \in Nat /\ Cardinality(B) \in Nat
    BY FS_RemoveElement, FS_CardinalityType
  <1>2. Cardinality(C) <= Cardinality(A \ {s})
    <2>1. C \in SUBSET (A \ {s})
      OBVIOUS
    <2> QED BY <1>1, <2>1, FS_Subset
  <1>3. Cardinality(C) \in Nat
    BY FS_CardinalityType
  <1> QED BY <1>1, <1>2, <1>3

\* Nothing is listed or under way at the start.
LEMMA BoxInit == Init => BoxInv
  <1> SUFFICES ASSUME Init PROVE BoxInv
    OBVIOUS
  <1>1. CopyInv
    BY DEF Init, CopyInv
  <1>2. WayInv(delivery_box)
    <2>1. \A p, to, k : UnderWay({}, p, to, k) = {} /\ Waiting({}, p, to, k) = {}
      BY DEF UnderWay, Waiting
    <2>2. Cardinality({}) = 0
      BY FS_EmptySet
    <2> QED BY SMTT(20), <2>1, <2>2 DEF Init, WayInv
  <1> QED BY <1>1, <1>2, TypeInit DEF BoxInv

\* A working session: its copy is the table's in the cell.
LEMMA WorkingCopy ==
  ASSUME BoxInv, NEW p \in Player, NEW c \in Cell, listed[p]
  PROVE  /\ opened[p] \in {1, 2}
         /\ Fits(delivery_box, refused, p, opened[p], c, UContainer[p][c])
         /\ \A r \in At(p, opened[p], c) :
               /\ r \in delivery_box /\ Is(r, p, opened[p], c)
               /\ UContainer[p][c] # NoItem => Shown(r) = UContainer[p][c]
               /\ \A x \in delivery_box : Is(x, p, opened[p], c) => x = r
  BY DEF BoxInv, CopyInv, Fits, At, Rows, Is, TypeInv, Table

\* Of the rows T a step has made U, and all cells but one show what they did.
Elsewhere(T, U, p, box, c) ==
    \A o \in Player, b \in {1, 2}, e \in Cell :
        ~ (o = p /\ b = box /\ e = c) =>
            /\ \A x \in U : Is(x, o, b, e) =>
                  \E y \in T : Is(y, o, b, e) /\ Shown(x) = Shown(y)
            /\ \A y \in T : Is(y, o, b, e) => \E x \in U : Is(x, o, b, e)

\* A step in one cell of p's box: all other cells of all boxes are shown by the
\* same rows, and that of p shows what p's copy has then.
LEMMA CopyStep ==
  ASSUME BoxInv, NEW p \in Player, NEW c \in Cell, listed[p], HiddenStay,
         UNCHANGED <<opened, listed>>, UContainer' \in [Player -> [Cell -> Item]],
         \A o \in Player : o # p => UContainer'[o] = UContainer[o],
         \A e \in Cell : e # c => UContainer'[p][e] = UContainer[p][e],
         Elsewhere(delivery_box, delivery_box', p, opened[p], c),
         Fits(delivery_box', refused', p, opened[p], c, UContainer'[p][c])
  PROVE  CopyInv'
  <1> SUFFICES ASSUME NEW o \in Player
               PROVE  IF listed[o]
                      THEN /\ opened[o] \in {1, 2}
                           /\ \A e \in Cell :
                                 Fits(delivery_box', refused', o, opened[o], e, UContainer'[o][e])
                      ELSE UContainer'[o] = Clean
    BY DEF CopyInv
  <1>1. CASE ~listed[o]
    BY <1>1 DEF BoxInv, CopyInv
  <1>2. CASE listed[o]
    <2>1. opened[o] \in {1, 2}
      BY <1>2 DEF BoxInv, CopyInv
    <2>2. ASSUME NEW e \in Cell
          PROVE  Fits(delivery_box', refused', o, opened[o], e, UContainer'[o][e])
      <3>1. CASE o = p /\ e = c
        BY <3>1
      <3>2. CASE ~ (o = p /\ e = c)
        <4>1. UContainer'[o][e] = UContainer[o][e]
          BY <3>2
        <4>2. Fits(delivery_box, refused, o, opened[o], e, UContainer[o][e])
          BY <1>2 DEF BoxInv, CopyInv
        <4>3. ~ (o = p /\ opened[o] = opened[p] /\ e = c)
          BY <3>2
        <4>4. /\ \A x \in delivery_box' : Is(x, o, opened[o], e) =>
                    \E y \in delivery_box : Is(y, o, opened[o], e) /\ Shown(x) = Shown(y)
              /\ \A y \in delivery_box : Is(y, o, opened[o], e) =>
                    \E x \in delivery_box' : Is(x, o, opened[o], e)
          BY <2>1, <4>3 DEF Elsewhere
        <4> QED BY <4>1, <4>2, <4>4 DEF Fits, HiddenStay
      <3> QED BY <3>1, <3>2
    <2> QED BY <1>2, <2>1, <2>2
  <1> QED BY <1>1, <1>2

\* Opening and closing leave a clear copy, the list makes it that of the table.
LEMMA BoxClient ==
  ASSUME BoxInv, NEW p \in Player,
         (\E b \in {1, 2} : Open(p, b)) \/ List(p) \/ Close(p)
  PROVE  CopyInv' /\ WayInv(delivery_box')
  <1>1. delivery_box' = delivery_box /\ refused' = refused
    BY DEF Open, List, Close
  <1>2. /\ UContainer \in [Player -> [Cell -> Item]] /\ opened \in [Player -> 0 .. 2]
        /\ listed \in [Player -> BOOLEAN]
    BY TypeParts DEF Others, BoxInv
  <1>3. \A o \in Player : o # p => /\ UContainer'[o] = UContainer[o]
                                   /\ opened'[o] = opened[o] /\ listed'[o] = listed[o]
    BY <1>2 DEF Open, List, Close
  <1>4. IF listed'[p] THEN /\ opened'[p] \in {1, 2}
                           /\ \A c \in Cell :
                                 Fits(delivery_box', refused', p, opened'[p], c, UContainer'[p][c])
        ELSE UContainer'[p] = Clean
    <2>1. CASE \E b \in {1, 2} : Open(p, b)
      <3>1. ~ listed[p]
        BY <2>1 DEF Open, BoxInv, CopyInv
      <3> QED BY <1>2, <2>1, <3>1 DEF Open
    <2>2. CASE Close(p)
      BY <1>2, <2>2 DEF Close
    <2>3. CASE List(p)
      <3>1. listed'[p] /\ opened'[p] = opened[p] /\ opened[p] \in {1, 2}
        BY <1>2, <2>3 DEF List
      <3>2. ASSUME NEW c \in Cell
            PROVE  UContainer'[p][c] = IF At(p, opened[p], c) = {} THEN NoItem
                                       ELSE Shown(CHOOSE r \in At(p, opened[p], c) : TRUE)
        <4>1. UContainer[p][c] = NoItem
          BY <2>3 DEF List, BoxInv, CopyInv, Clean
        <4> QED BY <1>2, <2>3, <4>1 DEF List
      <3>3. ASSUME NEW c \in Cell
            PROVE  Fits(delivery_box, refused, p, opened[p], c, UContainer'[p][c])
        <4>1. CASE At(p, opened[p], c) = {}
          BY <3>2, <4>1 DEF Fits, At, Rows, Is
        <4>2. CASE At(p, opened[p], c) # {}
          <5>1. PICK r \in At(p, opened[p], c) : UContainer'[p][c] = Shown(r)
            BY <3>2, <4>2
          <5>2. r \in delivery_box /\ r \in Row /\ Is(r, p, opened[p], c)
            BY AtRows DEF BoxInv, Is
          <5>3. \A x \in delivery_box : Is(x, p, opened[p], c) => x = r
            BY <5>2 DEF BoxInv, TypeInv, Table, Is
          <5>4. Shown(r) # NoItem
            BY <5>2, ShownType
          <5> QED BY <5>1, <5>2, <5>3, <5>4 DEF Fits
        <4> QED BY <4>1, <4>2
      <3> QED BY <1>1, <3>1, <3>3
    <2> QED BY <2>1, <2>2, <2>3
  <1>5. CopyInv'
    BY <1>1, <1>3, <1>4 DEF BoxInv, CopyInv
  <1> QED BY <1>1, <1>5 DEF BoxInv

\* An item put into a cell of the send box is in the copy and not under way.
LEMMA BoxPutIn ==
  ASSUME BoxInv, NEW p \in Player, NEW c \in Cell, NEW k \in Kind, NEW to \in Player,
         PutIn(p, c, k, to) \/ PutInRefused(p, c, k, to)
  PROVE  CopyInv' /\ WayInv(delivery_box')
  <1>0. PICK r : r = SendRow(p, c, k, to)
    OBVIOUS
  <1>1. r \in Row /\ Is(r, p, 2, c) /\ r.box = 2 /\ ~ r.sent /\ r.itemid = k
    BY <1>0, SendRowType DEF Is
  <1>2. /\ delivery_box' = delivery_box \cup {r}
        /\ opened[p] = 2 /\ listed[p] /\ UNCHANGED <<opened, listed>>
        /\ \A x \in delivery_box : ~ Is(x, p, 2, c)
        /\ UContainer[p][c] = NoItem
    BY <1>0 DEF PutIn, PutInRefused, InsertRow, Working, clientVars, At, Rows, Is, IsSlotEmpty
  <1>10. refused \in [Kind -> Nat] /\ UContainer \in [Player -> [Cell -> Item]]
    BY TypeParts DEF BoxInv, Others
  <1>3. /\ UContainer' \in [Player -> [Cell -> Item]]
        /\ \A e \in Cell : e # c => UContainer'[p][e] = UContainer[p][e]
        /\ \A o \in Player : o # p => UContainer'[o] = UContainer[o]
        /\ HiddenStay
        /\ \/ UContainer'[p][c] = Shown(r)
           \/ UContainer'[p][c] = NoItem /\ refused'[k] > 0
    <2>1. CASE PutIn(p, c, k, to)
      <3>1. Show(p, c, Shown(r)) /\ refused' = refused
        BY <1>0, <2>1 DEF PutIn
      <3>2. HiddenStay
        BY <3>1 DEF HiddenStay
      <3> QED BY <1>1, <1>10, <3>1, <3>2, ShowType, ShownType
    <2>2. CASE PutInRefused(p, c, k, to)
      <3>1. refused' = [refused EXCEPT ![k] = @ + 1] /\ UContainer' = UContainer
        BY <2>2 DEF PutInRefused
      <3>2. refused'[k] > 0 /\ \A j : refused[j] > 0 => refused'[j] > 0
        BY <1>10, <3>1
      <3>3. HiddenStay
        BY <3>2 DEF HiddenStay, Hidden
      <3> QED BY <1>2, <1>10, <3>1, <3>2, <3>3
    <2> QED BY <2>1, <2>2
  <1>4. \A o \in Player, b \in {1, 2}, e \in Cell : ~ (o = p /\ b = 2 /\ e = c) =>
           ~ Is(r, o, b, e)
    BY <1>1 DEF Is
  <1>5. Fits(delivery_box', refused', p, 2, c, UContainer'[p][c])
    <2>1. Shown(r) # NoItem /\ Shown(r).itemid = k /\ ~ Shown(r).sent
      BY <1>1, ShownType DEF Shown
    <2> QED BY <1>1, <1>2, <1>3, <2>1 DEF Fits, Hidden
  <1>6. CopyInv'
    <2>1. Elsewhere(delivery_box, delivery_box', p, opened[p], c)
      BY <1>2, <1>4 DEF Elsewhere
    <2>2. Fits(delivery_box', refused', p, opened[p], c, UContainer'[p][c])
      BY <1>2, <1>5
    <2> QED BY <1>2, <1>3, <2>1, <2>2, CopyStep
  <1>7. WayInv(delivery_box')
    <2>1. IsFiniteSet(delivery_box) /\ IsFiniteSet(delivery_box')
      BY <1>2, FS_AddElement DEF BoxInv, TypeInv, Table
    <2> QED BY <1>1, <1>2, <2>1, WayKept DEF BoxInv
  <1> QED BY <1>6, <1>7

\* 0x03: one row more is under way and one more waits, outside every copy.
LEMMA BoxSend ==
  ASSUME BoxInv, NEW p \in Player, NEW c \in Cell, Send(p, c)
  PROVE  CopyInv' /\ WayInv(delivery_box')
  <1> DEFINE item == UContainer[p][c]
  <1>1. PICK r \in At(p, 2, c) :
           delivery_box' = Replaced(r, [r EXCEPT !.sent = TRUE])
               \cup {Delivery(r.senderid, item.itemid, p)}
    BY DEF Send
  <1>2. /\ listed[p] /\ opened[p] = 2 /\ UNCHANGED <<opened, listed, refused>>
        /\ item # NoItem /\ item \in Item /\ sends < MaxSends
        /\ Show(p, c, [item EXCEPT !.sent = TRUE])
    BY TypeParts DEF Send, Working, clientVars, IsSlotEmpty, BoxInv, Others
  <1>3. /\ r \in delivery_box /\ r \in Row /\ Is(r, p, 2, c) /\ Shown(r) = item
        /\ \A x \in delivery_box : Is(x, p, 2, c) => x = r
        /\ r.senderid \in Player /\ r.itemid = item.itemid /\ item.itemid \in Kind
    <2>1. /\ r \in delivery_box /\ Is(r, p, 2, c) /\ Shown(r) = item /\ r \in Row
          /\ \A x \in delivery_box : Is(x, p, 2, c) => x = r
      BY <1>2, WorkingCopy, AtRows DEF BoxInv
    <2>2. r.senderid \in Player
      BY <2>1 DEF BoxInv, TypeInv, Table, Is
    <2>3. item.itemid \in Kind
      BY <1>2, ShownType
    <2> HIDE DEF item
    <2>4. r.itemid = item.itemid
      BY <2>1 DEF Shown
    <2> QED BY <2>1, <2>2, <2>3, <2>4
  <1> DEFINE s == [r EXCEPT !.sent = TRUE]
             d == Delivery(r.senderid, item.itemid, p)
  <1>4. /\ s \in Row /\ Is(s, p, 2, c)
        /\ s.charid = p /\ s.box = 2 /\ s.senderid = r.senderid /\ s.itemid = r.itemid
        /\ Shown(s) = [item EXCEPT !.sent = TRUE]
    <2>1. /\ s \in Row /\ s.charid = r.charid /\ s.box = r.box /\ s.slot = r.slot
          /\ s.senderid = r.senderid /\ s.itemid = r.itemid /\ s.sent = TRUE
      BY <1>3 DEF Row
    <2>2. [item EXCEPT !.sent = TRUE] =
             [itemid |-> item.itemid, other |-> item.other, sent |-> TRUE]
      BY <1>2, ShownType
    <2> HIDE DEF s, item
    <2>3. item.itemid = r.itemid /\ item.other = r.senderid
      BY <1>3 DEF Shown
    <2> QED BY <1>3, <2>1, <2>2, <2>3 DEF Shown, Is
  <1>5. /\ d \in Row /\ d.charid = r.senderid /\ d.box = 1 /\ d.slot >= Cells
        /\ d.senderid = p /\ d.itemid = item.itemid
        /\ \A x \in delivery_box : x.charid = d.charid /\ x.box = 1 => x.slot < d.slot
    BY <1>2, <1>3, Delivered DEF BoxInv
  <1>6. [item EXCEPT !.sent = TRUE] \in Item /\ [item EXCEPT !.sent = TRUE] # NoItem
    BY <1>2, ShownType
  <1>7. delivery_box' = ((delivery_box \ {r}) \cup {s}) \cup {d}
    BY <1>1 DEF Replaced
  <1> HIDE DEF s, d, item
  <1>8. /\ UContainer' \in [Player -> [Cell -> Item]]
        /\ UContainer'[p][c] = Shown(s)
        /\ \A e \in Cell : e # c => UContainer'[p][e] = UContainer[p][e]
        /\ \A o \in Player : o # p => UContainer'[o] = UContainer[o]
    BY <1>2, <1>4, <1>6, ShowType, TypeParts DEF BoxInv, Others
  <1>9. \A o \in Player, b \in {1, 2}, e \in Cell :
           /\ ~ Is(d, o, b, e)
           /\ ~ (o = p /\ b = 2 /\ e = c) => ~ Is(r, o, b, e) /\ ~ Is(s, o, b, e)
    <2>1. \A e \in Cell : e < Cells /\ e \in Nat
      BY Numbers
    <2>2. d.slot \notin Cell
      BY <1>5, <2>1, Numbers DEF Row
    <2> QED BY <1>3, <1>4, <2>2 DEF Is
  <1>10. Fits(delivery_box', refused', p, 2, c, UContainer'[p][c])
    BY <1>3, <1>4, <1>6, <1>7, <1>8, <1>9 DEF Fits
  <1>11. CopyInv'
    <2>1. Elsewhere(delivery_box, delivery_box', p, opened[p], c)
      BY <1>2, <1>7, <1>9 DEF Elsewhere
    <2>2. Fits(delivery_box', refused', p, opened[p], c, UContainer'[p][c])
      BY <1>2, <1>10
    <2> QED BY <1>2, <1>8, <2>1, <2>2, CopyStep DEF HiddenStay
  <1>12. WayInv(delivery_box')
    <2> SUFFICES ASSUME NEW a \in Player, NEW b \in Player, NEW k \in Kind
                 PROVE  Cardinality(UnderWay(delivery_box', a, b, k))
                           <= Cardinality(Waiting(delivery_box', a, b, k))
      BY DEF WayInv
    <2> DEFINE A == UnderWay(delivery_box, a, b, k)
               B == Waiting(delivery_box, a, b, k)
               C == UnderWay(delivery_box', a, b, k)
               D == Waiting(delivery_box', a, b, k)
    <2>1. IsFiniteSet(delivery_box) /\ IsFiniteSet(delivery_box')
      BY <1>7, FS_AddElement, FS_RemoveElement DEF BoxInv, TypeInv, Table
    <2>2. IsFiniteSet(A) /\ IsFiniteSet(B) /\ IsFiniteSet(C) /\ IsFiniteSet(D)
      <3>1. /\ A \in SUBSET delivery_box /\ B \in SUBSET delivery_box
            /\ C \in SUBSET delivery_box' /\ D \in SUBSET delivery_box'
        BY DEF UnderWay, Waiting
      <3> QED BY <2>1, <3>1, FS_Subset
    <2>3. Cardinality(A) <= Cardinality(B)
      BY DEF BoxInv, WayInv
    <2>4. CASE a = p /\ b = r.senderid /\ k = r.itemid
      <3>1. C \subseteq A \cup {s}
        BY <1>5, <1>7 DEF UnderWay
      <3>2. d \notin delivery_box
        <4>1. d.slot \in Nat
          BY <1>5, Numbers DEF Row
        <4> QED BY <1>5, <4>1
      <3>3. B \cup {d} \subseteq D
        <4>1. Waits(d) /\ ~ Waits(r)
          BY <1>3, <1>5 DEF Waits, Is
        <4> QED BY <1>3, <1>5, <1>7, <2>4, <4>1 DEF Waiting
      <3>4. d \notin B
        BY <3>2 DEF Waiting
      <3> HIDE DEF A, B, C, D
      <3>5. Cardinality(C) <= Cardinality(D)
        BY <2>2, <2>3, <3>1, <3>3, <3>4, OneMore
      <3> QED BY <3>5 DEF C, D
    <2>5. CASE ~ (a = p /\ b = r.senderid /\ k = r.itemid)
      <3>1. C \in SUBSET A
        BY <1>4, <1>5, <1>7, <2>5 DEF UnderWay
      <3>2. B \in SUBSET D
        BY <1>3, <1>7 DEF Waiting, Waits, Is
      <3> HIDE DEF A, B, C, D
      <3>3. Cardinality(C) <= Cardinality(A) /\ Cardinality(B) <= Cardinality(D)
        BY <2>2, <3>1, <3>2, FS_Subset
      <3>4. /\ Cardinality(A) \in Nat /\ Cardinality(B) \in Nat
            /\ Cardinality(C) \in Nat /\ Cardinality(D) \in Nat
        BY <2>2, FS_CardinalityType
      <3>5. Cardinality(C) <= Cardinality(D)
        BY <2>3, <3>3, <3>4
      <3> QED BY <3>5 DEF C, D
    <2> QED BY <2>4, <2>5
  <1> QED BY <1>11, <1>12
\* A step outside the cells, which changes no copy.
LEMMA CopyOutside ==
  ASSUME BoxInv, UNCHANGED <<opened, listed, UContainer, refused>>,
         \A o \in Player, b \in {1, 2}, e \in Cell : \A x :
            Is(x, o, b, e) => (x \in delivery_box' <=> x \in delivery_box)
  PROVE  CopyInv'
  <1> SUFFICES ASSUME NEW o \in Player, listed[o], NEW e \in Cell
               PROVE  /\ opened[o] \in {1, 2}
                      /\ Fits(delivery_box', refused', o, opened[o], e, UContainer[o][e])
    BY DEF CopyInv, BoxInv
  <1>1. opened[o] \in {1, 2} /\ Fits(delivery_box, refused, o, opened[o], e, UContainer[o][e])
    BY DEF CopyInv, BoxInv
  <1> QED BY <1>1 DEF Fits

\* A row goes that does not wait.
LEMMA WayRemoved ==
  ASSUME BoxInv, NEW r \in delivery_box, ~ Waits(r), delivery_box' = delivery_box \ {r}
  PROVE  WayInv(delivery_box')
  <1>1. IsFiniteSet(delivery_box) /\ IsFiniteSet(delivery_box')
    BY FS_RemoveElement DEF BoxInv, TypeInv, Table
  <1> QED BY <1>1, WayKept DEF BoxInv

\* The row of a cell of p's open box goes, and the copy's item with it.
LEMMA CellCleared ==
  ASSUME BoxInv, NEW p \in Player, NEW c \in Cell, listed[p],
         UNCHANGED <<opened, listed, refused>>, Show(p, c, NoItem),
         NEW r \in delivery_box, Is(r, p, opened[p], c), delivery_box' = delivery_box \ {r}
  PROVE  CopyInv' /\ WayInv(delivery_box')
  <1>1. ~ Waits(r)
    <2>1. c < Cells /\ c \in Nat /\ Cells \in Nat
      BY Numbers
    <2>2. r.slot = c
      BY DEF Is
    <2> QED BY <2>1, <2>2 DEF Waits
  <1>2. /\ UContainer' \in [Player -> [Cell -> Item]] /\ UContainer'[p][c] = NoItem
        /\ \A e \in Cell : e # c => UContainer'[p][e] = UContainer[p][e]
        /\ \A o \in Player : o # p => UContainer'[o] = UContainer[o]
    BY ShowType, ShownType, TypeParts DEF BoxInv, Others
  <1>3. Elsewhere(delivery_box, delivery_box', p, opened[p], c)
    BY DEF Elsewhere, Is
  <1>4. \A x \in delivery_box : Is(x, p, opened[p], c) => x = r
    BY DEF BoxInv, TypeInv, Table, Is
  <1>5. Fits(delivery_box', refused', p, opened[p], c, UContainer'[p][c])
    BY <1>2, <1>4 DEF Fits
  <1>6. CopyInv'
    BY <1>2, <1>3, <1>5, CopyStep DEF HiddenStay
  <1> QED BY <1>1, <1>6, WayRemoved

\* A received, taken or dropped row goes from its cell and from the copy.
LEMMA BoxRemoved ==
  ASSUME BoxInv, NEW p \in Player,
         RemoveReceived(p) \/ \E c \in Cell : Take(p, c) \/ Drop(p, c)
  PROVE  CopyInv' /\ WayInv(delivery_box')
  <1>1. CASE RemoveReceived(p)
    <2>1. PICK r \in Rows(p, 2) : /\ delivery_box' = delivery_box \ {r}
                                  /\ Show(p, r.slot, NoItem)
      BY <1>1 DEF RemoveReceived
    <2>2. r \in delivery_box /\ r.slot \in Cell /\ Is(r, p, 2, r.slot)
      BY DEF Rows, BoxInv, TypeInv, Table, Is
    <2>3. listed[p] /\ opened[p] = 2 /\ UNCHANGED <<opened, listed, refused>>
      BY <1>1 DEF RemoveReceived, Working, clientVars
    <2>4. Is(r, p, opened[p], r.slot)
      BY <2>2, <2>3
    <2> QED BY <2>1, <2>2, <2>3, <2>4, CellCleared
  <1>2. ASSUME NEW c \in Cell, Take(p, c) \/ Drop(p, c)
        PROVE  CopyInv' /\ WayInv(delivery_box')
    <2>1. PICK r \in At(p, opened[p], c) : delivery_box' = delivery_box \ {r}
      BY <1>2 DEF Take, Drop, Working
    <2>2. listed[p] /\ UNCHANGED <<opened, listed, refused>> /\ Show(p, c, NoItem)
      BY <1>2 DEF Take, Drop, Working, clientVars
    <2>3. r \in delivery_box /\ Is(r, p, opened[p], c)
      BY <2>1 DEF At, Rows, Is
    <2> QED BY <2>1, <2>2, <2>3, CellCleared
  <1> QED BY <1>1, <1>2

\* The auction house's row waits; it is not one that a character sent.
LEMMA BoxPay ==
  ASSUME BoxInv, NEW p \in Player, NEW k \in Kind, Pay(p, k)
  PROVE  CopyInv' /\ WayInv(delivery_box')
  <1> DEFINE d == Delivery(p, k, AH)
  <1>1. d \in Row /\ d.box = 1 /\ d.slot >= Cells
    BY Delivered DEF Pay, BoxInv
  <1>2. delivery_box' = delivery_box \cup {d} /\ UNCHANGED <<opened, listed, UContainer, refused>>
    BY DEF Pay, clientVars
  <1> HIDE DEF d
  <1>3. \A e \in Cell : \A o, b : ~ Is(d, o, b, e)
    <2>1. d.slot \in Nat
      BY <1>1, Numbers DEF Row
    <2> QED BY <1>1, <2>1, Numbers DEF Is
  <1>4. CopyInv'
    BY <1>2, <1>3, CopyOutside
  <1>5. IsFiniteSet(delivery_box) /\ IsFiniteSet(delivery_box')
    BY <1>2, FS_AddElement DEF BoxInv, TypeInv, Table
  <1>6. WayInv(delivery_box')
    BY <1>1, <1>2, <1>5, WayKept DEF BoxInv
  <1> QED BY <1>4, <1>6

\* The returned row leaves its cell and waits for the sender.
LEMMA BoxReturn ==
  ASSUME BoxInv, NEW p \in Player, NEW c \in Cell, Return(p, c)
  PROVE  CopyInv' /\ WayInv(delivery_box')
  <1>1. PICK r \in At(p, 1, c) :
           /\ r.senderid # AH
           /\ delivery_box' = (delivery_box \ {r})
                  \cup {Delivery(r.senderid, UContainer[p][c].itemid, p)}
    BY DEF Return
  <1> DEFINE d == Delivery(r.senderid, UContainer[p][c].itemid, p)
  <1>2. r.senderid \in Player /\ UContainer[p][c].itemid \in Kind
    <2>1. UContainer[p][c] \in Item /\ UContainer[p][c] # NoItem
      BY TypeParts DEF Others, Return, IsSlotEmpty, BoxInv
    <2> QED BY <1>1, <2>1, AtRows, ShownType DEF Row, BoxInv
  <1>3. d \in Row /\ d.box = 1 /\ d.slot >= Cells
    BY <1>2, Delivered DEF Return, BoxInv
  <1>4. delivery_box' = (delivery_box \ {r}) \cup {d}
    BY <1>1
  <1>5. /\ r \in delivery_box /\ Is(r, p, 1, c)
        /\ listed[p] /\ opened[p] = 1 /\ UNCHANGED <<opened, listed, refused>>
        /\ Show(p, c, NoItem)
    BY DEF Return, Working, clientVars, At, Rows, Is
  <1> HIDE DEF d
  <1>6. \A e \in Cell : \A o, b : ~ Is(d, o, b, e)
    <2>1. d.slot \in Nat
      BY <1>3, Numbers DEF Row
    <2> QED BY <1>3, <2>1, Numbers DEF Is
  <1>7. /\ UContainer' \in [Player -> [Cell -> Item]] /\ UContainer'[p][c] = NoItem
        /\ \A e \in Cell : e # c => UContainer'[p][e] = UContainer[p][e]
        /\ \A o \in Player : o # p => UContainer'[o] = UContainer[o]
    BY <1>5, ShowType, ShownType, TypeParts DEF BoxInv, Others
  <1>8. Elsewhere(delivery_box, delivery_box', p, opened[p], c)
    BY <1>4, <1>5, <1>6 DEF Elsewhere, Is
  <1>9. \A x \in delivery_box : Is(x, p, opened[p], c) => x = r
    BY <1>5 DEF BoxInv, TypeInv, Table, Is
  <1>10. Fits(delivery_box', refused', p, opened[p], c, UContainer'[p][c])
    BY <1>4, <1>6, <1>7, <1>9 DEF Fits
  <1>11. CopyInv'
    BY <1>5, <1>7, <1>8, <1>10, CopyStep DEF HiddenStay
  <1>12. WayInv(delivery_box')
    <2>1. ~ Waits(r)
      <3>1. r.slot = c
        BY <1>5 DEF Is
      <3>2. c < Cells /\ c \in Nat /\ Cells \in Nat
        BY Numbers
      <3> QED BY <3>1, <3>2 DEF Waits
    <2>2. IsFiniteSet(delivery_box) /\ IsFiniteSet(delivery_box')
      BY <1>4, FS_AddElement, FS_RemoveElement DEF BoxInv, TypeInv, Table
    <2> QED BY <1>3, <1>4, <2>1, <2>2, WayKept DEF BoxInv
  <1> QED BY <1>11, <1>12
\* 0x04: as the row is under way one waits for it, and both go; the branch that
\* deletes an orphan is never reached.
LEMMA BoxCancel ==
  ASSUME BoxInv, NEW p \in Player, NEW c \in Cell, Cancel(p, c)
  PROVE  CopyInv' /\ WayInv(delivery_box')
  <1> DEFINE item == UContainer[p][c]
             waiting == WaitingDelivery(item.other, p, item.itemid)
  <1>1. PICK r \in At(p, 2, c) :
           /\ MayCancel(r)
           /\ \/ \E d \in waiting :
                    /\ delivery_box' = Replaced(r, [r EXCEPT !.sent = FALSE]) \ {d}
                    /\ Show(p, c, [item EXCEPT !.sent = FALSE])
              \/ waiting = {}
    BY DEF Cancel
  <1>2. /\ listed[p] /\ opened[p] = 2 /\ UNCHANGED <<opened, listed, refused>>
        /\ item # NoItem /\ item \in Item
    BY TypeParts DEF Cancel, Working, clientVars, IsSlotEmpty, BoxInv, Others
  <1>3. /\ r \in delivery_box /\ r \in Row /\ Is(r, p, 2, c) /\ Shown(r) = item
        /\ \A x \in delivery_box : Is(x, p, 2, c) => x = r
        /\ r.senderid \in Player /\ r.itemid \in Kind
        /\ item.itemid = r.itemid /\ item.other = r.senderid
    <2>1. /\ r \in delivery_box /\ Is(r, p, 2, c) /\ Shown(r) = item /\ r \in Row
          /\ \A x \in delivery_box : Is(x, p, 2, c) => x = r
      BY <1>2, WorkingCopy, AtRows DEF BoxInv
    <2>2. r.senderid \in Player
      BY <2>1 DEF BoxInv, TypeInv, Table, Is
    <2>3. r.itemid \in Kind
      BY <2>1 DEF Row
    <2> HIDE DEF item
    <2>4. item.itemid = r.itemid /\ item.other = r.senderid
      BY <2>1 DEF Shown
    <2> QED BY <2>1, <2>2, <2>3, <2>4
  <1>4. waiting = Waiting(delivery_box, p, r.senderid, r.itemid)
    BY <1>3, WayNames
  <1>5. r \in UnderWay(delivery_box, p, r.senderid, r.itemid)
    BY <1>1, <1>3 DEF UnderWay, MayCancel, Is
  <1>6. /\ IsFiniteSet(UnderWay(delivery_box, p, r.senderid, r.itemid))
        /\ IsFiniteSet(delivery_box)
    <2>1. IsFiniteSet(delivery_box)
      BY DEF BoxInv, TypeInv, Table
    <2>2. UnderWay(delivery_box, p, r.senderid, r.itemid) \in SUBSET delivery_box
      BY DEF UnderWay
    <2> QED BY <2>1, <2>2, FS_Subset
  <1>7. waiting # {}
    <2> DEFINE A == UnderWay(delivery_box, p, r.senderid, r.itemid)
    <2> SUFFICES ASSUME waiting = {} PROVE FALSE
      OBVIOUS
    <2>1. Cardinality(A) <= Cardinality({})
      BY <1>3, <1>4 DEF BoxInv, WayInv
    <2>2. A # {} /\ IsFiniteSet(A)
      BY <1>5, <1>6
    <2> HIDE DEF A
    <2>3. Cardinality(A) \in Nat /\ Cardinality(A) # 0 /\ Cardinality({}) = 0
      BY <2>2, FS_CardinalityType, FS_EmptySet
    <2> QED BY <2>1, <2>3
  <1> DEFINE s == [r EXCEPT !.sent = FALSE]
  <1>8. PICK d \in waiting : /\ delivery_box' = Replaced(r, s) \ {d}
                             /\ Show(p, c, [item EXCEPT !.sent = FALSE])
    BY <1>1, <1>7
  <1>9. /\ s \in Row /\ Is(s, p, 2, c) /\ s.box = 2 /\ ~ s.sent
        /\ Shown(s) = [item EXCEPT !.sent = FALSE]
    <2>1. /\ s \in Row /\ s.charid = r.charid /\ s.box = r.box /\ s.slot = r.slot
          /\ s.senderid = r.senderid /\ s.itemid = r.itemid /\ s.sent = FALSE
      BY <1>3 DEF Row
    <2>2. [item EXCEPT !.sent = FALSE] =
             [itemid |-> item.itemid, other |-> item.other, sent |-> FALSE]
      BY <1>2, ShownType
    <2> HIDE DEF s, item
    <2> QED BY <1>3, <2>1, <2>2 DEF Shown, Is
  <1>10. [item EXCEPT !.sent = FALSE] \in Item /\ [item EXCEPT !.sent = FALSE] # NoItem
    BY <1>2, ShownType
  <1>11. /\ d \in delivery_box /\ d.charid = r.senderid /\ Waits(d)
         /\ d.senderid = p /\ d.itemid = r.itemid /\ d.box = 1
    BY <1>4, <1>8 DEF Waiting, Waits
  <1>12. delivery_box' = ((delivery_box \ {r}) \cup {s}) \ {d}
    BY <1>8 DEF Replaced
  <1>13. Show(p, c, [item EXCEPT !.sent = FALSE])
    BY <1>8
  <1> HIDE DEF s, item, waiting
  <1>14. /\ UContainer' \in [Player -> [Cell -> Item]]
         /\ UContainer'[p][c] = Shown(s)
         /\ \A e \in Cell : e # c => UContainer'[p][e] = UContainer[p][e]
         /\ \A o \in Player : o # p => UContainer'[o] = UContainer[o]
    BY <1>9, <1>10, <1>13, ShowType, TypeParts DEF BoxInv, Others
  <1>15. \A o \in Player, b \in {1, 2}, e \in Cell :
           /\ ~ Is(d, o, b, e)
           /\ ~ (o = p /\ b = 2 /\ e = c) => ~ Is(r, o, b, e) /\ ~ Is(s, o, b, e)
    <2>1. d.slot \in Nat /\ d.slot >= Cells /\ Cells \in Nat
      BY <1>11, Numbers DEF Row, Waits, BoxInv, TypeInv, Table
    <2>2. \A e \in Cell : e < Cells /\ e \in Nat
      BY Numbers
    <2>3. d.slot \notin Cell
      BY <2>1, <2>2
    <2> QED BY <1>3, <1>9, <2>3 DEF Is
  <1>16. CopyInv'
    <2>1. Elsewhere(delivery_box, delivery_box', p, opened[p], c)
      BY <1>2, <1>12, <1>15 DEF Elsewhere
    <2>2. Fits(delivery_box', refused', p, 2, c, UContainer'[p][c])
      <3>1. s \in delivery_box'
        BY <1>9, <1>11, <1>12
      <3> QED BY <1>3, <1>9, <1>10, <1>12, <1>14, <3>1 DEF Fits
    <2>3. Fits(delivery_box', refused', p, opened[p], c, UContainer'[p][c])
      BY <1>2, <2>2
    <2> QED BY <1>2, <1>14, <2>1, <2>3, CopyStep DEF HiddenStay
  <1>17. WayInv(delivery_box')
    <2> SUFFICES ASSUME NEW a \in Player, NEW b \in Player, NEW k \in Kind
                 PROVE  Cardinality(UnderWay(delivery_box', a, b, k))
                           <= Cardinality(Waiting(delivery_box', a, b, k))
      BY DEF WayInv
    <2> DEFINE A == UnderWay(delivery_box, a, b, k)
               B == Waiting(delivery_box, a, b, k)
               C == UnderWay(delivery_box', a, b, k)
               D == Waiting(delivery_box', a, b, k)
    <2>1. IsFiniteSet(delivery_box')
      BY <1>6, <1>12, FS_AddElement, FS_RemoveElement
    <2>2. /\ IsFiniteSet(A) /\ IsFiniteSet(B) /\ IsFiniteSet(C) /\ IsFiniteSet(D)
          /\ Cardinality(D) \in Nat
      <3>1. /\ A \in SUBSET delivery_box /\ B \in SUBSET delivery_box
            /\ C \in SUBSET delivery_box' /\ D \in SUBSET delivery_box'
        BY DEF UnderWay, Waiting
      <3> QED BY <1>6, <2>1, <3>1, FS_Subset, FS_CardinalityType
    <2>3. Cardinality(A) <= Cardinality(B)
      BY DEF BoxInv, WayInv
    <2>4. C \subseteq A \ {r}
      BY <1>9, <1>12 DEF UnderWay
    <2>5. B \ {d} \in SUBSET D
      <3>1. ~ Waits(r)
        BY <1>3 DEF Waits, Is
      <3> QED BY <1>12, <3>1 DEF Waiting
    <2>6. CASE a = p /\ b = r.senderid /\ k = r.itemid
      <3>1. r \in A /\ d \in B
        BY <1>4, <1>5, <1>8, <2>6
      <3> HIDE DEF A, B, C, D
      <3>2. Cardinality(B \ {d}) <= Cardinality(D)
        BY <2>2, <2>5, FS_Subset
      <3>3. Cardinality(C) <= Cardinality(D)
        BY <2>2, <2>3, <2>4, <3>1, <3>2, OneLess
      <3> QED BY <3>3 DEF C, D
    <2>7. CASE ~ (a = p /\ b = r.senderid /\ k = r.itemid)
      <3>1. d \notin B
        BY <1>11, <2>7 DEF Waiting
      <3>2. C \in SUBSET A /\ B \in SUBSET D
        BY <2>4, <2>5, <3>1
      <3> HIDE DEF A, B, C, D
      <3>3. Cardinality(C) <= Cardinality(A) /\ Cardinality(B) <= Cardinality(D)
        BY <2>2, <3>2, FS_Subset
      <3>4. /\ Cardinality(A) \in Nat /\ Cardinality(B) \in Nat
            /\ Cardinality(C) \in Nat /\ Cardinality(D) \in Nat
        BY <2>2, FS_CardinalityType
      <3>5. Cardinality(C) <= Cardinality(D)
        BY <2>3, <3>3, <3>4
      <3> QED BY <3>5 DEF C, D
    <2> QED BY <2>6, <2>7
  <1> QED BY <1>16, <1>17
\* 0x06: the first row stops waiting and one row it may be meant by, if any, stops
\* being under way; the others of the queue still wait where they have moved.
LEMMA BoxTakeUp ==
  ASSUME BoxInv, NEW p \in Player, NEW c \in Cell, TakeUp(p, c)
  PROVE  CopyInv' /\ WayInv(delivery_box')
  <1>1. PICK r \in Queue(p), rows \in SUBSET Row :
            /\ r \in rows /\ r \in delivery_box /\ r.charid = p /\ Waits(r)
            /\ \A x \in Queue(p) : r.slot <= x.slot
            /\ \/ rows = delivery_box /\ Pending(r.senderid, p, r.itemid) = {}
               \/ \E x \in Pending(r.senderid, p, r.itemid) :
                     rows = Replaced(x, [x EXCEPT !.received = TRUE])
            /\ \A x : x \in rows /\ x.box = 1 <=> x \in delivery_box /\ x.box = 1
            /\ delivery_box' = {Lifted(x, p, r.slot, c) : x \in rows}
            /\ Show(p, c, Shown(r))
    BY TakenUp DEF BoxInv
  <1> DEFINE L(x) == Lifted(x, p, r.slot, c)
  <1>2. /\ listed[p] /\ opened[p] = 1 /\ UNCHANGED <<opened, listed, refused>>
        /\ \A x \in delivery_box : ~ Is(x, p, 1, c)
    BY DEF TakeUp, Working, clientVars, At, Rows, Is
  <1>3. /\ r \in Row /\ r.slot \in Slot /\ r.slot \in Nat /\ r.slot >= Cells /\ r.box = 1
        /\ Cells \in Nat /\ c < Cells /\ c \in Nat
        /\ \A x \in rows : x \in Row /\ x.slot \in Nat
        /\ \A x \in delivery_box : x \in Row /\ x.slot \in Nat
    BY <1>1, Numbers DEF Row, Waits, BoxInv, TypeInv, Table
  <1>4. \A x \in Row :
           /\ L(x) \in Row /\ L(x).charid = x.charid /\ L(x).box = x.box
           /\ L(x).itemid = x.itemid /\ L(x).senderid = x.senderid /\ L(x).sent = x.sent
           /\ L(x).received = x.received
           /\ L(x).slot = IF ~ (x.charid = p /\ x.box = 1) THEN x.slot
                          ELSE IF x.slot = r.slot THEN c
                          ELSE IF x.slot > r.slot THEN x.slot - 1 ELSE x.slot
    BY <1>3, LiftedFields
  \* A row of box 2 in rows is one of the table, perhaps with received set.
  <1>5. \A x \in rows : x.box = 2 =>
           \E y \in delivery_box : /\ y.charid = x.charid /\ y.box = 2 /\ y.slot = x.slot
                                   /\ Shown(y) = Shown(x)
                                   /\ x.received \/ x = y
    <2>1. CASE rows = delivery_box
      BY <2>1
    <2>2. ASSUME NEW y \in Pending(r.senderid, p, r.itemid),
                 rows = Replaced(y, [y EXCEPT !.received = TRUE]),
                 NEW x \in rows, x.box = 2
          PROVE  \E z \in delivery_box : /\ z.charid = x.charid /\ z.box = 2
                                         /\ z.slot = x.slot /\ Shown(z) = Shown(x)
                                         /\ x.received \/ x = z
      <3> DEFINE s == [y EXCEPT !.received = TRUE]
      <3>1. y \in delivery_box /\ y \in Row /\ y.box = 2
        BY <1>3 DEF Pending
      <3>2. /\ s.charid = y.charid /\ s.box = y.box /\ s.slot = y.slot
            /\ Shown(s) = Shown(y) /\ s.received
        BY <3>1 DEF Row, Shown
      <3> HIDE DEF s
      <3>3. rows = (delivery_box \ {y}) \cup {s}
        BY <2>2 DEF Replaced, s
      <3> QED BY <2>2, <3>1, <3>2, <3>3
    <2>3. CASE \E y \in Pending(r.senderid, p, r.itemid) :
                  rows = Replaced(y, [y EXCEPT !.received = TRUE])
      BY <2>2, <2>3
    <2> QED BY <1>1, <2>1, <2>3
  <1>7. \A y \in delivery_box : y.box = 2 =>
           \E x \in rows : x.charid = y.charid /\ x.box = 2 /\ x.slot = y.slot
    <2>1. CASE rows = delivery_box
      BY <2>1
    <2>2. ASSUME NEW x \in Pending(r.senderid, p, r.itemid),
                 rows = Replaced(x, [x EXCEPT !.received = TRUE])
          PROVE  \A y \in delivery_box : y.box = 2 =>
                    \E z \in rows : z.charid = y.charid /\ z.box = 2 /\ z.slot = y.slot
      <3> DEFINE s == [x EXCEPT !.received = TRUE]
      <3>1. x \in delivery_box /\ x \in Row
        BY <1>3 DEF Pending
      <3>2. s.charid = x.charid /\ s.box = x.box /\ s.slot = x.slot
        BY <3>1 DEF Row
      <3> HIDE DEF s
      <3>3. rows = (delivery_box \ {x}) \cup {s}
        BY <2>2 DEF Replaced, s
      <3> QED BY <3>2, <3>3
    <2> QED BY <1>1, <2>1, <2>2
  <1>8. \A x \in delivery_box : x.charid = p /\ x.box = 1 /\ x.slot = r.slot => x = r
    BY <1>1, <1>3 DEF BoxInv, TypeInv, Table
  <1>9. delivery_box' = {L(x) : x \in rows}
    BY <1>1
  <1>10. \A x \in Row : ~ (x.charid = p /\ x.box = 1 /\ x.slot >= r.slot) => L(x) = x
    BY <1>3 DEF Lifted, Row, Slot
  <1> HIDE DEF L
  <1>11. Elsewhere(delivery_box, delivery_box', p, 1, c)
    <2> SUFFICES ASSUME NEW o \in Player, NEW b \in {1, 2}, NEW e \in Cell,
                        ~ (o = p /\ b = 1 /\ e = c)
                 PROVE  /\ \A z \in rows : Is(L(z), o, b, e) =>
                              \E y \in delivery_box : Is(y, o, b, e) /\ Shown(L(z)) = Shown(y)
                        /\ \A y \in delivery_box : Is(y, o, b, e) =>
                              \E x \in rows : Is(L(x), o, b, e)
      BY <1>9 DEF Elsewhere
    <2>1. CASE b = 2
      <3>1. \A z \in rows : Is(L(z), o, b, e) => z.box = 2 /\ L(z) = z
        BY <1>3, <1>4, <1>10, <2>1 DEF Is
      <3>2. \A x \in rows : x.box = 2 => L(x) = x
        BY <1>3, <1>10
      <3> QED BY <1>5, <1>7, <2>1, <3>1, <3>2 DEF Is
    <2>2. CASE b = 1
      <3>1. \A z \in rows : Is(L(z), o, b, e) => z \in delivery_box /\ L(z) = z
        <4> SUFFICES ASSUME NEW z \in rows, Is(L(z), o, b, e)
                     PROVE  z \in delivery_box /\ L(z) = z
          OBVIOUS
        <4>1. /\ z \in Row /\ z.box = 1 /\ z.charid = o /\ L(z).slot = e /\ e < Cells
              /\ e \in Nat /\ z.slot \in Nat /\ z \in delivery_box
          BY <1>1, <1>3, <1>4, <2>2, Numbers DEF Is
        <4>2. CASE o # p
          BY <1>10, <4>1, <4>2
        <4>3. CASE o = p
          <5>1. e # c
            BY <2>2, <4>3
          <5>2. L(z).slot = IF z.slot = r.slot THEN c
                            ELSE IF z.slot > r.slot THEN z.slot - 1 ELSE z.slot
            BY <1>4, <4>1, <4>3
          <5>3. ~ (z.slot >= r.slot)
            BY <1>3, <4>1, <5>1, <5>2
          <5> QED BY <1>10, <4>1, <5>3
        <4> QED BY <4>2, <4>3
      <3>2. \A y \in delivery_box : Is(y, o, b, e) => y \in rows /\ L(y) = y
        <4> SUFFICES ASSUME NEW y \in delivery_box, Is(y, o, b, e)
                     PROVE  y \in rows /\ L(y) = y
          OBVIOUS
        <4>1. y \in Row /\ y.box = 1 /\ y \in rows /\ y.slot = e /\ e < Cells /\ e \in Nat
          BY <1>1, <1>3, <2>2, Numbers DEF Is
        <4>2. ~ (y.slot >= r.slot)
          BY <1>3, <4>1
        <4> QED BY <1>10, <4>1, <4>2
      <3> QED BY <3>1, <3>2
    <2> QED BY <2>1, <2>2
  <1>12. Fits(delivery_box', refused', p, 1, c, Shown(r))
    <2>1. Is(L(r), p, 1, c) /\ Shown(L(r)) = Shown(r) /\ L(r) \in delivery_box'
      BY <1>1, <1>3, <1>4, <1>9 DEF Is, Shown
    <2>2. Shown(r) # NoItem
      BY <1>3, ShownType
    <2>3. ASSUME NEW z \in rows, Is(L(z), p, 1, c)
          PROVE  z = r
      <3>1. /\ z \in Row /\ z.box = 1 /\ z.charid = p /\ L(z).slot = c
            /\ z.slot \in Nat /\ z \in delivery_box
        BY <1>1, <1>3, <1>4, <2>3 DEF Is
      <3>2. z.slot # c
        BY <1>2, <3>1 DEF Is
      <3>3. L(z).slot = IF z.slot = r.slot THEN c
                        ELSE IF z.slot > r.slot THEN z.slot - 1 ELSE z.slot
        BY <1>4, <3>1
      <3>4. z.slot = r.slot
        BY <1>3, <3>1, <3>2, <3>3
      <3> QED BY <1>8, <3>1, <3>4
    <2> QED BY <1>9, <2>1, <2>2, <2>3 DEF Fits
  <1>13. CopyInv'
    <2>1. /\ UContainer' \in [Player -> [Cell -> Item]] /\ UContainer'[p][c] = Shown(r)
          /\ \A e \in Cell : e # c => UContainer'[p][e] = UContainer[p][e]
          /\ \A o \in Player : o # p => UContainer'[o] = UContainer[o]
      BY <1>1, <1>3, ShowType, ShownType, TypeParts DEF BoxInv, Others
    <2>2. /\ Elsewhere(delivery_box, delivery_box', p, opened[p], c)
          /\ Fits(delivery_box', refused', p, opened[p], c, UContainer'[p][c])
      BY <1>2, <1>11, <1>12, <2>1
    <2> QED BY <1>2, <2>1, <2>2, CopyStep DEF HiddenStay
  <1>14. WayInv(delivery_box')
    <2> SUFFICES ASSUME NEW a \in Player, NEW b \in Player, NEW k \in Kind
                 PROVE  Cardinality(UnderWay(delivery_box', a, b, k))
                           <= Cardinality(Waiting(delivery_box', a, b, k))
      BY DEF WayInv
    <2> DEFINE A == UnderWay(delivery_box, a, b, k)
               B == Waiting(delivery_box, a, b, k)
               C == UnderWay(delivery_box', a, b, k)
               D == Waiting(delivery_box', a, b, k)
    <2>1. /\ IsFiniteSet(A) /\ IsFiniteSet(B) /\ IsFiniteSet(C) /\ IsFiniteSet(D)
          /\ Cardinality(D) \in Nat
      <3>1. IsFiniteSet(delivery_box) /\ IsFiniteSet(delivery_box')
        BY TypeTakeUp DEF BoxInv, TypeInv, Table
      <3>2. /\ A \in SUBSET delivery_box /\ B \in SUBSET delivery_box
            /\ C \in SUBSET delivery_box' /\ D \in SUBSET delivery_box'
        BY DEF UnderWay, Waiting
      <3> QED BY <3>1, <3>2, FS_Subset, FS_CardinalityType
    <2>2. Cardinality(A) <= Cardinality(B)
      BY DEF BoxInv, WayInv
    <2>3. C \subseteq A
      <3>1. \A z \in rows : L(z) \in C => z.box = 2 /\ L(z) = z /\ ~ z.received
        BY <1>3, <1>4, <1>10 DEF UnderWay
      <3>2. \A z \in rows : z.box = 2 /\ ~ z.received => z \in delivery_box
        BY <1>5
      <3> QED BY <1>9, <3>1, <3>2 DEF UnderWay
    <2>4. Cardinality(B \ {r}) <= Cardinality(D)
      <3> DEFINE f == [y \in B \ {r} |-> L(y)]
      <3>1. ASSUME NEW y \in B \ {r} PROVE L(y) \in D
        <4>1. /\ y \in delivery_box /\ y \in rows /\ y \in Row /\ y.slot \in Nat
              /\ Waits(y) /\ y.box = 1 /\ y.slot >= Cells
          BY <1>1, <1>3 DEF Waiting, Waits
        <4>2. L(y).slot >= Cells
          <5>1. CASE y.charid # p
            BY <1>10, <4>1, <5>1
          <5>2. CASE y.charid = p
            <6>1. y.slot # r.slot
              BY <1>8, <4>1, <5>2
            <6>2. L(y).slot = IF y.slot > r.slot THEN y.slot - 1 ELSE y.slot
              BY <1>4, <4>1, <5>2, <6>1
            <6> QED BY <1>3, <4>1, <6>2
          <5> QED BY <5>1, <5>2
        <4> QED BY <1>4, <1>9, <4>1, <4>2 DEF Waiting, Waits
      <3>2. ASSUME NEW y \in B \ {r}, NEW z \in B \ {r}, L(y) = L(z) PROVE y = z
        <4>1. /\ Table(delivery_box, sends) /\ sends \in 0 .. MaxSends
              /\ \A x \in delivery_box : Waits(x) /\ x.charid = p => r.slot <= x.slot
              /\ \A x \in delivery_box : ~ (x.charid = p /\ x.box = 1 /\ x.slot = c)
          BY <1>1, <1>2, TypeParts DEF BoxInv, Queue, Rows, Waits, Is
        <4>2. y \in delivery_box /\ z \in delivery_box
          BY DEF Waiting
        <4> QED BY <1>1, <3>2, <4>1, <4>2, LiftedApart DEF L
      <3> HIDE DEF B, D
      <3>3. f \in Injection(B \ {r}, D)
        BY <3>1, <3>2 DEF Injection, IsInjective
      <3> QED BY <2>1, <3>3, FS_Injection
    <2>5. CASE a = r.senderid /\ b = p /\ k = r.itemid
      <3>1. r \in B
        BY <1>1, <2>5 DEF Waiting
      <3>2. Pending(r.senderid, p, r.itemid) = A
        BY <2>5, WayNames
      <3>3. CASE A = {}
        <4>1. C = {}
          BY <2>3, <3>3
        <4> HIDE DEF A, B, C, D
        <4>2. Cardinality(C) <= Cardinality(D)
          BY <2>1, <4>1, FS_EmptySet
        <4> QED BY <4>2 DEF C, D
      <3>4. CASE A # {}
        <4>1. PICK x \in A : rows = Replaced(x, [x EXCEPT !.received = TRUE])
          BY <1>1, <3>2, <3>4
        <4>2. x \notin C
          <5> DEFINE s == [x EXCEPT !.received = TRUE]
          <5>1. x \in delivery_box /\ x \in Row /\ ~ x.received
            BY <1>3 DEF UnderWay
          <5>2. s.received
            BY <5>1 DEF Row
          <5> HIDE DEF s
          <5>3. x \notin rows
            BY <4>1, <5>1, <5>2 DEF Replaced, s
          <5>4. \A z \in rows : L(z) = x => z = x
            <6>1. x.box = 2
              BY DEF UnderWay
            <6> QED BY <1>3, <1>4, <1>10, <6>1
          <5>5. x \notin delivery_box'
            BY <1>9, <5>3, <5>4
          <5> QED BY <5>5 DEF UnderWay
        <4>3. C \subseteq A \ {x}
          BY <2>3, <4>2
        <4> HIDE DEF A, B, C, D
        <4>4. Cardinality(C) <= Cardinality(D)
          BY <2>1, <2>2, <2>4, <3>1, <4>3, OneLess
        <4> QED BY <4>4 DEF C, D
      <3> QED BY <3>3, <3>4
    <2>6. CASE ~ (a = r.senderid /\ b = p /\ k = r.itemid)
      <3>1. B \ {r} = B
        BY <1>1, <2>6 DEF Waiting
      <3>2. C \in SUBSET A
        BY <2>3
      <3> HIDE DEF A, B, C, D
      <3>3. Cardinality(C) <= Cardinality(A) /\ Cardinality(B) <= Cardinality(D)
        BY <2>1, <2>4, <3>1, <3>2, FS_Subset
      <3>4. /\ Cardinality(A) \in Nat /\ Cardinality(B) \in Nat
            /\ Cardinality(C) \in Nat /\ Cardinality(D) \in Nat
        BY <2>1, FS_CardinalityType
      <3>5. Cardinality(C) <= Cardinality(D)
        BY <2>2, <3>3, <3>4
      <3> QED BY <3>5 DEF C, D
    <2> QED BY <2>5, <2>6
  <1> QED BY <1>13, <1>14

\* Every step keeps the copies and what is under way.
LEMMA BoxStep == BoxInv /\ [Next]_vars => BoxInv'
  <1> SUFFICES ASSUME BoxInv, [Next]_vars PROVE BoxInv'
    OBVIOUS
  <1>1. TypeInv'
    BY TypeStep DEF BoxInv
  <1>2. CopyInv' /\ WayInv(delivery_box')
    <2>1. CASE UNCHANGED vars
      BY <2>1 DEF BoxInv, CopyInv, vars
    <2>2. CASE Next
      BY <2>2, BoxClient, BoxPutIn, BoxSend, BoxCancel, BoxRemoved, BoxReturn, BoxTakeUp,
         BoxPay DEF Next
    <2> QED BY <2>1, <2>2
  <1> QED BY <1>1, <1>2 DEF BoxInv

\* The copy a session works on is the table's content, although other sessions
\* change rows of the same box meanwhile; only the row of a refused 0x02 may be
\* missing in it.
THEOREM CopyIsTableAlways == Spec => []CopyIsTable
  <1>1. BoxInv => CopyIsTable
    BY DEF BoxInv, CopyInv, CopyIsTable, Fits, Hidden, Missing, Shown, IsSlotEmpty, At, Rows, Is
  <1> QED BY <1>1, BoxInit, BoxStep, PTL DEF Spec

\* For each item a sender sees as under way, one waits in the receiver's queue.
THEOREM PendingIsQueuedAlways == Spec => []PendingIsQueued
  <1>1. BoxInv => PendingIsQueued
    BY WayNames DEF BoxInv, WayInv, PendingIsQueued
  <1> QED BY <1>1, BoxInit, BoxStep, PTL DEF Spec
-----------------------------------------------------------------------------
(***************************************************************************)
(* What is carried and stored                                              *)
(***************************************************************************)
\* The rows of T that hold an item k of their own, and how many they are: a row of
\* a send box that is sent stands for the one in the receiver's box.
Counts(r, k) == r.itemid = k /\ (r.box = 1 \/ ~ r.sent)
Stored(T, k) == {r \in T : Counts(r, k)}
Amount(T, k) == Cardinality(Stored(T, k))
Worth(r, k) == IF Counts(r, k) THEN 1 ELSE 0

LEMMA AmountType ==
  ASSUME NEW T, IsFiniteSet(T), NEW k
  PROVE  IsFiniteSet(Stored(T, k)) /\ Amount(T, k) \in Nat
  <1>1. Stored(T, k) \in SUBSET T
    BY DEF Stored
  <1>2. IsFiniteSet(Stored(T, k))
    BY <1>1, FS_Subset
  <1> QED BY <1>2, FS_CardinalityType DEF Amount

LEMMA AmountAdds ==
  ASSUME NEW T, IsFiniteSet(T), NEW d, d \notin T, NEW k
  PROVE  Amount(T \cup {d}, k) = Amount(T, k) + Worth(d, k)
  <1>1. IsFiniteSet(Stored(T, k)) /\ Amount(T, k) \in Nat /\ d \notin Stored(T, k)
    BY AmountType DEF Stored
  <1>2. CASE Counts(d, k)
    <2>1. Stored(T \cup {d}, k) = Stored(T, k) \cup {d}
      BY <1>2 DEF Stored
    <2>2. Cardinality(Stored(T, k) \cup {d}) = Cardinality(Stored(T, k)) + 1
      BY <1>1, FS_AddElement
    <2> QED BY <1>2, <2>1, <2>2 DEF Amount, Worth
  <1>3. CASE ~ Counts(d, k)
    <2>1. Stored(T \cup {d}, k) = Stored(T, k)
      BY <1>3 DEF Stored
    <2> QED BY <1>1, <1>3, <2>1 DEF Amount, Worth
  <1> QED BY <1>2, <1>3

LEMMA AmountDrops ==
  ASSUME NEW T, IsFiniteSet(T), NEW r \in T, NEW k
  PROVE  Amount(T \ {r}, k) = Amount(T, k) - Worth(r, k)
  <1>1. IsFiniteSet(T \ {r}) /\ r \notin T \ {r} /\ T = (T \ {r}) \cup {r}
    BY FS_RemoveElement
  <1>2. PICK U : U = T \ {r}
    OBVIOUS
  <1>3. Amount(U \cup {r}, k) = Amount(U, k) + Worth(r, k) /\ Amount(U, k) \in Nat
    BY <1>1, <1>2, AmountAdds, AmountType
  <1>4. Worth(r, k) \in {0, 1}
    BY DEF Worth
  <1>5. Amount(T, k) = Amount(U, k) + Worth(r, k)
    BY <1>1, <1>2, <1>3
  <1>6. Amount(U, k) = Amount(T, k) - Worth(r, k)
    BY <1>3, <1>4, <1>5
  <1> QED BY <1>2, <1>6

\* A row becomes another one.
LEMMA AmountChanges ==
  ASSUME NEW T, IsFiniteSet(T), NEW r \in T, NEW s, s \notin T \ {r}, NEW k
  PROVE  Amount((T \ {r}) \cup {s}, k) = Amount(T, k) - Worth(r, k) + Worth(s, k)
  <1>1. IsFiniteSet(T \ {r})
    BY FS_RemoveElement
  <1> QED BY <1>1, AmountAdds, AmountDrops

\* What all characters carry of k, with the inventories I.
Carries(I, k) == SumFunctionOnSet([p \in Player |-> I[p][k]], Player)

\* Conserved, of a table, the inventories, what was made and what was refused.
Balance(T, I, M, R) ==
  \A k \in Kind :
      Carries(I, k) + Amount(T, k) = Stock * Cardinality(Player) + M[k] + R[k]

LEMMA ConservedNames ==
  Conserved <=> Balance(delivery_box, inventory, made, refused)
  BY DEF Conserved, Balance, Carries, Amount, Stored, Counts, SumFunction

LEMMA CarriesType ==
  ASSUME NEW I \in [Player -> [Kind -> Nat]], NEW k \in Kind
  PROVE  Carries(I, k) \in Int
  <1>1. IsFiniteSet(Player)
    BY PlayerAssumption
  <1>2. PICK f : f = [p \in Player |-> I[p][k]]
    OBVIOUS
  <1>3. \A p \in Player : f[p] \in Int
    BY <1>2
  <1> QED BY <1>1, <1>2, <1>3, SumType DEF Carries

\* With J for the inventories I, a character carries n of j.
Gets(I, J, p, j, n) == J = [I EXCEPT ![p][j] = n]

LEMMA CarriesOther ==
  ASSUME NEW I \in [Player -> [Kind -> Nat]], NEW p \in Player, NEW j \in Kind, NEW n \in Int,
         NEW J, Gets(I, J, p, j, n), NEW k \in Kind
  PROVE  Carries(J, k) = Carries(I, k) + IF k = j THEN n - I[p][j] ELSE 0
  <1>1. IsFiniteSet(Player)
    BY PlayerAssumption
  <1>2. PICK f, g : f = [o \in Player |-> I[o][k]] /\ g = [o \in Player |-> J[o][k]]
    OBVIOUS
  <1>3. PICK v \in [Kind -> Nat] : v = I[p]
    OBVIOUS
  <1>4. PICK w : w = [v EXCEPT ![j] = n]
    OBVIOUS
  <1>5. J = [I EXCEPT ![p] = w]
    BY <1>3, <1>4 DEF Gets
  <1>6. w[k] = (IF k = j THEN n ELSE v[k]) /\ v[k] \in Nat /\ v[j] \in Nat
    BY <1>3, <1>4
  <1>7. \A o \in Player : f[o] \in Int
    BY <1>2
  <1>8. f[p] = v[k] /\ g[p] = w[k] /\ w[k] \in Int
    BY <1>2, <1>3, <1>5, <1>6
  <1>9. \A o \in Player : o # p => g[o] = f[o]
    BY <1>2, <1>5
  <1>10. SumFunctionOnSet(g, Player) = SumFunctionOnSet(f, Player) - f[p] + g[p]
    BY <1>1, <1>7, <1>8, <1>9, SumChanges
  <1>11. PICK s \in Int : s = SumFunctionOnSet(f, Player)
    BY <1>1, <1>7, SumType
  <1>12. Carries(I, k) = s /\ Carries(J, k) = s - v[k] + w[k]
    BY <1>2, <1>8, <1>10, <1>11 DEF Carries
  <1> QED BY <1>3, <1>6, <1>12

\* At the start each character has Stock of each kind, and nothing is stored.
LEMMA BalanceInit == Init => Balance(delivery_box, inventory, made, refused)
  <1> SUFFICES ASSUME Init, NEW k \in Kind
               PROVE  Carries(inventory, k) + Amount(delivery_box, k)
                         = Stock * Cardinality(Player) + made[k] + refused[k]
    BY DEF Balance
  <1>1. IsFiniteSet(Player) /\ Stock \in Nat
    BY PlayerAssumption, NumbersAssumption
  <1>2. PICK f : f = [p \in Player |-> inventory[p][k]]
    OBVIOUS
  <1>3. \A p \in Player : f[p] = Stock
    BY <1>2 DEF Init
  <1>4. Carries(inventory, k) = Stock * Cardinality(Player)
    BY <1>1, <1>2, <1>3, SumOfEqual DEF Carries
  <1>5. Stored(delivery_box, k) = {}
    BY DEF Stored, Init
  <1>6. Amount(delivery_box, k) = 0
    BY <1>5, FS_EmptySet DEF Amount
  <1>7. Cardinality(Player) \in Nat
    BY <1>1, FS_CardinalityType
  <1>8. made[k] = 0 /\ refused[k] = 0
    BY DEF Init
  <1>9. PICK n \in Int : n = Stock * Cardinality(Player)
    BY <1>1, <1>7
  <1> QED BY <1>4, <1>6, <1>8, <1>9

\* The row a cell shows has the item the copy has.
LEMMA CellRow ==
  ASSUME BoxInv, NEW p \in Player, NEW c \in Cell, listed[p], UContainer[p][c] # NoItem,
         NEW r \in At(p, opened[p], c)
  PROVE  /\ r \in delivery_box /\ r \in Row /\ IsFiniteSet(delivery_box)
         /\ r.charid = p /\ r.box = opened[p] /\ r.slot = c
         /\ r.itemid = UContainer[p][c].itemid /\ r.senderid = UContainer[p][c].other
         /\ r.sent = UContainer[p][c].sent
         /\ \A x \in delivery_box : x.charid = p /\ x.box = opened[p] /\ x.slot = c => x = r
  <1>1. /\ r \in delivery_box /\ Is(r, p, opened[p], c) /\ Shown(r) = UContainer[p][c]
        /\ \A x \in delivery_box : Is(x, p, opened[p], c) => x = r
    BY WorkingCopy
  <1>2. r \in Row /\ IsFiniteSet(delivery_box)
    BY <1>1 DEF BoxInv, TypeInv, Table
  <1> QED BY <1>1, <1>2 DEF Is, Shown

\* The trigger's row is a new one, and counts.
LEMMA NewRow ==
  ASSUME TypeInv, sends < MaxSends, NEW p \in Player, NEW j \in Kind, NEW from \in Player \cup {AH},
         NEW d, d = Delivery(p, j, from)
  PROVE  d \notin delivery_box /\ d.box = 1 /\ d.itemid = j /\ \A k : Worth(d, k) = IF k = j THEN 1 ELSE 0
  <1>1. /\ d \in Row /\ d.charid = p /\ d.box = 1 /\ d.itemid = j
        /\ \A r \in delivery_box : r.charid = p /\ r.box = 1 => r.slot < d.slot
    BY Delivered
  <1>2. d.slot \in Nat
    BY <1>1, Numbers DEF Row
  <1>3. d \notin delivery_box
    BY <1>1, <1>2
  <1> QED BY <1>1, <1>3 DEF Worth, Counts

\* A step that leaves the inventories and what was made alone, and the amounts.
LEMMA BalanceKept ==
  ASSUME BoxInv, Balance(delivery_box, inventory, made, refused), UNCHANGED <<inventory, made, refused>>,
         \A k \in Kind : Amount(delivery_box', k) = Amount(delivery_box, k)
  PROVE  Balance(delivery_box', inventory', made', refused')
  BY DEF Balance

\* The row of a 0x02 is a new one, and counts.
LEMMA NewSendRow ==
  ASSUME NEW p \in Player, NEW c \in Cell, NEW j \in Kind, NEW to \in Player,
         InsertRow(p, c, j, to), NEW r, r = SendRow(p, c, j, to)
  PROVE  r \notin delivery_box /\ \A k : Worth(r, k) = IF k = j THEN 1 ELSE 0
  <1>1. r.charid = p /\ r.box = 2 /\ r.slot = c /\ r.itemid = j /\ ~ r.sent
    BY SendRowType
  <1>2. r \notin At(p, 2, c)
    BY DEF InsertRow
  <1> QED BY <1>1, <1>2 DEF At, Rows, Worth, Counts

\* 0x02: one less is carried, one more stored.
LEMMA BalancePutIn ==
  ASSUME BoxInv, Balance(delivery_box, inventory, made, refused),
         NEW p \in Player, NEW c \in Cell, NEW j \in Kind, NEW to \in Player,
         PutIn(p, c, j, to)
  PROVE  Balance(delivery_box', inventory', made', refused')
  <1>0. PICK r : r = SendRow(p, c, j, to)
    OBVIOUS
  <1>1. /\ delivery_box' = delivery_box \cup {r}
        /\ inventory' = [inventory EXCEPT ![p][j] = @ - 1] /\ made' = made /\ refused' = refused
    BY <1>0 DEF PutIn, InsertRow
  <1>2. r \notin delivery_box /\ \A k : Worth(r, k) = IF k = j THEN 1 ELSE 0
    BY <1>0, NewSendRow DEF PutIn
  <1>3. inventory \in [Player -> [Kind -> Nat]] /\ made \in [Kind -> Int] /\ IsFiniteSet(delivery_box)
        /\ refused \in [Kind -> Nat]
    BY DEF BoxInv, TypeInv, TypeOK, Table
  <1>4. PICK n \in Int : n = inventory[p][j] - 1
    BY <1>3
  <1>5. PICK J : Gets(inventory, J, p, j, n)
    BY DEF Gets
  <1>6. J = inventory'
    BY <1>1, <1>4, <1>5 DEF Gets
  <1>7. ASSUME NEW k \in Kind
        PROVE  Carries(inventory', k) + Amount(delivery_box', k)
                  = Stock * Cardinality(Player) + made'[k] + refused'[k]
    <2>1. Carries(J, k) = Carries(inventory, k) + IF k = j THEN n - inventory[p][j] ELSE 0
      BY <1>3, <1>5, CarriesOther
    <2>2. Amount(delivery_box', k) = Amount(delivery_box, k) + Worth(r, k)
      BY <1>1, <1>2, <1>3, AmountAdds
    <2>3. /\ Carries(inventory, k) \in Int /\ Amount(delivery_box, k) \in Int
          /\ Carries(inventory, k) + Amount(delivery_box, k) = Stock * Cardinality(Player) + made[k] + refused[k]
      BY <1>3, CarriesType, AmountType DEF Balance
    <2>4. Worth(r, k) = IF k = j THEN 1 ELSE 0
      BY <1>2
    <2>5. n - inventory[p][j] = 0 - 1
      BY <1>3, <1>4
    <2>6. Carries(J, k) + Amount(delivery_box', k) = Carries(inventory, k) + Amount(delivery_box, k)
      BY <2>1, <2>2, <2>3, <2>4, <2>5
    <2> QED BY <1>1, <1>6, <2>3, <2>6
  <1> QED BY <1>7 DEF Balance

\* 0x02 refused: as much is carried, and one more stored.
LEMMA BalancePutInRefused ==
  ASSUME BoxInv, Balance(delivery_box, inventory, made, refused),
         NEW p \in Player, NEW c \in Cell, NEW j \in Kind, NEW to \in Player,
         PutInRefused(p, c, j, to)
  PROVE  Balance(delivery_box', inventory', made', refused')
  <1>1. PICK r : r = SendRow(p, c, j, to)
    OBVIOUS
  <1>2. /\ delivery_box' = delivery_box \cup {r} /\ inventory' = inventory /\ made' = made
        /\ refused' = [refused EXCEPT ![j] = @ + 1]
    BY <1>1 DEF PutInRefused, InsertRow
  <1>3. r \notin delivery_box /\ \A k : Worth(r, k) = IF k = j THEN 1 ELSE 0
    BY <1>1, NewSendRow DEF PutInRefused
  <1>4. /\ inventory \in [Player -> [Kind -> Nat]] /\ made \in [Kind -> Int]
        /\ IsFiniteSet(delivery_box) /\ refused \in [Kind -> Nat]
    BY DEF BoxInv, TypeInv, TypeOK, Table
  <1>5. ASSUME NEW k \in Kind
        PROVE  Carries(inventory', k) + Amount(delivery_box', k)
                  = Stock * Cardinality(Player) + made'[k] + refused'[k]
    <2>1. Amount(delivery_box', k) = Amount(delivery_box, k) + Worth(r, k)
      BY <1>2, <1>3, <1>4, AmountAdds
    <2>2. /\ Carries(inventory, k) \in Int /\ Amount(delivery_box, k) \in Int
          /\ Carries(inventory, k) + Amount(delivery_box, k)
                = Stock * Cardinality(Player) + made[k] + refused[k]
      BY <1>4, CarriesType, AmountType DEF Balance
    <2>3. /\ refused'[k] = refused[k] + (IF k = j THEN 1 ELSE 0)
          /\ refused[k] \in Int /\ made[k] \in Int
      BY <1>2, <1>4
    <2>4. PICK n \in Int : n = Stock * Cardinality(Player)
      BY PlayerAssumption, Numbers, FS_CardinalityType
    <2> QED BY <1>2, <1>3, <2>1, <2>2, <2>3, <2>4
  <1> QED BY <1>5 DEF Balance

\* 0x03: the sender's row stands for the new one from now on.
LEMMA BalanceSend ==
  ASSUME BoxInv, NEW p \in Player, NEW c \in Cell, Send(p, c), NEW k \in Kind
  PROVE  Amount(delivery_box', k) = Amount(delivery_box, k)
  <1>1. PICK r \in At(p, 2, c) :
           /\ ~ r.sent
           /\ delivery_box' = Replaced(r, [r EXCEPT !.sent = TRUE])
                  \cup {Delivery(r.senderid, UContainer[p][c].itemid, p)}
    BY DEF Send
  <1>2. listed[p] /\ opened[p] = 2 /\ sends < MaxSends /\ UContainer[p][c] # NoItem
    BY DEF Send, Working, IsSlotEmpty
  <1>3. /\ r \in delivery_box /\ r \in Row /\ IsFiniteSet(delivery_box)
        /\ r.charid = p /\ r.box = 2 /\ r.slot = c /\ r.itemid = UContainer[p][c].itemid
        /\ \A x \in delivery_box : x.charid = p /\ x.box = 2 /\ x.slot = c => x = r
    BY <1>2, CellRow
  <1>4. r.senderid \in Player /\ r.itemid \in Kind
    BY <1>3 DEF BoxInv, TypeInv, Table, Row
  <1>5. PICK d : d = Delivery(r.senderid, r.itemid, p)
    OBVIOUS
  <1>6. PICK s : s = [r EXCEPT !.sent = TRUE]
    OBVIOUS
  <1>7. d \notin delivery_box /\ d.box = 1 /\ Worth(d, k) = IF k = r.itemid THEN 1 ELSE 0
    BY <1>2, <1>4, <1>5, NewRow DEF BoxInv
  <1>8. /\ s.charid = p /\ s.box = 2 /\ s.slot = c /\ s.sent /\ s # r
    BY <1>1, <1>3, <1>6 DEF Row
  <1>9. s \notin delivery_box \ {r} /\ d \notin (delivery_box \ {r}) \cup {s}
    BY <1>3, <1>7, <1>8
  <1>10. Worth(s, k) = 0 /\ Worth(r, k) = IF k = r.itemid THEN 1 ELSE 0
    BY <1>1, <1>3, <1>8 DEF Worth, Counts
  <1>11. PICK U : U = (delivery_box \ {r}) \cup {s}
    OBVIOUS
  <1>12. IsFiniteSet(U) /\ delivery_box' = U \cup {d}
    BY <1>1, <1>3, <1>5, <1>6, <1>11, FS_RemoveElement, FS_AddElement DEF Replaced
  <1>13. Amount(U, k) = Amount(delivery_box, k) - Worth(r, k) + Worth(s, k)
    BY <1>3, <1>9, <1>11, AmountChanges
  <1>14. Amount(delivery_box', k) = Amount(U, k) + Worth(d, k)
    BY <1>9, <1>11, <1>12, AmountAdds
  <1>15. Amount(delivery_box, k) \in Nat
    BY <1>3, AmountType
  <1> QED BY <1>7, <1>10, <1>13, <1>14, <1>15

\* 0x04: what waited is the sender's again.
LEMMA BalanceCancel ==
  ASSUME BoxInv, NEW p \in Player, NEW c \in Cell, Cancel(p, c), NEW k \in Kind
  PROVE  Amount(delivery_box', k) = Amount(delivery_box, k)
  <1> DEFINE item == UContainer[p][c]
             waiting == WaitingDelivery(item.other, p, item.itemid)
  <1>1. PICK r \in At(p, 2, c) :
           /\ r.sent
           /\ \/ \E d \in waiting :
                    delivery_box' = Replaced(r, [r EXCEPT !.sent = FALSE]) \ {d}
              \/ delivery_box' = delivery_box \ {x \in {r} : x.itemid = item.itemid}
    BY DEF Cancel, MayCancel
  <1>2. listed[p] /\ opened[p] = 2 /\ item # NoItem
    BY DEF Cancel, Working, IsSlotEmpty
  <1>3. /\ r \in delivery_box /\ r \in Row /\ IsFiniteSet(delivery_box)
        /\ r.charid = p /\ r.box = 2 /\ r.slot = c /\ r.itemid = item.itemid
        /\ \A x \in delivery_box : x.charid = p /\ x.box = 2 /\ x.slot = c => x = r
    BY <1>2, CellRow
  <1>4. Amount(delivery_box, k) \in Nat /\ Worth(r, k) = 0
    BY <1>1, <1>3, AmountType DEF Worth, Counts
  <1>5. ASSUME NEW d \in waiting,
               delivery_box' = Replaced(r, [r EXCEPT !.sent = FALSE]) \ {d}
        PROVE  Amount(delivery_box', k) = Amount(delivery_box, k)
    <2>1. d \in delivery_box /\ d.box = 1 /\ d.itemid = item.itemid
      BY DEF WaitingDelivery, Queue, Rows
    <2>2. PICK s : s = [r EXCEPT !.sent = FALSE]
      OBVIOUS
    <2>3. s.charid = p /\ s.box = 2 /\ s.slot = c /\ ~ s.sent /\ s.itemid = r.itemid /\ s # r
      BY <1>1, <1>3, <2>2 DEF Row
    <2>4. PICK U : U = (delivery_box \ {r}) \cup {s}
      OBVIOUS
    <2>5. s \notin delivery_box \ {r} /\ d \in U /\ d # s
      BY <1>3, <2>1, <2>3, <2>4
    <2>6. IsFiniteSet(U) /\ delivery_box' = U \ {d}
      BY <1>3, <1>5, <2>2, <2>4, FS_RemoveElement, FS_AddElement DEF Replaced
    <2>7. Worth(d, k) = Worth(s, k) /\ Worth(s, k) \in {0, 1}
      BY <1>3, <2>1, <2>3 DEF Worth, Counts
    <2>8. Amount(U, k) = Amount(delivery_box, k) - Worth(r, k) + Worth(s, k)
      BY <1>3, <2>4, <2>5, AmountChanges
    <2>9. Amount(delivery_box', k) = Amount(U, k) - Worth(d, k)
      BY <2>5, <2>6, AmountDrops
    <2> QED BY <1>4, <2>7, <2>8, <2>9
  <1>6. CASE delivery_box' = delivery_box \ {x \in {r} : x.itemid = item.itemid}
    <2>1. delivery_box' = delivery_box \ {r}
      BY <1>3, <1>6
    <2> QED BY <1>3, <1>4, <2>1, AmountDrops
  <1> QED BY <1>1, <1>5, <1>6

\* 0x07: a received row was sent, and counts no more.
LEMMA BalanceReceived ==
  ASSUME BoxInv, NEW p \in Player, RemoveReceived(p), NEW k \in Kind
  PROVE  Amount(delivery_box', k) = Amount(delivery_box, k)
  <1>1. PICK r \in Rows(p, 2) : /\ UContainer[p][r.slot].sent /\ UContainer[p][r.slot] # NoItem
                                /\ delivery_box' = delivery_box \ {r}
    BY DEF RemoveReceived, IsSlotEmpty
  <1>2. listed[p] /\ opened[p] = 2 /\ UContainer[p][r.slot] # NoItem
    BY <1>1 DEF RemoveReceived, Working, IsSlotEmpty
  <1>3. r \in delivery_box /\ r.box = 2 /\ r.slot \in Cell /\ r \in At(p, opened[p], r.slot)
    BY <1>2 DEF Rows, At, BoxInv, TypeInv, Table
  <1>4. r.sent /\ IsFiniteSet(delivery_box)
    BY <1>1, <1>2, <1>3, CellRow
  <1>5. Amount(delivery_box, k) \in Nat /\ Worth(r, k) = 0
    BY <1>3, <1>4, AmountType DEF Worth, Counts
  <1> QED BY <1>1, <1>3, <1>4, <1>5, AmountDrops

\* 0x09: a row of the receiver's box makes place for one of the sender's.
LEMMA BalanceReturn ==
  ASSUME BoxInv, NEW p \in Player, NEW c \in Cell, Return(p, c), NEW k \in Kind
  PROVE  Amount(delivery_box', k) = Amount(delivery_box, k)
  <1>1. PICK r \in At(p, 1, c) :
           /\ r.senderid # AH
           /\ delivery_box' = (delivery_box \ {r})
                  \cup {Delivery(r.senderid, UContainer[p][c].itemid, p)}
    BY DEF Return
  <1>2. listed[p] /\ opened[p] = 1 /\ sends < MaxSends /\ UContainer[p][c] # NoItem
    BY DEF Return, Working, IsSlotEmpty
  <1>3. /\ r \in delivery_box /\ r \in Row /\ IsFiniteSet(delivery_box)
        /\ r.box = 1 /\ r.itemid = UContainer[p][c].itemid
    BY <1>2, CellRow
  <1>4. r.senderid \in Player /\ r.itemid \in Kind
    BY <1>1, <1>3 DEF Row
  <1>5. PICK d : d = Delivery(r.senderid, r.itemid, p)
    OBVIOUS
  <1>6. d \notin delivery_box /\ Worth(d, k) = IF k = r.itemid THEN 1 ELSE 0
    BY <1>2, <1>4, <1>5, NewRow DEF BoxInv
  <1>7. Worth(r, k) = IF k = r.itemid THEN 1 ELSE 0
    BY <1>3 DEF Worth, Counts
  <1>8. delivery_box' = (delivery_box \ {r}) \cup {d}
    BY <1>1, <1>3, <1>5
  <1>9. Amount(delivery_box', k) = Amount(delivery_box, k) - Worth(r, k) + Worth(d, k)
    BY <1>3, <1>6, <1>8, AmountChanges
  <1>10. Amount(delivery_box, k) \in Nat
    BY <1>3, AmountType
  <1> QED BY <1>6, <1>7, <1>9, <1>10

\* The trigger auction_house_buy makes an item.
LEMMA BalancePay ==
  ASSUME BoxInv, Balance(delivery_box, inventory, made, refused), NEW p \in Player, NEW j \in Kind, Pay(p, j)
  PROVE  Balance(delivery_box', inventory', made', refused')
  <1>1. PICK d : d = Delivery(p, j, AH)
    OBVIOUS
  <1>2. /\ delivery_box' = delivery_box \cup {d} /\ inventory' = inventory
        /\ made' = [made EXCEPT ![j] = @ + 1] /\ sends < MaxSends /\ refused' = refused
    BY <1>1 DEF Pay
  <1>3. d \notin delivery_box /\ \A k : Worth(d, k) = IF k = j THEN 1 ELSE 0
    BY <1>1, <1>2, NewRow DEF BoxInv
  <1>4. inventory \in [Player -> [Kind -> Nat]] /\ made \in [Kind -> Int] /\ IsFiniteSet(delivery_box)
        /\ refused \in [Kind -> Nat]
    BY DEF BoxInv, TypeInv, TypeOK, Table
  <1>5. ASSUME NEW k \in Kind
        PROVE  Carries(inventory', k) + Amount(delivery_box', k)
                  = Stock * Cardinality(Player) + made'[k] + refused'[k]
    <2>1. Amount(delivery_box', k) = Amount(delivery_box, k) + Worth(d, k)
      BY <1>2, <1>3, <1>4, AmountAdds
    <2>2. /\ Carries(inventory, k) \in Int /\ Amount(delivery_box, k) \in Int
          /\ Carries(inventory, k) + Amount(delivery_box, k) = Stock * Cardinality(Player) + made[k] + refused[k]
      BY <1>4, CarriesType, AmountType DEF Balance
    <2>3. /\ made'[k] = made[k] + (IF k = j THEN 1 ELSE 0)
          /\ made[k] \in Int /\ refused[k] \in Int
      BY <1>2, <1>4
    <2>4. PICK n \in Int : n = Stock * Cardinality(Player)
      BY PlayerAssumption, Numbers, FS_CardinalityType
    <2> QED BY <1>2, <1>3, <2>1, <2>2, <2>3, <2>4
  <1> QED BY <1>5 DEF Balance

\* 0x0A: what was stored is carried.
LEMMA BalanceTake ==
  ASSUME BoxInv, Balance(delivery_box, inventory, made, refused), NEW p \in Player, NEW c \in Cell, Take(p, c)
  PROVE  Balance(delivery_box', inventory', made', refused')
  <1>1. PICK r \in At(p, opened[p], c) : MayTake(r) /\ delivery_box' = delivery_box \ {r}
    BY DEF Take
  <1>2. listed[p] /\ made' = made /\ refused' = refused /\ UContainer[p][c] # NoItem
    BY DEF Take, IsSlotEmpty
  <1>3. /\ r \in delivery_box /\ r \in Row /\ IsFiniteSet(delivery_box)
        /\ r.itemid = UContainer[p][c].itemid
    BY <1>2, CellRow
  <1>4. PICK j \in Kind : j = r.itemid
    BY <1>3 DEF Row
  <1>5. inventory \in [Player -> [Kind -> Nat]] /\ made \in [Kind -> Int]
    BY DEF BoxInv, TypeInv, TypeOK
  <1>6. PICK n \in Int : n = inventory[p][j] + 1
    BY <1>5
  <1>7. PICK J : Gets(inventory, J, p, j, n)
    BY DEF Gets
  <1>8. inventory' = J
    BY <1>3, <1>4, <1>6, <1>7 DEF Take, Gets
  <1>9. \A k : Worth(r, k) = IF k = j THEN 1 ELSE 0
    BY <1>1, <1>3, <1>4 DEF MayTake, Worth, Counts, Row
  <1>10. ASSUME NEW k \in Kind
         PROVE  Carries(inventory', k) + Amount(delivery_box', k)
                   = Stock * Cardinality(Player) + made'[k] + refused'[k]
    <2>1. Carries(J, k) = Carries(inventory, k) + IF k = j THEN n - inventory[p][j] ELSE 0
      BY <1>5, <1>7, CarriesOther
    <2>2. Amount(delivery_box', k) = Amount(delivery_box, k) - Worth(r, k)
      BY <1>1, <1>3, AmountDrops
    <2>3. /\ Carries(inventory, k) \in Int /\ Amount(delivery_box, k) \in Int
          /\ Carries(inventory, k) + Amount(delivery_box, k) = Stock * Cardinality(Player) + made[k] + refused[k]
      BY <1>3, <1>5, CarriesType, AmountType DEF Balance
    <2>4. n - inventory[p][j] = 1 /\ Worth(r, k) = IF k = j THEN 1 ELSE 0
      BY <1>5, <1>6, <1>9
    <2>5. Carries(J, k) + Amount(delivery_box', k) = Carries(inventory, k) + Amount(delivery_box, k)
      BY <2>1, <2>2, <2>3, <2>4
    <2> QED BY <1>2, <1>8, <2>3, <2>5
  <1> QED BY <1>10 DEF Balance

\* 0x0B: what was stored is gone.
LEMMA BalanceDrop ==
  ASSUME BoxInv, Balance(delivery_box, inventory, made, refused), NEW p \in Player, NEW c \in Cell, Drop(p, c)
  PROVE  Balance(delivery_box', inventory', made', refused')
  <1>1. PICK r \in At(p, 1, c) : /\ delivery_box' = delivery_box \ {r}
                                 /\ made' = [made EXCEPT ![r.itemid] = @ - 1]
    BY DEF Drop
  <1>2. /\ listed[p] /\ opened[p] = 1 /\ inventory' = inventory /\ refused' = refused
        /\ UContainer[p][c] # NoItem
    BY DEF Drop, Working, IsSlotEmpty
  <1>3. r \in delivery_box /\ r \in Row /\ IsFiniteSet(delivery_box) /\ r.box = 1
    BY <1>2, CellRow
  <1>4. PICK j \in Kind : j = r.itemid
    BY <1>3 DEF Row
  <1>5. /\ inventory \in [Player -> [Kind -> Nat]] /\ made \in [Kind -> Int]
        /\ refused \in [Kind -> Nat]
    BY DEF BoxInv, TypeInv, TypeOK
  <1>6. ASSUME NEW k \in Kind
        PROVE  Carries(inventory', k) + Amount(delivery_box', k)
                  = Stock * Cardinality(Player) + made'[k] + refused'[k]
    <2>1. Amount(delivery_box', k) = Amount(delivery_box, k) - Worth(r, k)
      BY <1>1, <1>3, AmountDrops
    <2>2. /\ Carries(inventory, k) \in Int /\ Amount(delivery_box, k) \in Int
          /\ Carries(inventory, k) + Amount(delivery_box, k) = Stock * Cardinality(Player) + made[k] + refused[k]
      BY <1>3, <1>5, CarriesType, AmountType DEF Balance
    <2>3. /\ made'[k] = made[k] - (IF k = j THEN 1 ELSE 0)
          /\ made[k] \in Int /\ refused[k] \in Int
      BY <1>1, <1>4, <1>5
    <2>4. Worth(r, k) = IF k = j THEN 1 ELSE 0
      BY <1>3, <1>4 DEF Worth, Counts
    <2>5. PICK n \in Int : n = Stock * Cardinality(Player)
      BY PlayerAssumption, Numbers, FS_CardinalityType
    <2> QED BY <1>2, <2>1, <2>2, <2>3, <2>4, <2>5
  <1> QED BY <1>6 DEF Balance

\* 0x06: the marked row does not count before or after, and moving up is a
\* bijection that keeps what counts.
LEMMA BalanceTakeUp ==
  ASSUME BoxInv, NEW p \in Player, NEW c \in Cell, TakeUp(p, c), NEW k \in Kind
  PROVE  Amount(delivery_box', k) = Amount(delivery_box, k)
  <1>1. PICK r \in Queue(p), rows \in SUBSET Row :
            /\ r \in rows /\ r \in delivery_box /\ r.charid = p /\ Waits(r)
            /\ \A x \in Queue(p) : r.slot <= x.slot
            /\ \/ rows = delivery_box /\ Pending(r.senderid, p, r.itemid) = {}
               \/ \E x \in Pending(r.senderid, p, r.itemid) :
                     rows = Replaced(x, [x EXCEPT !.received = TRUE])
            /\ \A x : x \in rows /\ x.box = 1 <=> x \in delivery_box /\ x.box = 1
            /\ delivery_box' = {Lifted(x, p, r.slot, c) : x \in rows}
    BY TakenUp DEF BoxInv
  <1>2. Table(rows, sends) /\ Amount(rows, k) = Amount(delivery_box, k)
    <2>1. CASE rows = delivery_box
      BY <2>1 DEF BoxInv, TypeInv
    <2>2. ASSUME NEW x \in Pending(r.senderid, p, r.itemid),
                 rows = Replaced(x, [x EXCEPT !.received = TRUE])
          PROVE  Table(rows, sends) /\ Amount(rows, k) = Amount(delivery_box, k)
      <3>1. x \in delivery_box /\ x \in Row /\ IsFiniteSet(delivery_box) /\ x.box = 2 /\ x.sent
            /\ ~ x.received
        BY DEF Pending, BoxInv, TypeInv, Table
      <3>2. PICK s : s = [x EXCEPT !.received = TRUE]
        OBVIOUS
      <3>3. /\ s \in Row /\ s.charid = x.charid /\ s.box = x.box /\ s.slot = x.slot
            /\ s.senderid = x.senderid /\ s.n = x.n /\ s.sent /\ s # x
        BY <3>1, <3>2 DEF Row
      <3>4. rows = (delivery_box \ {x}) \cup {s}
        BY <2>2, <3>2 DEF Replaced
      <3>5. Table(rows, sends)
        BY <3>1, <3>3, <3>4, TableMarked DEF BoxInv, TypeInv
      <3>6. s \notin delivery_box \ {x}
        BY <3>1, <3>3 DEF BoxInv, TypeInv, Table
      <3>7. Worth(s, k) = 0 /\ Worth(x, k) = 0 /\ Amount(delivery_box, k) \in Nat
        BY <3>1, <3>3, AmountType DEF Worth, Counts
      <3>8. Amount(rows, k) = Amount(delivery_box, k) - Worth(x, k) + Worth(s, k)
        BY <3>1, <3>4, <3>6, AmountChanges
      <3> QED BY <3>5, <3>7, <3>8
    <2> QED BY <1>1, <2>1, <2>2
  <1> DEFINE L(x) == Lifted(x, p, r.slot, c)
             A == Stored(rows, k)
             B == Stored(delivery_box', k)
             f == [x \in A |-> L(x)]
  <1>3. r.slot \in Slot /\ r.slot >= Cells
    BY <1>1 DEF Row, Waits
  <1>4. \A x \in rows : /\ L(x).charid = x.charid /\ L(x).box = x.box /\ L(x).itemid = x.itemid
                        /\ L(x).sent = x.sent
    BY <1>1, <1>3, LiftedFields
  <1>5. \A x \in rows : Counts(L(x), k) <=> Counts(x, k)
    BY <1>4 DEF Counts
  <1>6. \A x, y \in rows : L(x) = L(y) => x = y
    <2>1. \A x \in rows : Waits(x) /\ x.charid = p => r.slot <= x.slot
      BY <1>1 DEF Queue, Rows, Waits
    <2>2. \A x \in rows : ~ (x.charid = p /\ x.box = 1 /\ x.slot = c)
      BY <1>1 DEF TakeUp, At, Rows
    <2>3. sends \in 0 .. MaxSends
      BY TypeParts DEF BoxInv
    <2> SUFFICES ASSUME NEW x \in rows, NEW y \in rows, L(x) = L(y) PROVE x = y
      OBVIOUS
    <2>4. L(x).charid = L(y).charid /\ L(x).box = L(y).box /\ L(x).slot = L(y).slot
      OBVIOUS
    <2> QED BY <1>1, <1>2, <2>1, <2>2, <2>3, <2>4, LiftedApart
  <1> HIDE DEF L
  <1>7. f \in Bijection(A, B)
    <2>1. \A x \in A : L(x) \in B
      BY <1>1, <1>5 DEF Stored, L
    <2>2. \A y \in B : \E x \in A : L(x) = y
      BY <1>1, <1>5 DEF Stored, L
    <2>3. \A x, y \in A : L(x) = L(y) => x = y
      BY <1>6 DEF Stored
    <2> HIDE DEF A, B
    <2>4. f \in [A -> B] /\ \A x \in A : f[x] = L(x)
      BY <2>1
    <2> HIDE DEF f
    <2>5. f \in Injection(A, B)
      BY <2>3, <2>4 DEF Injection, IsInjective
    <2>6. f \in Surjection(A, B)
      BY <2>2, <2>4 DEF Surjection
    <2> QED BY <2>5, <2>6 DEF Bijection
  <1>8. IsFiniteSet(A)
    BY <1>2, AmountType DEF Table
  <1>9. Cardinality(A) = Cardinality(B)
    <2>1. PICK X, Y : X = A /\ Y = B
      OBVIOUS
    <2>2. ExistsBijection(X, Y) /\ IsFiniteSet(X)
      BY <1>7, <1>8, <2>1 DEF ExistsBijection
    <2> HIDE DEF A, B, f
    <2>3. Cardinality(Y) = Cardinality(X)
      BY <2>2, FS_Bijection
    <2> QED BY <2>1, <2>3
  <1> QED BY <1>2, <1>9 DEF Amount

\* Every step keeps the balance.
LEMMA BalanceStep ==
  BoxInv /\ Balance(delivery_box, inventory, made, refused) /\ [Next]_vars
    => Balance(delivery_box', inventory', made', refused')
  <1> SUFFICES ASSUME BoxInv, Balance(delivery_box, inventory, made, refused), [Next]_vars
               PROVE  Balance(delivery_box', inventory', made', refused')
    OBVIOUS
  <1>1. CASE UNCHANGED <<delivery_box, inventory, made, refused>>
    BY <1>1
  <1>2. ASSUME NEW p \in Player, RemoveReceived(p)  PROVE  Balance(delivery_box', inventory', made', refused')
    BY <1>2, BalanceReceived, BalanceKept DEF RemoveReceived
  <1>3. ASSUME NEW p \in Player, NEW c \in Cell, Send(p, c)
        PROVE  Balance(delivery_box', inventory', made', refused')
    BY <1>3, BalanceSend, BalanceKept DEF Send
  <1>4. ASSUME NEW p \in Player, NEW c \in Cell, Cancel(p, c)
        PROVE  Balance(delivery_box', inventory', made', refused')
    BY <1>4, BalanceCancel, BalanceKept DEF Cancel
  <1>5. ASSUME NEW p \in Player, NEW c \in Cell, TakeUp(p, c)
        PROVE  Balance(delivery_box', inventory', made', refused')
    BY <1>5, BalanceTakeUp, BalanceKept DEF TakeUp
  <1>6. ASSUME NEW p \in Player, NEW c \in Cell, Return(p, c)
        PROVE  Balance(delivery_box', inventory', made', refused')
    BY <1>6, BalanceReturn, BalanceKept DEF Return
  <1>7. ASSUME NEW p \in Player, (\E b \in {1, 2} : Open(p, b)) \/ List(p) \/ Close(p)
        PROVE  UNCHANGED <<delivery_box, inventory, made, refused>>
    BY <1>7 DEF Open, List, Close
  <1>8. CASE UNCHANGED vars
    BY <1>1, <1>8 DEF vars
  <1>9. CASE Next
    BY <1>1, <1>2, <1>3, <1>4, <1>5, <1>6, <1>7, <1>9, BalancePutIn, BalancePutInRefused,
       BalanceTake, BalanceDrop, BalancePay DEF Next
  <1> QED BY <1>8, <1>9

\* Nothing is lost between inventories, send boxes and receivers' boxes, however
\* sending, cancelling, receiving and returning meet, and nothing doubled but once
\* for each refused 0x02.
THEOREM ConservedAlways == Spec => []Conserved
  <1> DEFINE Kept == BoxInv /\ Balance(delivery_box, inventory, made, refused)
  <1>1. Init => Kept
    BY BoxInit, BalanceInit
  <1>2. Kept /\ [Next]_vars => Kept'
    BY BoxStep, BalanceStep
  <1>3. Kept => Conserved
    BY ConservedNames
  <1> QED BY <1>1, <1>2, <1>3, PTL DEF Spec
=============================================================================
