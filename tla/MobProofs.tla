------------------------------ MODULE MobProofs ------------------------------
(***************************************************************************)
(* What Mob keeps for any characters, any bound on its states and rewards. *)
(* A turn of the state loop, a call of the controller and a handler are    *)
(* functions of the mob's record: lemmas say what each keeps, and one      *)
(* induction over the turns carries it through the loop.                   *)
(***************************************************************************)
EXTENDS Mob, SequenceTheorems, WellFoundedInduction, TLAPS

-----------------------------------------------------------------------------
(***************************************************************************)
(* Stacks of states.                                                       *)
(***************************************************************************)
\* t is s, or what is left of it when states are popped.
Below(t, s) ==
    /\ t \in Seq(Frames) /\ Len(t) <= Len(s)
    /\ \A i \in 1..Len(t) : t[i] = s[i]

\* How far above Depth a state can be pushed.
Rank(frame) == CASE frame = "Respawn" -> 3
                 [] frame = "Despawn" -> 2
                 [] frame \in {"Attack", "Death"} -> 1
                 [] OTHER -> 0

Placed(s) == \A i \in 1..Len(s) : i <= Depth + Rank(s[i])

Attacks(s) == \E i \in 1..Len(s) : s[i] = "Attack"

\* Nothing but the despawn and the respawn comes on top of a death.
Fallen == {"Death", "Despawn", "Respawn"}
Ordered(s) == \A i \in 1..Len(s) - 1 :
                 s[i] \in Fallen => s[i + 1] \in {"Despawn", "Respawn"}

LEMMA StackTop ==
  ASSUME NEW s \in Seq(Frames), s # <<>>
  PROVE  /\ Len(s) \in Nat /\ Len(s) >= 1
         /\ Last(s) = s[Len(s)] /\ Last(s) \in Frames
         /\ Below(Front(s), s) /\ Len(Front(s)) = Len(s) - 1
  <1>1. Len(s) \in Nat /\ Len(s) >= 1 /\ Last(s) = s[Len(s)] /\ Last(s) \in Frames
    BY DEF Last
  <1>2. \A i \in 1..Len(s) - 1 : s[i] \in Frames
    BY <1>1
  <1>3. /\ Front(s) \in Seq(Frames) /\ Len(Front(s)) = Len(s) - 1
        /\ \A i \in 1..Len(s) - 1 : Front(s)[i] = s[i]
    <2> DEFINE t == SubSeq(s, 1, Len(s) - 1)
    <2>1. /\ t \in Seq(Frames)
          /\ Len(t) = IF 1 <= Len(s) - 1 THEN (Len(s) - 1) - 1 + 1 ELSE 0
          /\ \A i \in 1..(Len(s) - 1) - 1 + 1 : t[i] = s[1 + i - 1]
      BY <1>1, <1>2, SubSeqProperties
    <2> HIDE DEF t
    <2>2. Len(t) = Len(s) - 1 /\ \A i \in 1..Len(s) - 1 : t[i] = s[i]
      <3> DEFINE n == Len(s)
      <3>1. n \in Nat /\ n >= 1
        BY <1>1
      <3> HIDE DEF n
      <3>2. (n - 1) - 1 + 1 = n - 1 /\ (1 <= n - 1 \/ n - 1 = 0)
        BY <3>1
      <3>3. \A i \in 1..n - 1 : 1 + i - 1 = i
        BY <3>1
      <3> USE DEF n
      <3> QED BY <2>1, <3>2, <3>3
    <2> QED BY <2>1, <2>2 DEF Front, t
  <1> QED BY <1>1, <1>3 DEF Below

\* What is popped leaves the rest as it was.
LEMMA SettledBelow ==
  ASSUME NEW s \in Seq(Frames)
  PROVE  Below(Settled(s), s) /\ Below(Interrupted(s), s) /\ Below(<<>>, s)
  <1>1. Below(s, s) /\ Below(<<>>, s)
    BY DEF Below
  <1> QED BY <1>1, StackTop DEF Settled, Interrupted

LEMMA BelowKeeps ==
  ASSUME NEW s \in Seq(Frames), NEW t, Below(t, s)
  PROVE  /\ t \in Seq(Frames) /\ Len(t) \in Nat /\ Len(t) <= Len(s)
         /\ Placed(s) => Placed(t)
         /\ Attacks(t) => Attacks(s)
         /\ Ordered(s) => Ordered(t)
  <1>1. t \in Seq(Frames) /\ Len(t) \in Nat /\ Len(s) \in Nat /\ Len(t) <= Len(s)
    BY DEF Below
  <1>2. \A i \in 1..Len(t) : i \in 1..Len(s) /\ t[i] = s[i]
    BY <1>1 DEF Below
  <1>3. Placed(s) => Placed(t)
    BY <1>2 DEF Placed
  <1>4. Attacks(t) => Attacks(s)
    BY <1>2 DEF Attacks
  <1>5. Ordered(s) => Ordered(t)
    <2>1. \A i \in 1..Len(t) - 1 :
            i \in 1..Len(s) - 1 /\ i \in 1..Len(t) /\ i + 1 \in 1..Len(t)
      BY <1>1
    <2> QED BY <1>2, <2>1 DEF Ordered
  <1> QED BY <1>1, <1>3, <1>4, <1>5

\* A state that is pushed.
LEMMA AppendKeeps ==
  ASSUME NEW s \in Seq(Frames), NEW frame \in Frames
  PROVE  LET new == Append(s, frame) IN
         /\ new \in Seq(Frames) /\ new # <<>> /\ Last(new) = frame
         /\ Len(new) = Len(s) + 1 /\ Front(new) = s
         /\ Placed(s) /\ Len(s) + 1 <= Depth + Rank(frame) => Placed(new)
         /\ Attacks(new) <=> frame = "Attack" \/ Attacks(s)
         /\ Ordered(s) /\ (s # <<>> /\ Last(s) \in Fallen =>
                              frame \in {"Despawn", "Respawn"}) => Ordered(new)
  <1> DEFINE new == Append(s, frame)
  <1>1. /\ new \in Seq(Frames) /\ new # <<>> /\ Len(new) = Len(s) + 1
        /\ Len(s) \in Nat /\ new[Len(s) + 1] = frame
        /\ \A i \in 1..Len(s) : new[i] = s[i]
    OBVIOUS
  <1>2. Last(new) = frame
    BY <1>1 DEF Last
  <1>3. Front(new) = s
    BY <1>1 DEF Front
  <1> HIDE DEF new
  <1>4. \A i \in 1..Len(new) : i \in 1..Len(s) \/ i = Len(s) + 1
    BY <1>1
  <1>5. Placed(s) /\ Len(s) + 1 <= Depth + Rank(frame) => Placed(new)
    BY <1>1, <1>4 DEF Placed
  <1>6. Attacks(new) <=> frame = "Attack" \/ Attacks(s)
    <2>1. 1..Len(s) \subseteq 1..Len(new) /\ Len(s) + 1 \in 1..Len(new)
      BY <1>1
    <2> QED BY <1>1, <1>4, <2>1 DEF Attacks
  <1>7. ASSUME Ordered(s), s # <<>> /\ Last(s) \in Fallen => frame \in {"Despawn", "Respawn"}
        PROVE  Ordered(new)
    <2> SUFFICES ASSUME NEW i \in 1..Len(new) - 1, new[i] \in Fallen
                 PROVE  new[i + 1] \in {"Despawn", "Respawn"}
      BY DEF Ordered
    <2>1. CASE i = Len(s)
      <3>1. s # <<>> /\ Last(s) = s[i] /\ new[i] = s[i] /\ new[i + 1] = frame
        BY <1>1, <2>1 DEF Last
      <3> QED BY <1>7, <3>1
    <2>2. CASE i # Len(s)
      <3>1. i \in 1..Len(s) - 1 /\ i \in 1..Len(s) /\ i + 1 \in 1..Len(s)
        BY <1>1, <2>2
      <3> QED BY <1>1, <1>7, <3>1 DEF Ordered
    <2> QED BY <2>1, <2>2
  <1> QED BY <1>1, <1>2, <1>3, <1>5, <1>6, <1>7 DEF new

-----------------------------------------------------------------------------
(***************************************************************************)
(* The loop of the tick.                                                   *)
(***************************************************************************)
\* A set of numbers has a least one.
LEMMA LeastNumber ==
  ASSUME NEW S \in SUBSET Nat, S # {}
  PROVE  \E a \in S : \A b \in S : a <= b
  <1> DEFINE Less == OpToRel(<, Nat)
  <1>1. PICK a \in S : \A b \in S : ~ (<<b, a>> \in Less)
    <2>1. IsWellFoundedOn(Less, Nat)
      BY NatLessThanWellFounded, Zenon
    <2> HIDE DEF Less
    <2> QED BY <2>1, WFMin
  <1>2. ASSUME NEW b \in S  PROVE  a <= b
    <2>1. a \in Nat /\ b \in Nat
      OBVIOUS
    <2>2. ~ (b < a)
      BY <1>1, <2>1 DEF OpToRel
    <2> QED BY <2>1, <2>2
  <1> QED BY <1>2

\* One more turn of the loop.
Turned(p, due) == IF p.more THEN UpdateTop(p.mob, due) ELSE p

TurnsFrom(m, due, n, f) ==
    f = [k \in 0..n |->
           IF k = 0 THEN {[mob |-> m, more |-> TRUE]}
           ELSE {Turned(before, k <= due) : before \in f[k - 1]}]

\* The turns are defined.
LEMMA TurnsExist ==
  ASSUME NEW m, NEW due, NEW n \in Nat
  PROVE  \E f : TurnsFrom(m, due, n, f)
  <1> DEFINE Start == {[mob |-> m, more |-> TRUE]}
             On(k, X) == {Turned(before, k <= due) : before \in X}
             Bad == {j \in Nat : ~ \E f : TurnsFrom(m, due, j, f)}
  <1>1. ASSUME Bad # {}  PROVE  FALSE
    <2>1. PICK j \in Bad : \A i \in Bad : j <= i
      BY <1>1, LeastNumber
    <2>2. CASE j = 0
      <3> DEFINE f == [k \in 0..0 |-> Start]
      <3>1. TurnsFrom(m, due, 0, f)
        BY DEF TurnsFrom
      <3> HIDE DEF f
      <3> QED BY <2>2, <3>1
    <2>3. CASE j # 0
      <3>1. j \in Nat /\ j - 1 \in Nat /\ j - 1 \notin Bad
        BY <2>1, <2>3
      <3>2. PICK f : TurnsFrom(m, due, j - 1, f)
        BY <3>1
      <3> DEFINE g == [k \in 0..j |-> IF k = j THEN On(j, f[j - 1]) ELSE f[k]]
      <3>3. \A k \in 0..j : k # j =>
              /\ k \in 0..j - 1
              /\ f[k] = IF k = 0 THEN Start ELSE On(k, f[k - 1])
        <4>1. \A k \in 0..j : k # j => k \in 0..j - 1
          BY <3>1
        <4>2. \A k \in 0..j - 1 : f[k] = IF k = 0 THEN Start ELSE On(k, f[k - 1])
          <5>1. f = [k \in 0..j - 1 |-> IF k = 0 THEN Start ELSE On(k, f[k - 1])]
            BY <3>2 DEF TurnsFrom
          <5> HIDE DEF Start, On
          <5> QED BY <5>1
        <4> QED BY <4>1, <4>2
      <3>4. ASSUME NEW k \in 0..j
            PROVE  g[k] = IF k = 0 THEN Start ELSE On(k, g[k - 1])
        <4>1. CASE k = 0
          BY <2>3, <3>3, <4>1
        <4>2. CASE k # 0
          <5>1. k - 1 \in 0..j /\ k - 1 # j
            BY <3>1, <4>2
          <5>2. g[k - 1] = f[k - 1]
            BY <5>1
          <5> QED BY <3>3, <4>2, <5>2
        <4> QED BY <4>1, <4>2
      <3>5. g = [k \in 0..j |-> IF k = 0 THEN Start ELSE On(k, g[k - 1])]
        <4>1. g = [k \in 0..j |-> g[k]]
          OBVIOUS
        <4> HIDE DEF g, On, Start
        <4> QED BY <3>4, <4>1, Zenon
      <3>6. TurnsFrom(m, due, j, g)
        BY <3>5 DEF TurnsFrom
      <3> HIDE DEF g
      <3> QED BY <3>6
    <2> QED BY <2>2, <2>3
  <1> QED BY <1>1

\* What holds of the mob before the first turn and is kept by each turn holds
\* of the mob after the last one.  S[k] is what holds after turn k.
LEMMA LoopInduction ==
  ASSUME NEW m, NEW due, Len(m.stack) \in Nat, NEW S,
         [mob |-> m, more |-> TRUE] \in S[0],
         \A k \in 0..Len(m.stack) : \A p \in S[k] : \A b \in BOOLEAN :
            Turned(p, b) \in S[k + 1],
         NEW after \in Looped(m, due)
  PROVE  \E p \in S[Len(m.stack) + 1] : after = p.mob
  <1> DEFINE n == Len(m.stack) + 1
             T == CHOOSE f : TurnsFrom(m, due, n, f)
  <1>1. n \in Nat
    OBVIOUS
  <1>2. Looped(m, due) = {last.mob : last \in T[n]}
    BY DEF Looped, TurnsFrom, Turned
  <1>3. TurnsFrom(m, due, n, T)
    BY <1>1, TurnsExist
  <1> DEFINE Bad == {k \in 0..n : ~ (T[k] \subseteq S[k])}
  <1> HIDE DEF T
  <1>4. ASSUME Bad # {}  PROVE  FALSE
    <2>1. PICK k \in Bad : \A i \in Bad : k <= i
      <3>1. Bad \subseteq Nat
        BY <1>1
      <3> HIDE DEF Bad
      <3> QED BY <1>4, <3>1, LeastNumber
    <2>2. CASE k = 0
      BY <1>1, <1>3, <2>1, <2>2 DEF TurnsFrom
    <2>3. CASE k # 0
      <3>1. k - 1 \in 0..Len(m.stack) /\ k - 1 \in 0..n /\ k - 1 \notin Bad /\ k - 1 + 1 = k
        BY <1>1, <2>1, <2>3
      <3>2. T[k] = {Turned(before, k <= due) : before \in T[k - 1]}
        BY <1>3, <2>1, <2>3 DEF TurnsFrom
      <3>3. ASSUME NEW p \in T[k - 1]  PROVE  Turned(p, k <= due) \in S[k]
        <4>1. p \in S[k - 1]
          BY <3>1
        <4>2. (k <= due) \in BOOLEAN
          OBVIOUS
        <4> QED BY <3>1, <4>1, <4>2
      <3>4. T[k] \subseteq S[k]
        BY <3>2, <3>3
      <3> QED BY <2>1, <3>4
    <2> QED BY <2>2, <2>3
  <1>5. T[n] \subseteq S[n]
    BY <1>1, <1>4
  <1> QED BY <1>2, <1>5
-----------------------------------------------------------------------------
(***************************************************************************)
(* Types, heights and absent characters: whatever the scripts do.          *)
(***************************************************************************)
Hates == {"none", "base", "active", "left"}
MobType ==
    [hp : BOOLEAN, gone : BOOLEAN, anim : {"none", "attack", "death"},
     stack : Seq(Frames), hate : [Char -> Hates],
     owner : Char \cup {None}, target : Char \cup {None}, timer : BOOLEAN,
     allow : BOOLEAN, queue : Nat, ticks : {"off", "on", "last", "always"}]

\* NobodyAbsent for a value of mob.
Refers(m) ==
    /\ \A c \in Char : m.hate[c] \in {"base", "active"} => c \in Here
    /\ m.owner # None => m.owner \in Here
    /\ m.target # None => m.target \in Here

\* A mob that has disengaged below another state has no target left.
Loose(m) == m.anim # "attack" /\ Attacks(m.stack) => m.target = None

Fine(m) == m \in MobType /\ Placed(m.stack) /\ Loose(m) /\ Refers(m)

\* Between two ticks an attack on top is an attack that goes on.
Settles(m) == Top(m) = "Attack" => m.anim = "attack"

LEMMA FineFields ==
  ASSUME NEW m, Fine(m)
  PROVE  /\ m \in MobType /\ m.stack \in Seq(Frames) /\ Len(m.stack) \in Nat
         /\ m.hp \in BOOLEAN /\ m.gone \in BOOLEAN /\ m.hate \in [Char -> Hates]
         /\ m.owner \in Char \cup {None} /\ m.target \in Char \cup {None}
         /\ Top(m) \in Frames \cup {"none"} /\ (Top(m) = "none" <=> m.stack = <<>>)
         /\ m.anim \in {"none", "attack", "death"} /\ m.timer \in BOOLEAN
         /\ m.queue \in Nat
  <1>1. m.stack \in Seq(Frames)
    BY DEF Fine, MobType
  <1>2. "none" \notin Frames
    BY DEF Frames
  <1> QED BY <1>1, <1>2, StackTop DEF Fine, MobType, Top

\* A mob that lost states, and refers to fewer characters, is still fine.
LEMMA FineLess ==
  ASSUME NEW m, Fine(m), NEW n \in MobType, Below(n.stack, m.stack),
         \A c \in Char : n.hate[c] \in {m.hate[c], "none", "left"},
         n.owner \in {m.owner, None}, n.target \in {m.target, None},
         n.anim = m.anim \/ n.target = None \/ n.stack = <<>>
  PROVE  Fine(n)
  <1>1. m.stack \in Seq(Frames)
    BY FineFields
  <1>2. Placed(n.stack) /\ (Attacks(n.stack) => Attacks(m.stack))
    BY <1>1, BelowKeeps DEF Fine
  <1>3. Loose(n)
    <2>1. CASE n.anim = m.anim
      BY <1>2, <2>1 DEF Fine, Loose
    <2>2. CASE n.target = None
      BY <2>2 DEF Loose
    <2>3. CASE n.stack = <<>>
      BY <2>3 DEF Loose, Attacks
    <2> QED BY <2>1, <2>2, <2>3
  <1>4. Refers(n)
    BY DEF Fine, Refers
  <1> QED BY <1>2, <1>3, <1>4 DEF Fine

LEMMA DisengagedFine ==
  ASSUME NEW m, Fine(m)
  PROVE  LET n == Disengaged(m) IN
         /\ Fine(n) /\ n.stack = m.stack /\ n.hp = m.hp /\ n.gone = m.gone
         /\ n.target = None /\ n.hate = NoHate /\ n.queue = m.queue
         /\ n.owner = None
  <1> DEFINE n == Disengaged(m)
  <1>1. m \in MobType /\ m.stack \in Seq(Frames) /\ Below(m.stack, m.stack)
    BY FineFields DEF Below
  <1>2. NoHate \in [Char -> Hates] /\ Idle \in BOOLEAN
    BY MobAssumption DEF NoHate, Hates
  <1>3. n \in MobType
    BY <1>1, <1>2 DEF Disengaged, MobType
  <1>4. /\ n.stack = m.stack /\ n.hp = m.hp /\ n.gone = m.gone /\ n.hate = NoHate
        /\ n.owner = None /\ n.target = None /\ n.queue = m.queue
    BY <1>1 DEF Disengaged, MobType
  <1> HIDE DEF n
  <1>5. Fine(n)
    <2>1. \A c \in Char : n.hate[c] = "none"
      BY <1>4 DEF NoHate
    <2> QED BY <1>1, <1>3, <1>4, <2>1, FineLess
  <1> QED BY <1>4, <1>5 DEF n

\* A state on top, other than an attack.
LEMMA PushFine ==
  ASSUME NEW m, Fine(m), NEW frame \in Frames \ {"Attack"},
         NEW s, Below(s, m.stack), Len(s) + 1 <= Depth + Rank(frame)
  PROVE  LET n == [m EXCEPT !.stack = Append(s, frame)] IN
         Fine(n) /\ Top(n) = frame /\ n.stack = Append(s, frame)
  <1> DEFINE new == Append(s, frame)
             n == [m EXCEPT !.stack = new]
  <1>1. /\ m \in MobType /\ m.stack \in Seq(Frames)
        /\ s \in Seq(Frames) /\ Placed(s) /\ (Attacks(s) => Attacks(m.stack))
    BY FineFields, BelowKeeps DEF Fine
  <1>2. /\ new \in Seq(Frames) /\ new # <<>> /\ Last(new) = frame /\ Placed(new)
        /\ Attacks(new) => Attacks(m.stack)
    BY <1>1, AppendKeeps
  <1> HIDE DEF new
  <1>3. n \in MobType
    BY <1>1, <1>2 DEF MobType
  <1>4. /\ n.stack = new /\ n.hate = m.hate /\ n.owner = m.owner
        /\ n.target = m.target /\ n.anim = m.anim
    BY <1>1 DEF MobType
  <1> HIDE DEF n
  <1>5. Fine(n)
    BY <1>2, <1>3, <1>4 DEF Fine, Loose, Refers
  <1>6. Top(n) = frame
    BY <1>2, <1>4 DEF Top
  <1> QED BY <1>4, <1>5, <1>6 DEF n, new
\* The state on top replaced.
LEMMA ReplacedTop ==
  ASSUME NEW s \in Seq(Frames), s # <<>>, NEW frame \in Frames
  PROVE  [s EXCEPT ![Len(s)] = frame] = Append(Front(s), frame)
  <1> DEFINE new == [s EXCEPT ![Len(s)] = frame]
             t == Front(s)
  <1>1. /\ Len(s) \in Nat /\ Len(s) >= 1 /\ t \in Seq(Frames) /\ Len(t) = Len(s) - 1
        /\ \A i \in 1..Len(s) - 1 : t[i] = s[i]
    BY StackTop DEF Below
  <1>2. new \in Seq(Frames) /\ Len(new) = Len(s)
    BY <1>1
  <1>3. \A i \in 1..Len(s) : new[i] = IF i = Len(s) THEN frame ELSE s[i]
    BY <1>1
  <1> HIDE DEF new, t
  <1>4. /\ Append(t, frame) \in Seq(Frames) /\ Len(Append(t, frame)) = Len(s)
        /\ \A i \in 1..Len(s) : Append(t, frame)[i] = IF i = Len(s) THEN frame ELSE t[i]
    BY <1>1
  <1>5. \A i \in 1..Len(s) : new[i] = Append(t, frame)[i]
    <2>1. \A i \in 1..Len(s) : i = Len(s) \/ i \in 1..Len(s) - 1
      BY <1>1
    <2> QED BY <1>1, <1>3, <1>4, <2>1
  <1> QED BY <1>2, <1>4, <1>5, SeqEqual DEF new, t

LEMMA AttackEndsFine ==
  ASSUME NEW m, Fine(m)
  PROVE  Fine(AttackEnds(m)) /\ AttackEnds(m).stack = m.stack
  BY DisengagedFine DEF AttackEnds

LEMMA SpawnedFine ==
  ASSUME NEW m, Fine(m)
  PROVE  LET n == Spawned(m) IN
         /\ Fine(n) /\ n.stack = <<>> /\ n.hp /\ ~n.gone /\ n.queue = m.queue
         /\ n.hate = NoHate /\ n.anim = "none" /\ n.owner = None
  <1> DEFINE n == Spawned(m)
  <1>1. m \in MobType /\ m.stack \in Seq(Frames)
    BY FineFields
  <1>2. NoHate \in [Char -> Hates] /\ Below(<<>>, m.stack) /\ <<>> \in Seq(Frames)
    BY <1>1, SettledBelow DEF NoHate, Hates
  <1>3. n \in MobType
    BY <1>1, <1>2 DEF Spawned, MobType
  <1>4. /\ n.stack = <<>> /\ n.hp /\ ~n.gone /\ n.hate = NoHate /\ n.anim = "none"
        /\ n.owner = None /\ n.target = m.target /\ n.queue = m.queue
    BY <1>1 DEF Spawned, MobType
  <1> HIDE DEF n
  <1>5. \A c \in Char : n.hate[c] = "none"
    BY <1>4 DEF NoHate
  <1>6. Fine(n)
    BY <1>2, <1>3, <1>4, <1>5, FineLess
  <1> QED BY <1>4, <1>6 DEF n

\* What a turn with the state on top leaves.
TurnFine(m, r) ==
    /\ r.more \in BOOLEAN /\ Fine(r.mob)
    /\ r.more => m.stack # <<>> /\ r.mob.stack = Front(m.stack)
    /\ ~r.more => Settles(r.mob)

LEMMA UpdateTopFine ==
  ASSUME NEW m, Fine(m), NEW due \in BOOLEAN
  PROVE  TurnFine(m, UpdateTop(m, due))
  <1>1. /\ m \in MobType /\ m.stack \in Seq(Frames) /\ Len(m.stack) \in Nat
        /\ Top(m) \in Frames \cup {"none"} /\ m.target \in Char \cup {None}
        /\ (Top(m) = "none" <=> m.stack = <<>>) /\ Depth \in Nat
    BY FineFields, MobAssumption
  <1>2. Top(m) # "Attack" => Settles(m)
    BY DEF Settles
  <1> DEFINE popped == [m EXCEPT !.stack = Front(m.stack)]
  <1>3. ASSUME m.stack # <<>>
        PROVE  /\ Last(m.stack) = Top(m) /\ Len(m.stack) <= Depth + Rank(Top(m))
               /\ Below(Front(m.stack), m.stack) /\ Len(Front(m.stack)) = Len(m.stack) - 1
               /\ Fine(popped) /\ popped.stack = Front(m.stack)
    <2>1. /\ Len(m.stack) \in 1..Len(m.stack) /\ Top(m) = m.stack[Len(m.stack)]
          /\ Below(Front(m.stack), m.stack) /\ Len(Front(m.stack)) = Len(m.stack) - 1
          /\ Last(m.stack) = Top(m)
      BY <1>1, <1>3, StackTop DEF Top
    <2>2. Len(m.stack) <= Depth + Rank(Top(m))
      BY <2>1 DEF Fine, Placed
    <2>3. Front(m.stack) \in Seq(Frames)
      BY <2>1 DEF Below
    <2>4. /\ popped \in MobType /\ popped.stack = Front(m.stack) /\ popped.hate = m.hate
          /\ popped.owner = m.owner /\ popped.target = m.target /\ popped.anim = m.anim
      BY <1>1, <2>3 DEF MobType
    <2> HIDE DEF popped
    <2> QED BY <2>1, <2>2, <2>4, FineLess
  <1>a. ASSUME NEW x, Fine(x), Settles(x)  PROVE  TurnFine(m, Stops(x))
    BY <1>a DEF TurnFine, Stops
  <1>b. m.stack # <<>> => TurnFine(m, Pops(m))
    BY <1>3 DEF TurnFine, Pops
  <1>4. CASE Top(m) = "none"
    BY <1>1, <1>2, <1>4, <1>a DEF UpdateTop, Frames
  <1>5. CASE Top(m) = "Attack"
    <2>1. UpdateTop(m, due) = UpdateAttack(m)
      BY <1>5 DEF UpdateTop
    <2>2. CASE m.target \in Alive
      <3>1. m.anim = "attack"
        <4>1. m.target # None
          BY <2>2, MobAssumption DEF Alive
        <4>2. Attacks(m.stack)
          <5>1. m.stack # <<>> /\ Len(m.stack) \in 1..Len(m.stack)
            BY <1>1, <1>5, StackTop
          <5>2. m.stack[Len(m.stack)] = "Attack"
            BY <1>1, <1>5, <5>1, StackTop DEF Top
          <5> QED BY <5>1, <5>2 DEF Attacks
        <4> QED BY <4>1, <4>2 DEF Fine, Loose
      <3> QED BY <1>a, <2>1, <2>2, <3>1 DEF UpdateAttack, Settles
    <2>3. CASE m.target \notin Alive
      <3>1. UpdateAttack(m) = [mob |-> AttackEnds(popped), more |-> TRUE]
        BY <2>3 DEF UpdateAttack
      <3>2. m.stack # <<>>
        BY <1>1, <1>5
      <3>3. Fine(AttackEnds(popped)) /\ AttackEnds(popped).stack = Front(m.stack)
        BY <1>3, <3>2, AttackEndsFine
      <3> QED BY <2>1, <3>1, <3>2, <3>3 DEF TurnFine
    <2> QED BY <2>2, <2>3
  <1>6. CASE Top(m) \in {"Magic", "Cast"}
    <2>1. UpdateTop(m, due) = UpdateMagic(m, due) /\ m.stack # <<>>
      BY <1>1, <1>6 DEF UpdateTop
    <2>2. CASE Top(m) = "Magic" /\ due
      <3> DEFINE n == [m EXCEPT !.stack = Append(Front(m.stack), "Cast")]
      <3>1. UpdateMagic(m, due) = Stops([m EXCEPT !.stack[Len(m.stack)] = "Cast"])
        BY <2>2 DEF UpdateMagic
      <3>2. [m EXCEPT !.stack[Len(m.stack)] = "Cast"] = n
        <4>1. [m.stack EXCEPT ![Len(m.stack)] = "Cast"] = Append(Front(m.stack), "Cast")
          BY <1>1, <2>1, ReplacedTop DEF Frames
        <4> QED BY <1>1, <4>1 DEF MobType
      <3>3. Len(Front(m.stack)) + 1 <= Depth + Rank("Cast")
        BY <1>1, <1>3, <2>1, <2>2 DEF Rank
      <3>4. Fine(n) /\ Top(n) = "Cast"
        BY <1>3, <2>1, <3>3, PushFine DEF Frames
      <3> HIDE DEF n
      <3> QED BY <1>a, <2>1, <3>1, <3>2, <3>4 DEF Settles
    <2>3. CASE Top(m) = "Cast" /\ due
      BY <1>b, <2>1, <2>3 DEF UpdateMagic
    <2>4. CASE ~due
      BY <1>2, <1>6, <1>a, <2>1, <2>4 DEF UpdateMagic
    <2> QED BY <1>6, <2>2, <2>3, <2>4
  <1>7. CASE Top(m) \in {"Stun", "Wait"}
    <2>1. UpdateTop(m, due) = UpdateInactive(m, due) /\ m.stack # <<>>
      BY <1>1, <1>7 DEF UpdateTop
    <2> QED BY <1>2, <1>7, <1>a, <1>b, <2>1 DEF UpdateInactive
  <1>8. CASE Top(m) = "Death"
    <2>1. UpdateTop(m, due) = UpdateDeath(m, due) /\ m.stack # <<>>
      BY <1>1, <1>8 DEF UpdateTop
    <2> DEFINE n == [m EXCEPT !.stack = Append(Front(m.stack), "Despawn")]
    <2>2. UpdateDeath(m, due) \in {Stops(n), Stops(m)}
      BY DEF UpdateDeath
    <2>3. Len(Front(m.stack)) + 1 <= Depth + Rank("Despawn")
      BY <1>1, <1>3, <1>8, <2>1 DEF Rank
    <2>4. Fine(n) /\ Top(n) = "Despawn"
      BY <1>3, <2>1, <2>3, PushFine DEF Frames
    <2> HIDE DEF n
    <2> QED BY <1>2, <1>8, <1>a, <2>1, <2>2, <2>4 DEF Settles
  <1>9. CASE Top(m) = "Despawn"
    <2>1. UpdateTop(m, due) = UpdateDespawn(m, due) /\ m.stack # <<>>
      BY <1>1, <1>9 DEF UpdateTop
    <2> DEFINE pushed == [m EXCEPT !.stack = Append(Settled(m.stack), "Respawn")]
               n == [pushed EXCEPT !.gone = TRUE, !.hate = NoHate]
    <2>2. UpdateDespawn(m, due) \in {Stops(n), Stops(m)}
      BY DEF UpdateDespawn, Push
    <2>3. Len(Settled(m.stack)) + 1 <= Depth + Rank("Respawn") /\ Below(Settled(m.stack), m.stack)
      <3>1. Below(Settled(m.stack), m.stack)
        BY <1>1, SettledBelow
      <3>2. Len(Settled(m.stack)) \in Nat /\ Len(Settled(m.stack)) <= Len(m.stack)
        BY <1>1, <3>1, BelowKeeps
      <3> QED BY <1>1, <1>3, <1>9, <2>1, <3>1, <3>2 DEF Rank
    <2>4. Fine(pushed) /\ Top(pushed) = "Respawn"
      BY <2>3, PushFine DEF Frames
    <2> HIDE DEF pushed
    <2>5. pushed \in MobType /\ pushed.stack \in Seq(Frames) /\ NoHate \in [Char -> Hates]
      BY <2>4, FineFields DEF NoHate, Hates
    <2>6. /\ n \in MobType /\ n.stack = pushed.stack /\ n.hate = NoHate
          /\ n.owner = pushed.owner /\ n.target = pushed.target /\ n.anim = pushed.anim
      BY <2>5 DEF MobType
    <2> HIDE DEF n
    <2>7. Fine(n)
      <3>1. \A c \in Char : n.hate[c] = "none"
        BY <2>6 DEF NoHate
      <3>2. Below(n.stack, pushed.stack)
        BY <2>5, <2>6 DEF Below
      <3> QED BY <2>4, <2>6, <3>1, <3>2, FineLess
    <2>8. Settles(n)
      BY <2>4, <2>6 DEF Settles, Top
    <2> QED BY <1>2, <1>9, <1>a, <2>1, <2>2, <2>7, <2>8
  <1>10. CASE Top(m) = "Respawn"
    <2>1. UpdateTop(m, due) = UpdateRespawn(m, due)
      BY <1>10 DEF UpdateTop
    <2>2. UpdateRespawn(m, due) \in {Stops(Spawned(m)), Stops(m)}
      BY DEF UpdateRespawn
    <2>3. Fine(Spawned(m)) /\ Settles(Spawned(m))
      BY SpawnedFine DEF Settles, Top
    <2> QED BY <1>2, <1>10, <1>a, <2>1, <2>2, <2>3
  <1> QED BY <1>1, <1>4, <1>5, <1>6, <1>7, <1>8, <1>9, <1>10 DEF Frames
-----------------------------------------------------------------------------
\* A turn is a mob and whether the loop goes on.
LEMMA UpdateTopRecord ==
  ASSUME NEW m, Fine(m), NEW due
  PROVE  LET r == UpdateTop(m, due) IN r = [mob |-> r.mob, more |-> r.more]
  <1>1. Top(m) \in Frames \cup {"none"}
    BY FineFields
  <1> QED BY <1>1 DEF Frames, UpdateTop, UpdateAttack, UpdateMagic, UpdateInactive,
                      UpdateDeath, UpdateDespawn, UpdateRespawn, Stops, Pops

\* Entries that are erased.
LEMMA WithoutFine ==
  ASSUME NEW m, Fine(m), NEW who
  PROVE  LET n == Without(m, who) IN
         /\ Fine(n) /\ n.stack = m.stack /\ n.anim = m.anim /\ n.owner = m.owner
         /\ n.timer = m.timer /\ n.hp = m.hp /\ n.gone = m.gone /\ n.target = m.target
         /\ n.queue = m.queue
         /\ \A c \in Char : n.hate[c] = IF c \in who THEN "none" ELSE m.hate[c]
  <1> DEFINE h == [c \in Char |-> IF c \in who THEN "none" ELSE m.hate[c]]
             n == [m EXCEPT !.hate = h]
  <1>1. m \in MobType /\ m.stack \in Seq(Frames) /\ m.hate \in [Char -> Hates]
    BY FineFields
  <1>2. h \in [Char -> Hates] /\ \A c \in Char : h[c] \in {m.hate[c], "none"}
    BY <1>1 DEF Hates
  <1>3. \A c \in Char : h[c] = IF c \in who THEN "none" ELSE m.hate[c]
    OBVIOUS
  <1> HIDE DEF h
  <1>4. /\ n \in MobType /\ n.stack = m.stack /\ n.anim = m.anim /\ n.owner = m.owner
        /\ n.target = m.target /\ n.timer = m.timer /\ n.hp = m.hp /\ n.gone = m.gone
        /\ n.hate = h /\ n.queue = m.queue
    BY <1>1, <1>2 DEF MobType
  <1> HIDE DEF n
  <1>5. Fine(n)
    <2>1. Below(n.stack, m.stack)
      BY <1>1, <1>4 DEF Below
    <2> QED BY <1>2, <1>4, <2>1, FineLess
  <1>6. n = Without(m, who)
    BY DEF n, h, Without
  <1> QED BY <1>3, <1>4, <1>5, <1>6, Zenon

\* A mob that does not fight starts to, or cannot.
LEMMA EngagedFine ==
  ASSUME NEW m, Fine(m), Settles(m), m.anim # "attack", NEW c \in Char
  PROVE  Fine(Engaged(m, c))
  <1>1. /\ m \in MobType /\ m.stack \in Seq(Frames) /\ Len(m.stack) \in Nat
        /\ (Top(m) = "none" <=> m.stack = <<>>) /\ Depth \in Nat
    BY FineFields, MobAssumption
  <1>2. Below(Settled(m.stack), m.stack)
    BY <1>1, SettledBelow
  <1>3. CASE ~CanChange(m) /\ Top(m) # "Cast"
    BY <1>3 DEF Engaged
  <1>4. CASE (CanChange(m) \/ Top(m) = "Cast") /\ c \notin Alive
    <2> DEFINE n == [m EXCEPT !.stack = Settled(@), !.target = None]
    <2>1. Engaged(m, c) = n
      BY <1>4 DEF Engaged
    <2>2. Settled(m.stack) \in Seq(Frames)
      BY <1>2 DEF Below
    <2>3. /\ n \in MobType /\ n.stack = Settled(m.stack) /\ n.hate = m.hate
          /\ n.owner = m.owner /\ n.target = None
      BY <1>1, <2>2 DEF MobType
    <2> HIDE DEF n
    <2>4. Fine(n)
      BY <1>2, <2>3, FineLess
    <2> QED BY <2>1, <2>4
  <1>5. CASE (CanChange(m) \/ Top(m) = "Cast") /\ c \in Alive
    <2> DEFINE s == Settled(m.stack)
               new == Append(s, "Attack")
               n == [[m EXCEPT !.stack = new] EXCEPT !.anim = "attack", !.target = c]
    <2>1. Engaged(m, c) = n
      BY <1>5 DEF Engaged, Push
    <2>2. Top(m) \in {"none", "Wait", "Cast"}
      BY <1>5 DEF CanChange, Settles
    <2>3. s \in Seq(Frames) /\ Len(s) \in Nat /\ Placed(s) /\ Len(s) <= Len(m.stack)
      BY <1>1, <1>2, BelowKeeps DEF Fine
    <2>4. Len(s) + 1 <= Depth + Rank("Attack")
      <3>1. CASE Top(m) = "none"
        BY <1>1, <2>3, <3>1 DEF Rank
      <3>2. CASE Top(m) # "none"
        <4>1. Len(m.stack) \in 1..Len(m.stack) /\ Top(m) = m.stack[Len(m.stack)]
          BY <1>1, <3>2, StackTop DEF Top
        <4>2. Len(m.stack) <= Depth + Rank(Top(m))
          BY <4>1 DEF Fine, Placed
        <4>3. Rank(Top(m)) = 0 /\ Rank("Attack") = 1
          BY <2>2, <3>2 DEF Rank
        <4> HIDE DEF s
        <4> QED BY <1>1, <2>3, <4>2, <4>3
      <3> QED BY <3>1, <3>2
    <2> HIDE DEF s
    <2>5. new \in Seq(Frames) /\ Placed(new)
      BY <2>3, <2>4, AppendKeeps DEF Frames
    <2> HIDE DEF new
    <2>6. /\ n \in MobType /\ n.stack = new /\ n.hate = m.hate
          /\ n.owner = m.owner /\ n.target = c /\ n.anim = "attack"
      BY <1>1, <2>5 DEF MobType
    <2> HIDE DEF n
    <2>7. c \in Here
      BY <1>5 DEF Alive, Here
    <2>8. Fine(n)
      BY <2>5, <2>6, <2>7 DEF Fine, Loose, Refers
    <2> QED BY <2>1, <2>8
  <1> QED BY <1>3, <1>4, <1>5

\* Despawning, of a mob on whose top nothing of it is.
LEMMA DespawningFine ==
  ASSUME NEW m, Fine(m)
  PROVE  /\ Fine(Despawning(m))
         /\ Despawning(m) # m => Top(Despawning(m)) = "Despawn"
         /\ Settles(m) => Settles(Despawning(m))
  <1>1. CASE Top(m) \in {"Despawn", "Respawn"}
    BY <1>1 DEF Despawning
  <1>2. CASE Top(m) \notin {"Despawn", "Respawn"}
    <2>1. /\ m.stack \in Seq(Frames) /\ Len(m.stack) \in Nat /\ Depth \in Nat
          /\ Top(m) \in Frames \cup {"none"} /\ (Top(m) = "none" <=> m.stack = <<>>)
      BY FineFields, MobAssumption
    <2>2. /\ Below(Settled(m.stack), m.stack) /\ Len(Settled(m.stack)) \in Nat
          /\ Len(Settled(m.stack)) <= Len(m.stack)
      BY <2>1, SettledBelow, BelowKeeps
    <2>3. Len(Settled(m.stack)) + 1 <= Depth + Rank("Despawn")
      <3>1. CASE m.stack = <<>>
        BY <2>1, <2>2, <3>1 DEF Rank
      <3>2. CASE m.stack # <<>>
        <4>1. Len(m.stack) \in 1..Len(m.stack) /\ Top(m) = m.stack[Len(m.stack)]
          BY <2>1, <3>2, StackTop DEF Top
        <4>2. Len(m.stack) <= Depth + Rank(Top(m))
          BY <4>1 DEF Fine, Placed
        <4>3. Rank(Top(m)) \in {0, 1} /\ Rank("Despawn") = 2
          BY <1>2 DEF Rank
        <4> QED BY <2>1, <2>2, <4>2, <4>3
      <3> QED BY <3>1, <3>2
    <2>4. Despawning(m) = [m EXCEPT !.stack = Append(Settled(m.stack), "Despawn")]
      BY <1>2 DEF Despawning, Push
    <2>5. Fine(Despawning(m)) /\ Top(Despawning(m)) = "Despawn"
      BY <2>2, <2>3, <2>4, PushFine DEF Frames
    <2> QED BY <2>5 DEF Settles
  <1> QED BY <1>1, <1>2

LEMMA RoamFine ==
  ASSUME NEW m, Fine(m), Settles(m), m.anim # "attack", NEW idle,
         NEW n \in Roam(m, idle)
  PROVE  Fine(n)
  <1> DEFINE found == Hated(m) \cap Here
             w == Without(m, Hated(m))
  <1>1. \A who : /\ Fine(Without(m, who)) /\ Settles(Without(m, who))
                 /\ Without(m, who).anim # "attack"
    BY WithoutFine DEF Settles, Top
  <1>2. CASE found # {}
    <2>1. PICK c \in found, who \in SUBSET (Hated(m) \ Here) :
             n = Engaged(Without(m, who), c)
      BY <1>2 DEF Roam
    <2>2. c \in Char
      BY <2>1 DEF Hated
    <2> QED BY <1>1, <2>1, <2>2, EngagedFine
  <1>3. CASE found = {} /\ w.owner # None
    <2> DEFINE x == [w EXCEPT !.hate[w.owner] = "base"]
    <2>1. n = Engaged(x, w.owner)
      BY <1>3 DEF Roam
    <2>2. Fine(w) /\ Settles(w) /\ w.anim # "attack"
      BY <1>1
    <2> HIDE DEF w
    <2>3. /\ w \in MobType /\ w.owner \in Char /\ w.hate \in [Char -> Hates]
          /\ w.owner \in Here
      BY <1>3, <2>2, FineFields DEF Fine, Refers
    <2>4. [w.hate EXCEPT ![w.owner] = "base"] \in [Char -> Hates]
      BY <2>3 DEF Hates
    <2>5. /\ x \in MobType /\ x.stack = w.stack /\ x.anim = w.anim
          /\ x.owner = w.owner /\ x.target = w.target
          /\ x.hate = [w.hate EXCEPT ![w.owner] = "base"]
      BY <2>3, <2>4 DEF MobType
    <2> HIDE DEF x
    <2>6. Fine(x)
      <3>1. \A c \in Char : x.hate[c] \in {"base", "active"} =>
               c = w.owner \/ w.hate[c] \in {"base", "active"}
        BY <2>3, <2>5
      <3> QED BY <2>2, <2>3, <2>5, <3>1 DEF Fine, Loose, Refers
    <2>7. Settles(x) /\ x.anim # "attack"
      BY <2>2, <2>5 DEF Settles, Top
    <2> QED BY <2>1, <2>3, <2>6, <2>7, EngagedFine
  <1>4. CASE found = {} /\ w.owner = None
    <2>1. n \in {Despawning(w), w}
      BY <1>4 DEF Roam
    <2> QED BY <1>1, <2>1, DespawningFine
  <1> QED BY <1>2, <1>3, <1>4

LEMMA CombatFine ==
  ASSUME NEW m, Fine(m), m.anim = "attack", NEW lost, NEW cast,
         NEW n \in Combat(m, lost, cast)
  PROVE  Fine(n)
  <1> DEFINE able == Alive \ lost
             fought == Hated(m) \cap able
  <1>1. PICK x : /\ Fine(x)
                 /\ n = IF cast /\ x.target # None /\ CanChange(x) /\ Len(x.stack) < Depth
                        THEN Push(x, "Magic") ELSE x
    <2>1. CASE fought # {}
      <3> DEFINE May(x) == IF cast /\ x.target # None /\ CanChange(x) /\ Len(x.stack) < Depth
                           THEN Push(x, "Magic") ELSE x
                 After == {[Without(m, passed) EXCEPT !.target = c] :
                             c \in fought, passed \in SUBSET (Hated(m) \ able)}
      <3>0. n \in {May(x) : x \in After}
        BY <2>1 DEF Combat
      <3> HIDE DEF May
      <3>10. PICK y \in After : n = May(y)
        BY <3>0
      <3>11. PICK c \in fought, passed \in SUBSET (Hated(m) \ able) :
              y = [Without(m, passed) EXCEPT !.target = c]
        BY <3>10
      <3>1. n = May([Without(m, passed) EXCEPT !.target = c])
        BY <3>10, <3>11
      <3> HIDE DEF After
      <3> USE DEF May
      <3> DEFINE w == Without(m, passed)
                 x == [w EXCEPT !.target = c]
      <3>2. Fine(w) /\ w.anim = "attack"
        BY WithoutFine
      <3>3. c \in Char /\ c \in Here
        BY <3>11 DEF Alive, Here
      <3> HIDE DEF w
      <3>4. w \in MobType
        BY <3>2, FineFields
      <3>5. /\ x \in MobType /\ x.stack = w.stack /\ x.hate = w.hate
            /\ x.owner = w.owner /\ x.target = c /\ x.anim = w.anim
        BY <3>3, <3>4 DEF MobType
      <3>6. n = IF cast /\ x.target # None /\ CanChange(x) /\ Len(x.stack) < Depth
                THEN Push(x, "Magic") ELSE x
        BY <3>1 DEF w
      <3> HIDE DEF x
      <3>7. Fine(x)
        BY <3>2, <3>3, <3>5 DEF Fine, Loose, Refers
      <3> QED BY <3>6, <3>7
    <2>2. CASE fought = {} /\ Hated(m) \cap Here = {} /\ m.target \in able
      <3>1. LET x == Without(m, Hated(m)) IN
            n = IF cast /\ x.target # None /\ CanChange(x) /\ Len(x.stack) < Depth
                THEN Push(x, "Magic") ELSE x
        BY <2>2 DEF Combat
      <3> QED BY <3>1, WithoutFine
    <2>3. CASE fought = {} /\ ~(Hated(m) \cap Here = {} /\ m.target \in able)
      <3>1. LET x == Disengaged(m) IN
            n = IF cast /\ x.target # None /\ CanChange(x) /\ Len(x.stack) < Depth
                THEN Push(x, "Magic") ELSE x
        BY <2>3 DEF Combat
      <3> QED BY <3>1, DisengagedFine
    <2> QED BY <2>1, <2>2, <2>3
  <1>2. CASE n = x
    BY <1>1, <1>2
  <1>3. CASE Len(x.stack) < Depth /\ n = Push(x, "Magic")
    <2>1. x.stack \in Seq(Frames) /\ Len(x.stack) \in Nat /\ Depth \in Nat
      BY <1>1, FineFields, MobAssumption
    <2>2. /\ Below(Settled(x.stack), x.stack) /\ Len(Settled(x.stack)) \in Nat
          /\ Len(Settled(x.stack)) <= Len(x.stack)
      BY <2>1, SettledBelow, BelowKeeps
    <2>3. Len(Settled(x.stack)) + 1 <= Depth + Rank("Magic")
      BY <1>3, <2>1, <2>2 DEF Rank
    <2> QED BY SMTT(20), <1>1, <1>3, <2>2, <2>3, PushFine DEF Push, Frames
  <1> QED BY <1>1, <1>2, <1>3

LEMMA ControlledFine ==
  ASSUME NEW m, Fine(m), Settles(m), NEW idle, NEW lost, NEW cast,
         NEW n \in Controlled(m, idle, lost, cast)
  PROVE  Fine(n)
  BY RoamFine, CombatFine DEF Controlled

\* The loop ends with a state that goes on.
LEMMA LoopedFine ==
  ASSUME NEW m, Fine(m), NEW due, NEW after \in Looped(m, due)
  PROVE  Fine(after) /\ Settles(after)
  <1> DEFINE L == Len(m.stack)
             Kept(k) == {p \in [mob : MobType, more : BOOLEAN] :
                           /\ Fine(p.mob)
                           /\ p.more => k + Len(p.mob.stack) <= L
                           /\ ~p.more => Settles(p.mob)}
             S == [k \in Nat |-> Kept(k)]
  <1>1. L \in Nat /\ m \in MobType
    BY FineFields
  <1>2. [mob |-> m, more |-> TRUE] \in S[0]
    BY <1>1
  <1>3. ASSUME NEW k \in 0..L, NEW p \in S[k], NEW b \in BOOLEAN
        PROVE  Turned(p, b) \in S[k + 1]
    <2>1. /\ p \in [mob : MobType, more : BOOLEAN] /\ Fine(p.mob)
          /\ p.more => k + Len(p.mob.stack) <= L
          /\ ~p.more => Settles(p.mob)
      OBVIOUS
    <2> DEFINE r == Turned(p, b)
    <2>2. /\ r \in [mob : MobType, more : BOOLEAN] /\ Fine(r.mob)
          /\ r.more => k + 1 + Len(r.mob.stack) <= L
          /\ ~r.more => Settles(r.mob)
      <3>1. CASE ~p.more
        BY <2>1, <3>1 DEF Turned
      <3>2. CASE p.more
        <4>1. r = UpdateTop(p.mob, b)
          BY <3>2 DEF Turned
        <4>2. TurnFine(p.mob, UpdateTop(p.mob, b))
          BY <2>1, UpdateTopFine
        <4> HIDE DEF r
        <4>3. r.mob \in MobType /\ r = [mob |-> r.mob, more |-> r.more]
          BY <2>1, <4>1, <4>2, UpdateTopRecord, FineFields DEF TurnFine
        <4>4. r.more => k + 1 + Len(r.mob.stack) <= L
          <5> SUFFICES ASSUME r.more PROVE k + 1 + Len(r.mob.stack) <= L
            OBVIOUS
          <5>1. p.mob.stack # <<>> /\ r.mob.stack = Front(p.mob.stack)
            BY <4>1, <4>2 DEF TurnFine
          <5>2. p.mob.stack \in Seq(Frames)
            BY <2>1, FineFields
          <5>3. Len(p.mob.stack) \in Nat /\ Len(r.mob.stack) = Len(p.mob.stack) - 1
            BY <5>1, <5>2, StackTop
          <5>4. k + Len(p.mob.stack) <= L
            BY <2>1, <3>2
          <5> DEFINE a == Len(p.mob.stack)
                     z == Len(r.mob.stack)
          <5>5. k \in Nat /\ a \in Nat /\ z = a - 1 /\ k + a <= L
            BY <1>1, <5>3, <5>4
          <5> HIDE DEF a, z, L
          <5>6. k + 1 + z <= L
            BY <1>1, <5>5
          <5> QED BY <5>6 DEF z
        <4> QED BY <4>1, <4>2, <4>3, <4>4 DEF TurnFine
      <3> QED BY <3>1, <3>2
    <2> HIDE DEF r
    <2>3. k + 1 \in Nat
      OBVIOUS
    <2>4. r \in S[k + 1]
      BY <2>2, <2>3
    <2> QED BY <2>4 DEF r
  <1> HIDE DEF S
  <1>4. PICK p \in S[L + 1] : after = p.mob
    BY <1>1, <1>2, <1>3, LoopInduction
  <1>5. /\ Fine(p.mob) /\ (p.more => L + 1 + Len(p.mob.stack) <= L)
        /\ (~p.more => Settles(p.mob))
    <2>1. L + 1 \in Nat
      BY <1>1
    <2>2. S[L + 1] = Kept(L + 1)
      BY <2>1 DEF S
    <2> QED BY <1>4, <2>2
  <1>6. ~p.more
    <2> DEFINE z == Len(p.mob.stack)
    <2>1. z \in Nat /\ (p.more => L + 1 + z <= L)
      BY <1>5, FineFields
    <2> HIDE DEF L, z
    <2>2. ~(L + 1 + z <= L)
      BY <1>1, <2>1
    <2> QED BY <2>1, <2>2
  <1> QED BY <1>4, <1>5, <1>6
-----------------------------------------------------------------------------
(***************************************************************************)
(* Every step keeps them.                                                  *)
(***************************************************************************)
\* Die leaves a corpse.
LEMMA DiedFine ==
  ASSUME NEW m, Fine(m)
  PROVE  LET n == Died(m) IN
         /\ Fine(n) /\ Settles(n) /\ n.stack = <<"Death">> /\ n.hate = NoHate
         /\ n.hp = m.hp /\ n.gone = m.gone /\ (~m.hp => n.owner = m.owner)
  <1> DEFINE h == [m EXCEPT !.hate = NoHate]
             x == [h EXCEPT !.stack = <<>>]
             y == Cleared(h)
             n == [y EXCEPT !.stack = <<"Death">>, !.anim = "death", !.target = None,
                            !.queue = @ + 1]
  <1>1. m \in MobType /\ m.stack \in Seq(Frames) /\ NoHate \in [Char -> Hates]
    BY FineFields DEF NoHate, Hates
  <1>2. /\ h \in MobType /\ h.stack = m.stack /\ x \in MobType /\ x.stack = <<>>
        /\ x.hate = NoHate /\ x.owner = m.owner /\ x.target = m.target /\ x.anim = m.anim
        /\ x.hp = m.hp /\ x.gone = m.gone
    <2>1. /\ h \in MobType /\ h.stack = m.stack /\ h.hate = NoHate /\ h.owner = m.owner
          /\ h.target = m.target /\ h.anim = m.anim /\ h.hp = m.hp /\ h.gone = m.gone
      BY <1>1 DEF MobType
    <2> HIDE DEF h
    <2>2. <<>> \in Seq(Frames)
      OBVIOUS
    <2>3. /\ x \in MobType /\ x.stack = <<>> /\ x.hate = h.hate /\ x.owner = h.owner
          /\ x.target = h.target /\ x.anim = h.anim /\ x.hp = h.hp /\ x.gone = h.gone
      BY <2>1, <2>2 DEF MobType
    <2> HIDE DEF x
    <2> QED BY <2>1, <2>3
  <1>3. y \in {AttackEnds(x), x}
    BY DEF Cleared
  <1>4. Died(m) = n
    BY DEF Died
  <1> HIDE DEF h, x, y
  <1>5. Fine(x)
    <2>1. \A c \in Char : x.hate[c] = "none"
      BY <1>2 DEF NoHate
    <2>2. Below(x.stack, m.stack)
      BY <1>1, <1>2, SettledBelow
    <2> QED BY <1>2, <2>1, <2>2, FineLess
  <1>6. /\ Fine(y) /\ y.stack = <<>> /\ y.hate = NoHate /\ y.hp = m.hp /\ y.gone = m.gone
        /\ ~m.hp => y.owner = m.owner
    BY <1>2, <1>3, <1>5, AttackEndsFine, DisengagedFine DEF AttackEnds, IsDead
  <1>7. y \in MobType /\ <<"Death">> \in Seq(Frames) /\ "Death" \in Frames
    BY <1>6, FineFields DEF Frames
  <1>8. /\ n \in MobType /\ n.stack = <<"Death">> /\ n.hate = y.hate /\ n.owner = y.owner
        /\ n.target = None /\ n.hp = y.hp /\ n.gone = y.gone
    <2> DEFINE d == <<"Death">>
    <2>1. d \in Seq(Frames) /\ y.queue + 1 \in Nat
      BY <1>7 DEF MobType
    <2> HIDE DEF d
    <2>2. n = [y EXCEPT !.stack = d, !.anim = "death", !.target = None, !.queue = @ + 1]
      BY DEF d
    <2>3. /\ n.stack = d /\ n.hate = y.hate /\ n.owner = y.owner
          /\ n.target = None /\ n.hp = y.hp /\ n.gone = y.gone
      BY <1>7, <2>2 DEF MobType
    <2>4. n \in MobType
      BY <1>7, <2>1, <2>2 DEF MobType
    <2> QED BY <2>3, <2>4 DEF d
  <1> HIDE DEF n
  <1>9. Placed(n.stack) /\ Top(n) = "Death"
    <2>1. <<"Death">> = Append(<<>>, "Death") /\ <<>> \in Seq(Frames) /\ Len(<<>>) = 0
      OBVIOUS
    <2>2. Placed(<<>>) /\ Len(<<>>) + 1 <= Depth + Rank("Death") /\ Depth \in Nat
      BY MobAssumption DEF Placed, Rank
    <2>3. Placed(<<"Death">>) /\ Last(<<"Death">>) = "Death" /\ <<"Death">> # <<>>
      BY <1>7, <2>1, <2>2, AppendKeeps
    <2> QED BY <1>8, <2>3 DEF Top
  <1>10. Fine(n) /\ Settles(n)
    BY <1>6, <1>8, <1>9 DEF Fine, Loose, Refers, Settles
  <1> QED BY <1>4, <1>6, <1>8, <1>10

FineInv == Fine(mob) /\ Settles(mob) /\ where \in [Char -> {"alive", "dead", "away"}]

LEMMA FineInit == Init => FineInv
  <1> SUFFICES ASSUME Init PROVE FineInv
    OBVIOUS
  <1>1. PICK normal \in BOOLEAN, ticks \in {"off", "always"} : mob = NewMob(normal, ticks)
    BY DEF Init
  <1>2. NoHate \in [Char -> Hates] /\ \A c \in Char : NoHate[c] = "none"
    BY DEF NoHate, Hates
  <1>3. <<>> \in Seq(Frames) /\ <<"Respawn">> \in Seq(Frames)
    BY DEF Frames
  <1>4. /\ mob \in MobType /\ mob.hate = NoHate /\ mob.owner = None /\ mob.target = None
        /\ mob.anim = "none" /\ mob.stack \in {<<>>, <<"Respawn">>}
    BY <1>1, <1>2, <1>3 DEF NewMob, MobType
  <1>5. Placed(mob.stack) /\ Settles(mob)
    <2>1. <<"Respawn">> = Append(<<>>, "Respawn") /\ <<>> \in Seq(Frames) /\ Len(<<>>) = 0
      OBVIOUS
    <2>2. /\ Placed(<<>>) /\ Len(<<>>) + 1 <= Depth + Rank("Respawn") /\ Depth \in Nat
          /\ "Respawn" \in Frames
      BY MobAssumption DEF Placed, Rank, Frames
    <2>3. Placed(<<"Respawn">>) /\ Last(<<"Respawn">>) = "Respawn"
      BY <2>1, <2>2, AppendKeeps
    <2> QED BY <1>4, <2>2, <2>3 DEF Settles, Top
  <1>6. Fine(mob)
    BY <1>2, <1>4, <1>5 DEF Fine, Loose, Refers
  <1> QED BY <1>5, <1>6 DEF Init, FineInv

\* The mob's next value, when nobody leaves.
LEMMA Becomes ==
  ASSUME NEW x, Fine(x), Settles(x), mob' = x, Here \subseteq Here',
         where' \in [Char -> {"alive", "dead", "away"}]
  PROVE  FineInv'
  BY DEF FineInv, Fine, Settles, Loose, Refers, Top

\* A mob with the same states, hates and fields that refer to characters.
LEMMA SameFine ==
  ASSUME NEW m, Fine(m), Settles(m), NEW x \in MobType, x.stack = m.stack,
         x.hate = m.hate, x.owner = m.owner, x.target = m.target, x.anim = m.anim
  PROVE  Fine(x) /\ Settles(x)
  BY DEF Fine, Settles, Loose, Refers, Top

LEMMA TickFine ==
  ASSUME FineInv, NEW n \in 0..mob.queue, NEW due, NEW idle, NEW lost, NEW cast,
         Tick(n, due, idle, lost, cast)
  PROVE  FineInv'
  <1> DEFINE start == [mob EXCEPT !.queue = @ - n,
                                  !.ticks = IF @ = "last" THEN "off" ELSE @]
  <1>0. PICK m \in Controlled(start, idle, lost, cast) : \E after \in Looped(m, due) :
          mob' = IF Falls(after) THEN Died(after) ELSE after
    BY DEF Tick
  <1>1. PICK after \in Looped(m, due) :
          mob' = IF Falls(after) THEN Died(after) ELSE after
    BY <1>0
  <1>2. Fine(start) /\ Settles(start)
    <2>1. mob \in MobType /\ mob.queue \in Nat /\ mob.queue - n \in Nat
      BY FineFields DEF FineInv
    <2>2. /\ start \in MobType /\ start.stack = mob.stack /\ start.hate = mob.hate
          /\ start.owner = mob.owner /\ start.target = mob.target /\ start.anim = mob.anim
      BY <2>1 DEF MobType
    <2> HIDE DEF start
    <2> QED BY <2>2, SameFine DEF FineInv
  <1> HIDE DEF start
  <1>3. Fine(after) /\ Settles(after)
    BY <1>0, <1>1, <1>2, ControlledFine, LoopedFine
  <1>4. PICK x : x = mob'
    OBVIOUS
  <1>5. Fine(x) /\ Settles(x)
    BY <1>1, <1>3, <1>4, DiedFine
  <1>6. where' = where
    BY DEF Tick
  <1> QED BY <1>4, <1>5, <1>6, Becomes DEF FineInv, Here

\* An action that leaves the states of the mob alone, or adds one.
LEMMA PlayerFine ==
  ASSUME FineInv, NEW c \in Char, Player(c)
  PROVE  FineInv'
  <1>1. /\ mob \in MobType /\ Fine(mob) /\ Settles(mob) /\ mob.hate \in [Char -> Hates]
        /\ where \in [Char -> {"alive", "dead", "away"}] /\ None \notin Char
        /\ mob.stack \in Seq(Frames) /\ Len(mob.stack) \in Nat /\ Depth \in Nat
    BY FineFields, MobAssumption DEF FineInv
  <1>2. ASSUME NEW h \in [Char -> Hates], NEW o \in {mob.owner, c}, NEW p \in BOOLEAN,
               c \in Here, \A d \in Char : d # c => h[d] = mob.hate[d],
               mob' = [mob EXCEPT !.hate = h, !.owner = o, !.hp = p], where' = where
        PROVE  FineInv'
    <2> DEFINE x == [mob EXCEPT !.hate = h, !.owner = o, !.hp = p]
    <2>1. o \in Char \cup {None}
      BY <1>1, FineFields
    <2>2. /\ x \in MobType /\ x.stack = mob.stack /\ x.hate = h /\ x.owner = o
          /\ x.target = mob.target /\ x.anim = mob.anim
      BY <1>1, <2>1 DEF MobType
    <2>3. PICK y : y = x
      OBVIOUS
    <2>4. mob' = y
      BY <1>2, <2>3
    <2> HIDE DEF x
    <2>5. Fine(y) /\ Settles(y)
      <3>1. Refers(y)
        BY <1>1, <1>2, <2>2, <2>3 DEF Fine, Refers
      <3> QED BY <1>1, <2>2, <2>3, <3>1 DEF Fine, Loose, Settles, Top
    <2>6. Here' = Here
      BY <1>2 DEF Here
    <2> QED BY <1>1, <1>2, <2>4, <2>5, <2>6, Becomes
  <1>3. ASSUME NEW kills \in BOOLEAN, NEW claims \in BOOLEAN, Hit(c, kills, claims)
        PROVE  FineInv'
    <2> DEFINE h == [mob.hate EXCEPT ![c] = "active"]
               o == IF claims THEN c ELSE mob.owner
               p == IF kills THEN FALSE ELSE mob.hp
    <2>1. h \in [Char -> Hates] /\ o \in {mob.owner, c} /\ p \in BOOLEAN
      BY <1>1, FineFields DEF Hates
    <2>2. c \in Here /\ where' = where
      BY <1>3 DEF Hit, Here
    <2>3. mob' = [mob EXCEPT !.hate = h, !.owner = o, !.hp = p]
      BY <1>1, <1>3 DEF Hit, Wounded, MobType
    <2>4. \A d \in Char : d # c => h[d] = mob.hate[d]
      BY <1>1
    <2> HIDE DEF h, o, p
    <2> QED BY <1>2, <2>1, <2>2, <2>3, <2>4
  <1>4. CASE Linked(c)
    <2> DEFINE h == [mob.hate EXCEPT ![c] = "base"]
    <2>1. h \in [Char -> Hates] /\ mob.owner \in {mob.owner, c} /\ mob.hp \in BOOLEAN
      BY <1>1, FineFields DEF Hates
    <2>2. c \in Here /\ where' = where
      BY <1>4 DEF Linked, Here
    <2>3. mob' = [mob EXCEPT !.hate = h, !.owner = mob.owner, !.hp = mob.hp]
      BY <1>1, <1>4 DEF Linked, MobType
    <2>4. \A d \in Char : d # c => h[d] = mob.hate[d]
      BY <1>1
    <2> HIDE DEF h
    <2> QED BY <1>2, <2>1, <2>2, <2>3, <2>4
  <1>5. CASE Stunned(c)
    <2> DEFINE s == Interrupted(mob.stack)
               n == [mob EXCEPT !.stack = Append(s, "Stun")]
    <2>1. mob' = n /\ where' = where /\ Len(mob.stack) < Depth
      BY <1>1, <1>5 DEF Stunned, Push, MobType
    <2>2. Below(s, mob.stack)
      BY <1>1, SettledBelow
    <2>3. Len(s) \in Nat /\ Len(s) <= Len(mob.stack)
      BY <1>1, <2>2, BelowKeeps
    <2> HIDE DEF s
    <2>4. Len(s) + 1 <= Depth + Rank("Stun")
      BY <1>1, <2>1, <2>3 DEF Rank
    <2>5. PICK y : y = n
      OBVIOUS
    <2>6. Fine(y) /\ Settles(y)
      BY <1>1, <2>2, <2>4, <2>5, PushFine DEF Frames, Settles
    <2>7. Here' = Here
      BY <2>1 DEF Here
    <2> QED BY <1>1, <2>1, <2>5, <2>6, <2>7, Becomes
  <1>6. CASE Fall(c) \/ Raised(c)
    <2>1. PICK y : y = mob
      OBVIOUS
    <2>2. /\ mob' = y /\ where' \in [Char -> {"alive", "dead", "away"}]
          /\ Here \subseteq Here'
      BY <1>1, <1>6, <2>1 DEF Fall, Raised, Here
    <2> QED BY <1>1, <2>1, <2>2, Becomes
  <1>7. CASE Enter(c)
    <2>1. PICK y : y = [mob EXCEPT !.ticks = IF @ = "always" THEN @ ELSE "on"]
      OBVIOUS
    <2>2. /\ mob' = y /\ where' \in [Char -> {"alive", "dead", "away"}]
          /\ Here \subseteq Here'
      BY <1>1, <1>7, <2>1 DEF Enter, Here
    <2>3. /\ y \in MobType /\ y.stack = mob.stack /\ y.hate = mob.hate
          /\ y.owner = mob.owner /\ y.target = mob.target /\ y.anim = mob.anim
      BY <1>1, <2>1 DEF MobType
    <2> QED BY <1>1, <2>2, <2>3, SameFine, Becomes
  <1>8. CASE Leave(c)
    <2>1. /\ Here' = Here \ {c} /\ where' \in [Char -> {"alive", "dead", "away"}]
      BY <1>1, <1>8 DEF Leave, Here
    <2> DEFINE x == Released(mob, c)
               h == [mob.hate EXCEPT ![c] = IF @ = "none" THEN @ ELSE "left"]
    <2>2. /\ h \in [Char -> Hates] /\ h[c] \in {"none", "left"}
          /\ \A d \in Char : h[d] \in {mob.hate[d], "none", "left"}
      BY <1>1 DEF Hates
    <2>3. /\ x \in MobType /\ x.stack = mob.stack /\ x.hate = h
          /\ x.owner = (IF mob.owner = c THEN None ELSE mob.owner)
          /\ x.target = (IF mob.target = c THEN None ELSE mob.target)
          /\ x.anim = mob.anim
      BY <1>1, <2>2 DEF Released, MobType
    <2>4. mob' \in {x, Healed(x)}
      BY <1>8 DEF Leave
    <2> HIDE DEF x, h
    <2>5. /\ mob' \in MobType /\ mob'.stack = x.stack /\ mob'.hate = x.hate
          /\ mob'.owner = x.owner /\ mob'.target = x.target /\ mob'.anim = x.anim
      BY <2>3, <2>4 DEF Healed, MobType
    <2>6. Refers(mob)'
      <3>1. \A d \in Char : h[d] \in {"base", "active"} => d # c /\ mob.hate[d] \in {"base", "active"}
        BY <2>2
      <3> QED BY <1>1, <2>1, <2>3, <2>5, <3>1 DEF Fine, Refers
    <2>7. Loose(mob)' /\ Placed(mob.stack)' /\ Settles(mob)'
      BY <1>1, <2>3, <2>5 DEF Fine, Loose, Settles, Top
    <2> QED BY <2>1, <2>5, <2>6, <2>7 DEF FineInv, Fine
  <1> QED BY <1>3, <1>4, <1>5, <1>6, <1>7, <1>8 DEF Player

LEMMA FineNext == FineInv /\ [Next]_vars => FineInv'
  <1> SUFFICES ASSUME FineInv, [Next]_vars PROVE FineInv'
    OBVIOUS
  <1>1. /\ mob \in MobType /\ Fine(mob) /\ Settles(mob)
        /\ where \in [Char -> {"alive", "dead", "away"}]
        /\ mob.stack \in Seq(Frames) /\ Len(mob.stack) \in Nat /\ Depth \in Nat
    BY FineFields, MobAssumption DEF FineInv
  <1>2. ASSUME NEW y, Fine(y), Settles(y), mob' = y, where' = where
        PROVE  FineInv'
    <2>1. Here' = Here
      BY <1>2 DEF Here
    <2> QED BY <1>1, <1>2, <2>1, Becomes
  <1>3. ASSUME NEW n \in 0 .. mob.queue, NEW due \in 0 .. Len(mob.stack),
               NEW idle \in {FALSE, mob.timer}, NEW lost \in SUBSET Alive,
               NEW cast \in {FALSE, mob.anim = "attack"},
               Tick(n, due, idle, lost, cast)
        PROVE  FineInv'
    BY <1>3, TickFine
  <1>4. ASSUME NEW c \in Char, Player(c)  PROVE  FineInv'
    BY <1>4, PlayerFine
  <1>5. CASE Poisoned
    <2>1. PICK y : y = [mob EXCEPT !.hp = FALSE]
      OBVIOUS
    <2>2. mob' = y /\ where' = where
      BY <1>5, <2>1 DEF Poisoned, Wounded
    <2>3. /\ y \in MobType /\ y.stack = mob.stack /\ y.hate = mob.hate
          /\ y.owner = mob.owner /\ y.target = mob.target /\ y.anim = mob.anim
      BY <1>1, <2>1 DEF MobType
    <2> QED BY <1>1, <1>2, <2>2, <2>3, SameFine
  <1>6. CASE Wait
    <2> DEFINE s == Settled(mob.stack)
    <2>1. PICK y : y = [mob EXCEPT !.stack = Append(s, "Wait")]
      OBVIOUS
    <2>2. mob' = y /\ where' = where /\ Len(mob.stack) < Depth
      BY <1>1, <1>6, <2>1 DEF Wait, Push, MobType
    <2>3. Below(s, mob.stack)
      BY <1>1, SettledBelow
    <2>4. Len(s) \in Nat /\ Len(s) <= Len(mob.stack)
      BY <1>1, <2>3, BelowKeeps
    <2> HIDE DEF s
    <2>5. Len(s) + 1 <= Depth + Rank("Wait")
      BY <1>1, <2>2, <2>4 DEF Rank
    <2>6. "Wait" \in Frames \ {"Attack"}
      BY DEF Frames
    <2>7. LET n == [mob EXCEPT !.stack = Append(s, "Wait")] IN Fine(n) /\ Top(n) = "Wait"
      BY <1>1, <2>3, <2>5, <2>6, PushFine
    <2>8. Fine(y) /\ Settles(y)
      BY <2>1, <2>7 DEF Settles
    <2> QED BY <1>2, <2>2, <2>8
  <1>7. ASSUME NEW allow \in BOOLEAN, Reborn(allow)  PROVE  FineInv'
    <2> DEFINE x == Spawned(mob)
    <2>1. PICK y : y = [x EXCEPT !.allow = allow]
      OBVIOUS
    <2>2. mob' = y /\ where' = where
      BY <1>7, <2>1 DEF Reborn
    <2>3. Fine(x) /\ Settles(x)
      BY <1>1, SpawnedFine DEF Settles, Top
    <2> HIDE DEF x
    <2>4. x \in MobType
      BY <2>3, FineFields
    <2>5. /\ y \in MobType /\ y.stack = x.stack /\ y.hate = x.hate
          /\ y.owner = x.owner /\ y.target = x.target /\ y.anim = x.anim
      BY <2>1, <2>4 DEF MobType
    <2> QED BY <1>2, <2>2, <2>3, <2>5, SameFine
  <1>8. CASE SpawnMob \/ Night
    <2>1. mob.allow \in BOOLEAN
      BY <1>1 DEF MobType
    <2> QED BY <1>7, <1>8, <2>1 DEF SpawnMob, Night
  <1>9. ASSUME NEW timer \in BOOLEAN, NEW allow \in BOOLEAN, where' = where,
               mob' = [mob EXCEPT !.timer = timer, !.allow = allow]
        PROVE  FineInv'
    <2>1. PICK y : y = [mob EXCEPT !.timer = timer, !.allow = allow]
      OBVIOUS
    <2>2. /\ y \in MobType /\ y.stack = mob.stack /\ y.hate = mob.hate
          /\ y.owner = mob.owner /\ y.target = mob.target /\ y.anim = mob.anim
      BY <1>1, <2>1 DEF MobType
    <2>3. mob' = y
      BY <1>9, <2>1
    <2> QED BY <1>1, <1>2, <1>9, <2>2, <2>3, SameFine
  <1>10. CASE Dawn
    BY <1>9, <1>10 DEF Dawn
  <1>11. ASSUME NEW yes \in BOOLEAN, DisallowRespawn(yes)  PROVE  FineInv'
    <2>1. mob' = [mob EXCEPT !.timer = mob.timer, !.allow = ~yes] /\ where' = where
      BY <1>1, <1>11 DEF DisallowRespawn, MobType
    <2>2. mob.timer \in BOOLEAN /\ (~yes) \in BOOLEAN
      BY <1>1 DEF MobType
    <2> QED BY <1>9, <2>1, <2>2
  <1>12. CASE DespawnMob
    <2>1. PICK y : y = Despawning(mob)
      OBVIOUS
    <2>2. mob' = y /\ where' = where
      BY <1>12, <2>1 DEF DespawnMob
    <2>3. Fine(y) /\ Settles(y)
      BY <1>1, <2>1, DespawningFine
    <2> QED BY <1>2, <2>2, <2>3
  <1>13. CASE UNCHANGED vars
    <2>1. PICK y : y = mob
      OBVIOUS
    <2> QED BY <1>1, <1>2, <1>13, <2>1 DEF vars
  <1> QED BY ZenonT(30), <1>3, <1>4, <1>5, <1>6, <1>8, <1>10, <1>11, <1>12, <1>13
          DEF Next, Script

\* The types, with the height the stack never exceeds: a despawn and a respawn
\* on top of an attack on top of the states of players and scripts.
THEOREM TypeCorrect == Spec => []TypeOK
  <1>1. FineInv => TypeOK
    <2> SUFFICES ASSUME FineInv PROVE TypeOK
      OBVIOUS
    <2>1. /\ mob \in MobType /\ mob.stack \in Seq(Frames) /\ Len(mob.stack) \in Nat
          /\ Depth \in Nat
      BY FineFields, MobAssumption DEF FineInv
    <2>2. Len(mob.stack) <= Depth + 4
      <3>1. CASE Len(mob.stack) = 0
        BY <2>1, <3>1
      <3>2. CASE Len(mob.stack) # 0
        <4>1. Len(mob.stack) \in 1..Len(mob.stack)
          BY <2>1, <3>2
        <4>2. Len(mob.stack) <= Depth + Rank(mob.stack[Len(mob.stack)])
          BY <4>1 DEF FineInv, Fine, Placed
        <4>3. \A f : Rank(f) \in 0..3
          BY DEF Rank
        <4> QED BY <2>1, <4>2, <4>3
      <3> QED BY <3>1, <3>2
    <2>3. /\ mob.hate \in [Char -> {"none", "base", "active", "left"}]
          /\ mob.owner \in Char \cup {None} /\ mob.target \in Char \cup {None}
          /\ mob.anim \in {"none", "attack", "death"}
          /\ mob.ticks \in {"off", "on", "last", "always"}
      BY <2>1 DEF MobType, Hates
    <2> QED BY <2>1, <2>2, <2>3 DEF FineInv, TypeOK
  <1> QED BY <1>1, FineInit, FineNext, PTL DEF Spec

\* The mob refers to nobody who has left the zone (DecreaseZoneCounter).
THEOREM NobodyAbsentAlways == Spec => []NobodyAbsent
  <1>1. FineInv => NobodyAbsent
    BY DEF FineInv, Fine, Refers, NobodyAbsent
  <1> QED BY <1>1, FineInit, FineNext, PTL DEF Spec
-----------------------------------------------------------------------------
(***************************************************************************)
(* Deaths and corpses, as long as no script has a corpse wait.             *)
(***************************************************************************)
NoWait == Trouble = {}

\* A stack whose mob is neither dead nor about to despawn.
Quick(s) == Ordered(s) /\ (s # <<>> => Last(s) \notin Fallen)

\* What is popped from it, or pushed on it.
LEMMA QuickKeeps ==
  ASSUME NEW s \in Seq(Frames), Quick(s)
  PROVE  /\ Quick(Settled(s)) /\ Quick(Interrupted(s))
         /\ s # <<>> => Quick(Front(s))
         /\ \A f \in Frames : /\ Ordered(Append(s, f))
                              /\ f \notin Fallen => Quick(Append(s, f))
  <1>1. ASSUME s # <<>>  PROVE  Quick(Front(s))
    <2> DEFINE t == Front(s)
    <2>1. /\ Len(s) \in Nat /\ Len(s) >= 1 /\ Last(s) = s[Len(s)] /\ Below(t, s)
          /\ Len(t) = Len(s) - 1
      BY <1>1, StackTop
    <2>2. t \in Seq(Frames) /\ Ordered(t)
      BY <2>1, BelowKeeps DEF Quick
    <2> HIDE DEF t
    <2>3. ASSUME t # <<>>  PROVE  Last(t) \notin Fallen
      <3>1. Len(t) \in 1..Len(s) - 1 /\ Len(t) \in 1..Len(t) /\ Last(t) = t[Len(t)]
        BY <2>1, <2>2, <2>3, StackTop
      <3>2. Last(t) = s[Len(t)] /\ s[Len(t) + 1] = Last(s)
        BY <2>1, <3>1 DEF Below
      <3>3. s # <<>> /\ Last(s) \notin {"Despawn", "Respawn"}
        BY <1>1 DEF Quick, Fallen
      <3> QED BY <3>1, <3>2, <3>3 DEF Quick, Ordered
    <2> QED BY <2>2, <2>3 DEF Quick, t
  <1>2. ASSUME NEW f \in Frames
        PROVE  Ordered(Append(s, f)) /\ (f \notin Fallen => Quick(Append(s, f)))
    <2>1. Ordered(Append(s, f)) /\ Last(Append(s, f)) = f
      BY AppendKeeps DEF Quick
    <2> QED BY <2>1 DEF Quick
  <1> QED BY <1>1, <1>2 DEF Settled, Interrupted

\* The states of a corpse, of the mob that fades and of the one that is gone;
\* k is the character that had the claim when its HP ran out.
Grave(m, k) ==
    /\ Ordered(m.stack)
    /\ Top(m) = "Respawn" => m.gone
    /\ Top(m) \in {"Death", "Respawn"} => m.hate = NoHate
    /\ Top(m) = "Death" \/ Falls(m) => m.owner = k

\* A mob that is not dead.
Living(m) == m.hp /\ Ordered(m.stack) /\ Top(m) \notin {"Death", "Respawn"}

LEMMA LivingGrave ==
  ASSUME NEW m, Living(m), NEW k
  PROVE  Grave(m, k) /\ ~Falls(m)
  BY DEF Living, Grave, Falls

\* What a turn makes of the HP and of a corpse.
TurnGrave(m, k, r) ==
    /\ Grave(r.mob, k)
    /\ r.more => r.mob.hp = m.hp
    /\ Falls(r.mob) => Falls(m)
    /\ ~r.mob.hp => ~m.hp
    /\ r.mob.hp /\ ~m.hp => r.mob.stack = <<>>

LEMMA UpdateTopGrave ==
  ASSUME NEW m, Fine(m), NEW k, Grave(m, k), NEW due \in BOOLEAN
  PROVE  TurnGrave(m, k, UpdateTop(m, due))
  <1>1. /\ m \in MobType /\ m.stack \in Seq(Frames) /\ m.hp \in BOOLEAN /\ m.gone \in BOOLEAN
        /\ Top(m) \in Frames \cup {"none"} /\ (Top(m) = "none" <=> m.stack = <<>>)
    BY FineFields
  <1>2. TurnGrave(m, k, Stops(m))
    BY DEF TurnGrave, Stops
  <1> DEFINE popped == [m EXCEPT !.stack = Front(m.stack)]
  <1>3. ASSUME Top(m) \in {"Attack", "Magic", "Cast", "Stun", "Wait"}
        PROVE  /\ Quick(m.stack) /\ m.stack # <<>> /\ Quick(popped.stack)
               /\ popped.stack = Front(m.stack) /\ Fine(popped)
               /\ popped.hp = m.hp /\ popped.gone = m.gone /\ popped.owner = m.owner
               /\ popped.hate = m.hate /\ Top(popped) \notin Fallen
    <2>1. m.stack # <<>> /\ Last(m.stack) = Top(m)
      BY <1>1, <1>3 DEF Top
    <2>2. Quick(m.stack)
      BY <1>3, <2>1 DEF Quick, Fallen, Grave
    <2>3. Quick(Front(m.stack)) /\ Below(Front(m.stack), m.stack)
      BY <1>1, <2>1, <2>2, QuickKeeps, StackTop
    <2>4. Front(m.stack) \in Seq(Frames)
      BY <2>3 DEF Below
    <2>5. /\ popped \in MobType /\ popped.stack = Front(m.stack) /\ popped.hp = m.hp
          /\ popped.gone = m.gone /\ popped.owner = m.owner /\ popped.hate = m.hate
          /\ popped.target = m.target /\ popped.anim = m.anim
      BY <1>1, <2>4 DEF MobType
    <2> HIDE DEF popped
    <2>6. Fine(popped)
      BY <2>3, <2>5, FineLess
    <2>7. Top(popped) \notin Fallen
      BY <2>3, <2>5 DEF Top, Quick, Fallen
    <2> QED BY <2>1, <2>2, <2>3, <2>5, <2>6, <2>7
  <1>4. ASSUME Top(m) \in {"Attack", "Magic", "Cast", "Stun", "Wait"}
        PROVE  TurnGrave(m, k, Pops(m))
    <2>1. Pops(m) = [mob |-> popped, more |-> TRUE]
      BY DEF Pops
    <2>2. Grave(m, k) /\ Top(m) \notin Fallen
      BY <1>4 DEF Fallen
    <2> HIDE DEF popped
    <2>3. Falls(popped) => Falls(m)
      BY <1>3, <1>4, <2>2 DEF Falls, Fallen
    <2>4. Grave(popped, k)
      BY <1>3, <1>4, <2>2, <2>3 DEF Grave, Quick, Fallen
    <2> QED BY <1>3, <1>4, <2>1, <2>3, <2>4 DEF TurnGrave
  <1>5. CASE Top(m) = "none"
    BY <1>2, <1>5 DEF UpdateTop
  <1>6. CASE Top(m) = "Attack"
    <2>1. UpdateTop(m, due) = UpdateAttack(m)
      BY <1>6 DEF UpdateTop
    <2>2. CASE m.target \in Alive
      BY <1>2, <2>1, <2>2 DEF UpdateAttack
    <2>3. CASE m.target \notin Alive
      <3>1. UpdateAttack(m) = [mob |-> AttackEnds(popped), more |-> TRUE]
        BY <2>3 DEF UpdateAttack
      <3>2. CASE IsDead(popped)
        <4>1. UpdateAttack(m) = Pops(m)
          BY <3>1, <3>2 DEF AttackEnds, Pops
        <4> QED BY <1>4, <1>6, <2>1, <4>1
      <3>3. CASE ~IsDead(popped)
        <4> DEFINE n == Disengaged(popped)
        <4>1. UpdateAttack(m) = [mob |-> n, more |-> TRUE]
          BY <3>1, <3>3 DEF AttackEnds
        <4>2. n.stack = popped.stack /\ n.hp = popped.hp
          BY <1>3, <1>6, DisengagedFine
        <4>3. popped.hp /\ Top(popped) \notin {"Death", "Respawn"} /\ Ordered(popped.stack)
              /\ popped.hp = m.hp
          BY <1>3, <1>6, <3>3 DEF IsDead, Fallen, Quick
        <4> HIDE DEF n, popped
        <4>4. Living(n)
          BY <4>2, <4>3 DEF Living, Top
        <4>5. Grave(n, k) /\ ~Falls(n)
          BY <4>4, LivingGrave
        <4>6. m.hp /\ n.hp /\ n.hp = m.hp
          BY <4>2, <4>3
        <4>7. TurnGrave(m, k, [mob |-> n, more |-> TRUE])
          BY <4>5, <4>6 DEF TurnGrave
        <4> QED BY <2>1, <4>1, <4>7
      <3> QED BY <3>2, <3>3
    <2> QED BY <2>2, <2>3
  <1>7. CASE Top(m) \in {"Magic", "Cast"}
    <2>1. UpdateTop(m, due) = UpdateMagic(m, due)
      BY <1>7 DEF UpdateTop
    <2>2. CASE Top(m) = "Magic" /\ due
      <3> DEFINE new == Append(Front(m.stack), "Cast")
                 n == [m EXCEPT !.stack = new]
      <3>1. UpdateMagic(m, due) = Stops([m EXCEPT !.stack[Len(m.stack)] = "Cast"])
        BY <2>2 DEF UpdateMagic
      <3>2. [m EXCEPT !.stack[Len(m.stack)] = "Cast"] = n
        <4>1. [m.stack EXCEPT ![Len(m.stack)] = "Cast"] = Append(Front(m.stack), "Cast")
          BY <1>1, <1>3, <2>2, ReplacedTop DEF Frames
        <4> QED BY <1>1, <4>1 DEF MobType
      <3>3. Front(m.stack) \in Seq(Frames) /\ Quick(Front(m.stack))
        BY <1>3, <2>2, FineFields
      <3>4. /\ new \in Seq(Frames) /\ new # <<>> /\ Last(new) = "Cast"
            /\ Ordered(new)
        BY <3>3, QuickKeeps, AppendKeeps DEF Frames
      <3> HIDE DEF new
      <3>5. /\ n.stack = new /\ n.hp = m.hp /\ n.gone = m.gone /\ n.owner = m.owner
            /\ n.hate = m.hate
        BY <1>1 DEF MobType
      <3> HIDE DEF n
      <3>6. Top(n) = "Cast"
        BY <3>4, <3>5 DEF Top
      <3>7. Falls(n) => Falls(m)
        BY <2>2, <3>5 DEF Falls
      <3>8. Grave(n, k)
        BY <3>4, <3>5, <3>6, <3>7 DEF Grave
      <3> QED BY <2>1, <3>1, <3>2, <3>5, <3>7, <3>8 DEF TurnGrave, Stops
    <2>3. CASE Top(m) = "Cast" /\ due
      BY <1>4, <2>1, <2>3 DEF UpdateMagic
    <2>4. CASE ~due
      BY <1>2, <1>7, <2>1, <2>4 DEF UpdateMagic
    <2> QED BY <1>7, <2>2, <2>3, <2>4
  <1>8. CASE Top(m) \in {"Stun", "Wait"}
    <2>1. UpdateTop(m, due) = UpdateInactive(m, due)
      BY <1>8 DEF UpdateTop
    <2> QED BY <1>2, <1>4, <1>8, <2>1 DEF UpdateInactive
  <1>9. CASE Top(m) = "Death"
    <2> DEFINE new == Append(Front(m.stack), "Despawn")
               n == [m EXCEPT !.stack = new]
    <2>1. UpdateTop(m, due) \in {Stops(n), Stops(m)}
      BY <1>9 DEF UpdateTop, UpdateDeath
    <2>2. m.stack # <<>> /\ Below(Front(m.stack), m.stack)
      BY <1>1, <1>9, StackTop
    <2>3. Front(m.stack) \in Seq(Frames) /\ Ordered(Front(m.stack))
      BY <1>1, <2>2, BelowKeeps DEF Grave
    <2>4. new # <<>> /\ Last(new) = "Despawn" /\ Ordered(new)
      BY <2>3, AppendKeeps DEF Frames
    <2> HIDE DEF new
    <2>5. /\ n.stack = new /\ n.hp = m.hp
      BY <1>1 DEF MobType
    <2> HIDE DEF n
    <2>6. Top(n) = "Despawn" /\ Grave(n, k) /\ ~Falls(n)
      BY <2>4, <2>5 DEF Top, Grave, Falls
    <2>7. TurnGrave(m, k, Stops(n))
      BY <2>5, <2>6 DEF TurnGrave, Stops
    <2> QED BY <1>2, <2>1, <2>7
  <1>10. CASE Top(m) = "Despawn"
    <2> DEFINE new == Append(m.stack, "Respawn")
               n == [Push(m, "Respawn") EXCEPT !.gone = TRUE, !.hate = NoHate]
    <2>1. UpdateTop(m, due) \in {Stops(n), Stops(m)}
      BY <1>10 DEF UpdateTop, UpdateDespawn
    <2>2. Settled(m.stack) = m.stack
      BY <1>10 DEF Settled, Top
    <2>3. new # <<>> /\ Last(new) = "Respawn" /\ Ordered(new)
      BY <1>1, AppendKeeps DEF Frames, Grave
    <2>4. n = [[m EXCEPT !.stack = new] EXCEPT !.gone = TRUE, !.hate = NoHate]
      BY <1>1, <2>2 DEF Push, MobType
    <2> HIDE DEF new
    <2>5. n.stack = new /\ n.hp = m.hp /\ n.gone = TRUE /\ n.hate = NoHate
      BY <1>1, <2>4 DEF MobType
    <2> HIDE DEF n
    <2>6. Top(n) = "Respawn" /\ Grave(n, k) /\ ~Falls(n)
      BY <2>3, <2>5 DEF Top, Grave, Falls
    <2>7. TurnGrave(m, k, Stops(n))
      BY <2>5, <2>6 DEF TurnGrave, Stops
    <2> QED BY <1>2, <2>1, <2>7
  <1>11. CASE Top(m) = "Respawn"
    <2> DEFINE n == Spawned(m)
    <2>1. UpdateTop(m, due) \in {Stops(n), Stops(m)}
      BY <1>11 DEF UpdateTop, UpdateRespawn
    <2>2. n.stack = <<>> /\ n.hp
      BY SpawnedFine
    <2> HIDE DEF n
    <2>3. Living(n)
      BY <2>2 DEF Living, Top, Ordered
    <2>4. TurnGrave(m, k, Stops(n))
      BY <2>2, <2>3, LivingGrave DEF TurnGrave, Stops
    <2> QED BY <1>2, <2>1, <2>4
  <1> QED BY <1>1, <1>5, <1>6, <1>7, <1>8, <1>9, <1>10, <1>11 DEF Frames

\* What the loop of a tick makes of them.
LEMMA LoopedGrave ==
  ASSUME NEW m, Fine(m), NEW k, Grave(m, k), NEW due, NEW after \in Looped(m, due)
  PROVE  /\ Grave(after, k) /\ (Falls(after) => Falls(m))
         /\ ~after.hp => ~m.hp
         /\ after.hp /\ ~m.hp => after.stack = <<>>
  <1> DEFINE Ends(p) == /\ Grave(p, k) /\ (Falls(p) => Falls(m))
                        /\ ~p.hp => ~m.hp
                        /\ p.hp /\ ~m.hp => p.stack = <<>>
             Kept == {p \in [mob : MobType, more : BOOLEAN] :
                        Fine(p.mob) /\ Ends(p.mob) /\ (p.more => p.mob.hp = m.hp)}
             S == [j \in Nat |-> Kept]
  <1>1. Len(m.stack) \in Nat /\ m \in MobType /\ m.hp \in BOOLEAN
    BY FineFields
  <1>2. [mob |-> m, more |-> TRUE] \in S[0]
    BY <1>1
  <1>3. ASSUME NEW p \in Kept, NEW b \in BOOLEAN  PROVE  Turned(p, b) \in Kept
    <2> DEFINE r == UpdateTop(p.mob, b)
    <2>1. /\ Fine(p.mob) /\ Ends(p.mob) /\ (p.more => p.mob.hp = m.hp)
      OBVIOUS
    <2>2. CASE ~p.more
      BY <2>2 DEF Turned
    <2>3. CASE p.more
      <3>1. TurnFine(p.mob, r) /\ TurnGrave(p.mob, k, r) /\ r = [mob |-> r.mob, more |-> r.more]
        BY <2>1, UpdateTopFine, UpdateTopGrave, UpdateTopRecord
      <3>2. Turned(p, b) = r /\ p.mob.hp = m.hp
        BY <2>1, <2>3 DEF Turned
      <3> HIDE DEF r
      <3>3. r.mob \in MobType /\ r.more \in BOOLEAN /\ Fine(r.mob)
        BY <3>1, FineFields DEF TurnFine
      <3>4. r \in [mob : MobType, more : BOOLEAN]
        BY <3>1, <3>3
      <3>5. Ends(r.mob) /\ (r.more => r.mob.hp = m.hp)
        BY <2>1, <3>1, <3>2 DEF TurnGrave
      <3> HIDE DEF Ends
      <3> QED BY <3>2, <3>3, <3>4, <3>5
    <2> QED BY <2>2, <2>3
  <1> HIDE DEF Ends, Kept
  <1>4. \A j \in 0..Len(m.stack) : \A p \in S[j] : \A b \in BOOLEAN : Turned(p, b) \in S[j + 1]
    BY <1>1, <1>3
  <1> HIDE DEF S
  <1>5. PICK p \in S[Len(m.stack) + 1] : after = p.mob
    BY <1>1, <1>2, <1>4, LoopInduction
  <1>6. p \in Kept
    BY <1>1 DEF S
  <1> QED BY <1>5, <1>6 DEF Kept, Ends

\* The controller leaves a mob that is dead alone, and another alive.
Controls(m, n) ==
    /\ n.hp = m.hp
    /\ \/ n.stack \in {m.stack, Settled(m.stack)}
       \/ \E f \in {"Attack", "Magic", "Despawn"} :
             n.stack = Append(Settled(m.stack), f)

LEMMA EngagedStack ==
  ASSUME NEW m, Fine(m), NEW c \in Char
  PROVE  Controls(m, Engaged(m, c))
  <1> DEFINE x == [m EXCEPT !.stack = Settled(@), !.target = None]
             y == [[m EXCEPT !.stack = Append(Settled(@), "Attack")]
                     EXCEPT !.anim = "attack", !.target = c]
  <1>1. m \in MobType
    BY FineFields
  <1>2. /\ x.stack = Settled(m.stack) /\ x.hp = m.hp
        /\ y.stack = Append(Settled(m.stack), "Attack") /\ y.hp = m.hp
    BY <1>1 DEF MobType
  <1>3. Engaged(m, c) \in {m, x, y}
    BY DEF Engaged, Push
  <1> HIDE DEF x, y
  <1> QED BY <1>2, <1>3 DEF Controls

LEMMA PushControls ==
  ASSUME NEW m, Fine(m), NEW f \in {"Attack", "Magic", "Despawn"}
  PROVE  Controls(m, Push(m, f))
  <1>1. m \in MobType
    BY FineFields
  <1>2. Push(m, f).stack = Append(Settled(m.stack), f) /\ Push(m, f).hp = m.hp
    BY <1>1 DEF MobType, Push
  <1> QED BY <1>2 DEF Controls

LEMMA RoamControls ==
  ASSUME NEW m, Fine(m), Settles(m), m.anim # "attack", NEW idle, NEW n \in Roam(m, idle)
  PROVE  Controls(m, n)
  <1> DEFINE found == Hated(m) \cap Here
             w == Without(m, Hated(m))
  <1>1. \A who : /\ Fine(Without(m, who)) /\ Without(m, who).stack = m.stack
                 /\ Without(m, who).hp = m.hp
    BY WithoutFine
  <1>2. CASE found # {}
    <2>1. PICK c \in found, who \in SUBSET (Hated(m) \ Here) :
             n = Engaged(Without(m, who), c)
      BY <1>2 DEF Roam
    <2>2. c \in Char
      BY <2>1 DEF Hated
    <2>3. Controls(Without(m, who), n)
      BY <1>1, <2>1, <2>2, EngagedStack
    <2> QED BY <1>1, <2>3 DEF Controls
  <1>3. CASE found = {} /\ w.owner # None
    <2> DEFINE x == [w EXCEPT !.hate[w.owner] = "base"]
    <2>1. n = Engaged(x, w.owner)
      BY <1>3 DEF Roam
    <2>2. Fine(w) /\ w.stack = m.stack /\ w.hp = m.hp
      BY <1>1
    <2> HIDE DEF w
    <2>3. /\ w \in MobType /\ w.owner \in Char /\ w.hate \in [Char -> Hates]
          /\ w.owner \in Here
      BY <1>3, <2>2, FineFields DEF Fine, Refers
    <2>4. [w.hate EXCEPT ![w.owner] = "base"] \in [Char -> Hates]
      BY <2>3 DEF Hates
    <2>5. /\ x \in MobType /\ x.stack = w.stack /\ x.anim = w.anim
          /\ x.owner = w.owner /\ x.target = w.target /\ x.hp = w.hp
          /\ x.hate = [w.hate EXCEPT ![w.owner] = "base"]
      BY <2>3, <2>4 DEF MobType
    <2> HIDE DEF x
    <2>6. Fine(x)
      <3>1. \A c \in Char : x.hate[c] \in {"base", "active"} =>
               c = w.owner \/ w.hate[c] \in {"base", "active"}
        BY <2>3, <2>5
      <3> QED BY <2>2, <2>3, <2>5, <3>1 DEF Fine, Loose, Refers
    <2>7. Controls(x, n)
      BY <2>1, <2>3, <2>6, EngagedStack
    <2> QED BY <2>2, <2>5, <2>7 DEF Controls
  <1>4. CASE found = {} /\ w.owner = None
    <2>1. n \in {Push(w, "Despawn"), w}
      BY <1>4 DEF Roam, Despawning
    <2>2. Controls(w, n)
      BY <1>1, <2>1, PushControls DEF Controls
    <2> QED BY <1>1, <2>2 DEF Controls
  <1> QED BY <1>2, <1>3, <1>4

LEMMA CombatControls ==
  ASSUME NEW m, Fine(m), m.anim = "attack", NEW lost, NEW cast,
         NEW n \in Combat(m, lost, cast)
  PROVE  Controls(m, n)
  <1> DEFINE able == Alive \ lost
             fought == Hated(m) \cap able
             May(x) == IF cast /\ x.target # None /\ CanChange(x) /\ Len(x.stack) < Depth
                       THEN Push(x, "Magic") ELSE x
  <1>1. PICK x : n = May(x) /\ Fine(x) /\ x.stack = m.stack /\ x.hp = m.hp
    <2>1. CASE fought # {}
      <3> DEFINE After == {[Without(m, passed) EXCEPT !.target = c] :
                             c \in fought, passed \in SUBSET (Hated(m) \ able)}
      <3>1. n \in {May(x) : x \in After}
        BY <2>1 DEF Combat
      <3> HIDE DEF May
      <3>2. PICK y \in After : n = May(y)
        BY <3>1
      <3>3. PICK c \in fought, passed \in SUBSET (Hated(m) \ able) :
              y = [Without(m, passed) EXCEPT !.target = c]
        BY <3>2
      <3> HIDE DEF After
      <3> DEFINE w == Without(m, passed)
      <3>4. Fine(w) /\ w.stack = m.stack /\ w.hp = m.hp
        BY WithoutFine
      <3>5. c \in Char /\ c \in Here /\ y = [w EXCEPT !.target = c]
        BY <3>3 DEF Alive, Here
      <3> HIDE DEF w
      <3>6. w \in MobType
        BY <3>4, FineFields
      <3>7. /\ y \in MobType /\ y.stack = w.stack /\ y.hate = w.hate /\ y.hp = w.hp
            /\ y.owner = w.owner /\ y.target = c /\ y.anim = w.anim
        BY <3>5, <3>6 DEF MobType
      <3>8. w.anim = m.anim
        BY WithoutFine DEF w
      <3>9. Fine(y)
        BY <3>4, <3>5, <3>7, <3>8 DEF Fine, Loose, Refers
      <3> QED BY <3>2, <3>4, <3>7, <3>9
    <2>2. CASE fought = {} /\ Hated(m) \cap Here = {} /\ m.target \in able
      <3>1. n = May(Without(m, Hated(m)))
        BY <2>2 DEF Combat
      <3> HIDE DEF May
      <3> QED BY <3>1, WithoutFine
    <2>3. CASE fought = {} /\ ~(Hated(m) \cap Here = {} /\ m.target \in able)
      <3>1. n = May(Disengaged(m))
        BY <2>3 DEF Combat
      <3> HIDE DEF May
      <3> QED BY <3>1, DisengagedFine
    <2> QED BY <2>1, <2>2, <2>3
  <1>2. n \in {x, Push(x, "Magic")}
    BY <1>1
  <1>3. Controls(x, n)
    BY <1>1, <1>2, PushControls DEF Controls
  <1> QED BY <1>1, <1>3 DEF Controls

LEMMA ControlledGrave ==
  ASSUME NEW m, Fine(m), Settles(m), NEW k, Grave(m, k), NEW idle, NEW lost, NEW cast,
         NEW n \in Controlled(m, idle, lost, cast)
  PROVE  Grave(n, k) /\ n.hp = m.hp /\ (Falls(n) => Falls(m))
  <1>1. CASE IsDead(m)
    BY <1>1 DEF Controlled
  <1>2. CASE ~IsDead(m)
    <2>1. Controls(m, n)
      BY <1>2, RoamControls, CombatControls DEF Controlled
    <2>2. /\ m.stack \in Seq(Frames) /\ m.hp /\ Top(m) \notin {"Death", "Despawn", "Respawn"}
      BY <1>2, FineFields DEF IsDead, Grave
    <2>3. Quick(m.stack)
      BY <2>2 DEF Quick, Grave, Top, Fallen
    <2> DEFINE s == Settled(m.stack)
    <2>4. s \in Seq(Frames) /\ Quick(s)
      BY <2>2, <2>3, QuickKeeps, SettledBelow, BelowKeeps
    <2> HIDE DEF s
    <2>5. \A f \in {"Attack", "Magic", "Despawn"} :
             /\ Ordered(Append(s, f)) /\ Last(Append(s, f)) = f
             /\ Append(s, f) # <<>>
      BY <2>4, QuickKeeps, AppendKeeps DEF Frames
    <2>6. Ordered(n.stack) /\ Top(n) \notin {"Death", "Respawn"} /\ n.hp
      <3>1. CASE n.stack \in {m.stack, s}
        BY <2>1, <2>2, <2>3, <2>4, <3>1 DEF Controls, Top, Quick, Fallen
      <3>2. CASE n.stack \notin {m.stack, s}
        <4>1. PICK f \in {"Attack", "Magic", "Despawn"} : n.stack = Append(s, f)
          BY <2>1, <3>2 DEF Controls, s
        <4>2. Ordered(n.stack) /\ Top(n) = f
          BY <2>5, <4>1 DEF Top
        <4> QED BY <2>1, <2>2, <4>1, <4>2 DEF Controls
      <3> QED BY <3>1, <3>2
    <2>7. Living(n)
      BY <2>6 DEF Living
    <2> QED BY <2>1, <2>7, LivingGrave DEF Controls
  <1> QED BY <1>1, <1>2

\* One death has no reward queued from the moment the HP runs out until Die.
GraveInv ==
    /\ FineInv
    /\ Grave(mob, claim)
    /\ earned \in {0, 1}
    /\ mob.hp => earned = 0
    /\ Falls(mob) => earned = 1

LEMMA GraveInit == Init => GraveInv
  <1> SUFFICES ASSUME Init PROVE GraveInv
    OBVIOUS
  <1>1. PICK normal \in BOOLEAN, ticks \in {"off", "always"} : mob = NewMob(normal, ticks)
    BY DEF Init
  <1>2. /\ mob.hp /\ mob.hate = NoHate
        /\ \/ mob.stack = <<>>
           \/ mob.stack = <<"Respawn">> /\ mob.gone
    BY <1>1 DEF NewMob
  <1>3. /\ mob.stack # <<>> => mob.gone /\ Len(mob.stack) = 1 /\ Last(mob.stack) = "Respawn"
        /\ Ordered(mob.stack)
    <2>1. CASE mob.stack = <<>>
      BY <2>1 DEF Ordered
    <2>2. CASE mob.stack = <<"Respawn">> /\ mob.gone
      <3>1. Len(mob.stack) = 1 /\ mob.stack[1] = "Respawn" /\ 1..(1 - 1) = {}
        BY <2>2
      <3> QED BY <2>2, <3>1 DEF Ordered, Last
    <2> QED BY <1>2, <2>1, <2>2
  <1>4. Grave(mob, claim) /\ ~Falls(mob)
    BY <1>2, <1>3 DEF Grave, Falls, Top
  <1>5. FineInv /\ earned = 0
    BY FineInit DEF Init
  <1> QED BY <1>2, <1>4, <1>5 DEF GraveInv

\* The same mob, as far as its death is concerned.
LEMMA SameGrave ==
  ASSUME NEW m, NEW k, Grave(m, k), NEW x, x.stack = m.stack, x.hate = m.hate,
         x.owner = m.owner, x.hp = m.hp, x.gone = m.gone
  PROVE  Grave(x, k) /\ (Falls(x) <=> Falls(m))
  BY DEF Grave, Falls, Top

\* It lives, and no death of this life waits for its reward.
LEMMA LivingNext ==
  ASSUME FineInv', NEW x, mob' = x, Living(x), earned' = 0
  PROVE  GraveInv'
  <1>1. PICK k : k = claim'
    OBVIOUS
  <1>2. Grave(x, k) /\ ~Falls(x)
    BY LivingGrave
  <1>3. Grave(mob, claim)' /\ ~Falls(mob)'
    BY <1>1, <1>2 DEF Grave, Falls, Top
  <1> QED BY <1>3 DEF GraveInv

\* It has lost its last HP, and does not know yet.
LEMMA KilledNext ==
  ASSUME FineInv', NEW x, mob' = x, Quick(x.stack), ~x.hp, x.owner = claim', earned' = 1
  PROVE  GraveInv'
  <1>1. Ordered(x.stack) /\ Top(x) \notin Fallen
    BY DEF Quick, Top, Fallen
  <1>2. Grave(mob, claim)'
    BY <1>1 DEF Grave, Top, Fallen
  <1> QED BY <1>2 DEF GraveInv

\* The states, hates and claim that matter are those before.
LEMMA SameNext ==
  ASSUME GraveInv, FineInv', NEW x, mob' = x, x.stack = mob.stack, x.hate = mob.hate,
         x.owner = mob.owner, x.hp = mob.hp, x.gone = mob.gone,
         claim' = claim, earned' = earned
  PROVE  GraveInv'
  <1>1. Grave(x, claim) /\ (Falls(x) <=> Falls(mob))
    BY SameGrave DEF GraveInv
  <1>2. Grave(mob, claim)' /\ (Falls(mob)' <=> Falls(mob))
    BY <1>1 DEF Grave, Falls, Top
  <1> QED BY <1>2 DEF GraveInv

LEMMA TickGrave ==
  ASSUME GraveInv, FineInv', NEW n \in 0..mob.queue, NEW due, NEW idle, NEW lost, NEW cast,
         Tick(n, due, idle, lost, cast)
  PROVE  GraveInv'
  <1> DEFINE start == [mob EXCEPT !.queue = @ - n,
                                  !.ticks = IF @ = "last" THEN "off" ELSE @]
  <1>1. PICK m \in Controlled(start, idle, lost, cast) : \E after \in Looped(m, due) :
          /\ mob' = IF Falls(after) THEN Died(after) ELSE after
          /\ earned' = IF after.hp /\ ~mob.hp THEN 0
                       ELSE IF Falls(after) THEN earned - 1 ELSE earned
          /\ claim' = IF after.hp /\ ~mob.hp THEN None ELSE claim
    BY DEF Tick
  <1>2. PICK after \in Looped(m, due) :
          /\ mob' = IF Falls(after) THEN Died(after) ELSE after
          /\ earned' = IF after.hp /\ ~mob.hp THEN 0
                       ELSE IF Falls(after) THEN earned - 1 ELSE earned
          /\ claim' = IF after.hp /\ ~mob.hp THEN None ELSE claim
    BY <1>1
  <1>3. /\ Fine(start) /\ Settles(start) /\ Grave(start, claim)
        /\ start.hp = mob.hp /\ (Falls(start) <=> Falls(mob))
    <2>1. mob \in MobType /\ mob.queue \in Nat /\ mob.queue - n \in Nat
      BY FineFields DEF FineInv, GraveInv
    <2>2. /\ start \in MobType /\ start.stack = mob.stack /\ start.hate = mob.hate
          /\ start.owner = mob.owner /\ start.target = mob.target /\ start.anim = mob.anim
          /\ start.hp = mob.hp /\ start.gone = mob.gone
      BY <2>1 DEF MobType
    <2> HIDE DEF start
    <2> QED BY <2>2, SameFine, SameGrave DEF FineInv, GraveInv
  <1> HIDE DEF start
  <1>4. Fine(m) /\ Grave(m, claim) /\ m.hp = mob.hp /\ (Falls(m) => Falls(mob))
    BY <1>1, <1>3, ControlledFine, ControlledGrave
  <1>5. /\ Fine(after) /\ Grave(after, claim) /\ (Falls(after) => Falls(mob))
        /\ ~after.hp => ~mob.hp
        /\ after.hp /\ ~mob.hp => after.stack = <<>>
    BY <1>2, <1>4, LoopedFine, LoopedGrave
  <1>6. PICK x : x = mob'
    OBVIOUS
  <1>7. CASE Falls(after)
    <2>1. ~after.hp /\ earned' = 0 /\ claim' = claim /\ x = Died(after)
      BY <1>2, <1>5, <1>6, <1>7 DEF Falls, GraveInv
    <2>2. /\ x.stack = <<"Death">> /\ x.hate = NoHate /\ x.owner = claim
          /\ ~x.hp
      BY <1>5, <1>7, <2>1, DiedFine DEF Grave
    <2>3. Ordered(x.stack) /\ Top(x) = "Death"
      <3>1. x.stack # <<>> /\ Len(x.stack) = 1 /\ Last(x.stack) = "Death"
        BY <2>2 DEF Last
      <3> QED BY <3>1 DEF Ordered, Top
    <2>4. Grave(mob, claim)' /\ ~Falls(mob)'
      BY <1>6, <2>1, <2>2, <2>3 DEF Grave, Falls, Top
    <2> QED BY <1>6, <2>1, <2>2, <2>4 DEF GraveInv
  <1>8. CASE ~Falls(after) /\ after.hp /\ ~mob.hp
    <2>1. Living(after) /\ mob' = after /\ earned' = 0
      BY <1>2, <1>5, <1>8 DEF Living, Ordered, Top
    <2> QED BY <2>1, LivingNext
  <1>9. CASE ~Falls(after) /\ ~(after.hp /\ ~mob.hp)
    <2>1. mob' = after /\ earned' = earned /\ claim' = claim
      BY <1>2, <1>9
    <2>2. Grave(mob, claim)' /\ ~Falls(mob)'
      BY <1>5, <1>9, <2>1 DEF Grave, Falls, Top
    <2> QED BY <1>9, <2>1, <2>2 DEF GraveInv
  <1> QED BY <1>7, <1>8, <1>9

LEMMA PlayerGrave ==
  ASSUME GraveInv, FineInv', NEW c \in Char, Player(c)
  PROVE  GraveInv'
  <1>1. /\ mob \in MobType /\ mob.stack \in Seq(Frames) /\ mob.hp \in BOOLEAN
        /\ mob.hate \in [Char -> Hates] /\ None \notin Char
    BY FineFields, MobAssumption DEF FineInv, GraveInv
  <1>2. ASSUME ~IsDead(mob)
        PROVE  mob.hp /\ earned = 0 /\ Quick(mob.stack) /\ Top(mob) \notin Fallen
    BY <1>2 DEF IsDead, GraveInv, Grave, Quick, Top, Fallen
  <1>3. ASSUME NEW kills \in BOOLEAN, NEW claims \in BOOLEAN, Hit(c, kills, claims)
        PROVE  GraveInv'
    <2> DEFINE m == [mob EXCEPT !.hate[c] = "active",
                                !.owner = IF claims THEN c ELSE @]
    <2>1. /\ ~IsDead(mob) /\ mob' = Wounded(m, kills)
          /\ claim' = (IF kills THEN m.owner ELSE claim)
          /\ earned' = (IF kills THEN earned + 1 ELSE earned)
      BY <1>3 DEF Hit
    <2>2. PICK x : x = Wounded(m, kills)
      OBVIOUS
    <2>3. m.stack = mob.stack /\ m.hp = mob.hp
      BY <1>1 DEF MobType
    <2>4. x.stack = mob.stack /\ (kills => ~x.hp /\ x.owner = m.owner) /\ (~kills => x.hp = mob.hp)
      BY <1>1, <2>2, <2>3 DEF Wounded, MobType
    <2> HIDE DEF m
    <2>5. CASE kills
      <3>1. Quick(x.stack) /\ earned = 0
        BY <1>2, <2>1, <2>4
      <3>2. mob' = x /\ ~x.hp /\ x.owner = claim' /\ earned' = 1
        <4>1. claim' = m.owner /\ earned' = earned + 1
          BY <2>1, <2>5
        <4>2. ~x.hp /\ x.owner = m.owner
          BY <2>4, <2>5
        <4> QED BY <2>1, <2>2, <3>1, <4>1, <4>2
      <3> QED BY <3>1, <3>2, KilledNext
    <2>6. CASE ~kills
      <3>1. Living(x)
        BY <1>2, <2>1, <2>4, <2>6 DEF Living, Top, Quick, Fallen
      <3> QED BY <1>2, <2>1, <2>2, <2>6, <3>1, LivingNext
    <2> QED BY <2>5, <2>6
  <1>4. CASE Linked(c)
    <2>1. ~IsDead(mob) /\ mob' = [mob EXCEPT !.hate[c] = "base"] /\ earned' = earned
      BY <1>4 DEF Linked
    <2>2. PICK x : x = mob'
      OBVIOUS
    <2>3. x.stack = mob.stack /\ x.hp = mob.hp
      BY <1>1, <2>1, <2>2 DEF MobType
    <2>4. Living(x)
      BY <1>2, <2>1, <2>3 DEF Living, Top, Quick, Fallen
    <2> QED BY <1>2, <2>1, <2>2, <2>4, LivingNext
  <1>5. CASE Stunned(c)
    <2> DEFINE s == Interrupted(mob.stack)
    <2>1. /\ ~IsDead(mob) /\ earned' = earned
          /\ mob' = [mob EXCEPT !.stack = Append(s, "Stun")]
      BY <1>1, <1>5 DEF Stunned, Push, MobType
    <2>2. Quick(s) /\ s \in Seq(Frames)
      BY <1>1, <1>2, <2>1, QuickKeeps, SettledBelow, BelowKeeps
    <2> HIDE DEF s
    <2>3. PICK x : x = mob'
      OBVIOUS
    <2>4. x.stack = Append(s, "Stun") /\ x.hp = mob.hp
      BY <1>1, <2>1, <2>3 DEF MobType
    <2>5. Quick(x.stack)
      BY <2>2, <2>4, QuickKeeps DEF Frames, Fallen
    <2>6. Living(x)
      BY <1>2, <2>1, <2>4, <2>5 DEF Living, Top, Quick, Fallen
    <2> QED BY <1>2, <2>1, <2>3, <2>6, LivingNext
  <1>6. CASE Fall(c) \/ Raised(c) \/ Enter(c)
    <2>1. PICK x : x = mob'
      OBVIOUS
    <2>2. /\ x.stack = mob.stack /\ x.hate = mob.hate /\ x.owner = mob.owner
          /\ x.hp = mob.hp /\ x.gone = mob.gone /\ claim' = claim /\ earned' = earned
      BY <1>1, <1>6, <2>1 DEF Fall, Raised, Enter, MobType
    <2> QED BY <2>1, <2>2, SameNext
  <1>7. CASE Leave(c)
    <2> DEFINE x == Released(mob, c)
               h == [mob.hate EXCEPT ![c] = IF @ = "none" THEN @ ELSE "left"]
               stops == Here = {c} /\ mob.ticks # "always"
    <2>1. /\ x.stack = mob.stack /\ x.hp = mob.hp /\ x.gone = mob.gone /\ x.hate = h
          /\ x.owner = IF mob.owner = c THEN None ELSE mob.owner
          /\ x \in MobType
      <3>1. h \in [Char -> Hates]
        BY <1>1 DEF Hates
      <3> QED BY <1>1, <3>1 DEF Released, MobType
    <2>2. mob.hate = NoHate => h = NoHate
      BY <1>1 DEF NoHate
    <2>3. /\ mob' = (IF stops THEN Healed(x) ELSE x)
          /\ earned' = (IF stops /\ ~mob.hp THEN 0 ELSE earned)
          /\ claim' = (IF claim = c THEN None ELSE claim)
      BY <1>7 DEF Leave
    <2> HIDE DEF x, h
    <2>4. Grave(x, claim') /\ (Falls(x) <=> Falls(mob))
      BY <2>1, <2>2, <2>3 DEF GraveInv, Grave, Falls, Top
    <2>5. PICK y : y = mob'
      OBVIOUS
    <2>6. /\ y.stack = x.stack /\ y.gone = x.gone /\ y.hate = x.hate /\ y.owner = x.owner
          /\ (stops => y.hp) /\ (~stops => y.hp = x.hp)
      BY <2>1, <2>3, <2>5 DEF Healed, MobType
    <2> HIDE DEF stops
    <2>7. Grave(mob, claim)' /\ (Falls(mob)' => Falls(mob) /\ ~stops)
      BY <2>4, <2>5, <2>6 DEF Grave, Falls, Top
    <2>8. /\ y.hp => earned' = 0
          /\ Falls(mob)' => earned' = 1
          /\ earned' \in {0, 1}
      <3>1. CASE stops
        BY <1>1, <2>3, <2>7, <3>1 DEF GraveInv
      <3>2. CASE ~stops
        BY <1>1, <2>1, <2>3, <2>6, <2>7, <3>2 DEF GraveInv
      <3> QED BY <3>1, <3>2
    <2>9. (mob.hp => earned = 0)' /\ (Falls(mob) => earned = 1)' /\ (earned \in {0, 1})'
      BY <2>5, <2>8, Zenon
    <2> QED BY <2>7, <2>9 DEF GraveInv
  <1> QED BY <1>3, <1>4, <1>5, <1>6, <1>7 DEF Player

LEMMA GraveNext == ASSUME NoWait PROVE GraveInv /\ [Next]_vars => GraveInv'
  <1> SUFFICES ASSUME GraveInv, [Next]_vars PROVE GraveInv'
    OBVIOUS
  <1>1. FineInv'
    BY FineNext DEF GraveInv
  <1>2. /\ mob \in MobType /\ mob.stack \in Seq(Frames) /\ mob.hp \in BOOLEAN
    BY FineFields DEF FineInv, GraveInv
  <1>3. ASSUME ~IsDead(mob)
        PROVE  mob.hp /\ earned = 0 /\ Quick(mob.stack)
    BY <1>3 DEF IsDead, GraveInv, Grave, Quick, Top, Fallen
  <1>4. ASSUME NEW n \in 0 .. mob.queue, NEW due \in 0 .. Len(mob.stack),
               NEW idle \in {FALSE, mob.timer}, NEW lost \in SUBSET Alive,
               NEW cast \in {FALSE, mob.anim = "attack"},
               Tick(n, due, idle, lost, cast)
        PROVE  GraveInv'
    BY <1>1, <1>4, TickGrave
  <1>5. ASSUME NEW c \in Char, Player(c)  PROVE  GraveInv'
    BY <1>1, <1>5, PlayerGrave
  <1>6. CASE Poisoned
    <2>1. /\ ~IsDead(mob) /\ mob' = [mob EXCEPT !.hp = FALSE] /\ claim' = mob.owner
          /\ earned' = earned + 1
      BY <1>6 DEF Poisoned, Wounded
    <2>2. PICK x : x = mob'
      OBVIOUS
    <2>3. x.stack = mob.stack /\ ~x.hp /\ x.owner = mob.owner
      BY <1>2, <2>1, <2>2 DEF MobType
    <2>4. Quick(x.stack) /\ earned = 0
      BY <1>3, <2>1, <2>3
    <2>5. mob' = x /\ ~x.hp /\ x.owner = claim' /\ earned' = 1
      BY <2>1, <2>2, <2>3, <2>4
    <2> QED BY <1>1, <2>4, <2>5, KilledNext
  <1>7. CASE Wait
    <2> DEFINE s == Settled(mob.stack)
    <2>1. /\ ~IsDead(mob) /\ earned' = earned
          /\ mob' = [mob EXCEPT !.stack = Append(s, "Wait")]
      BY <1>2, <1>7 DEF Wait, Push, NoWait, MobType
    <2>2. Quick(s) /\ s \in Seq(Frames)
      BY <1>2, <1>3, <2>1, QuickKeeps, SettledBelow, BelowKeeps
    <2> HIDE DEF s
    <2>3. PICK x : x = mob'
      OBVIOUS
    <2>4. x.stack = Append(s, "Wait") /\ x.hp = mob.hp
      BY <1>2, <2>1, <2>3 DEF MobType
    <2>5. Quick(x.stack)
      BY <2>2, <2>4, QuickKeeps DEF Frames, Fallen
    <2>6. Living(x)
      BY <1>3, <2>1, <2>4, <2>5 DEF Living, Top, Quick, Fallen
    <2> QED BY <1>1, <1>3, <2>1, <2>3, <2>6, LivingNext
  <1>8. ASSUME NEW allow \in BOOLEAN, Reborn(allow)  PROVE  GraveInv'
    <2> DEFINE y == Spawned(mob)
    <2>1. PICK x : x = [y EXCEPT !.allow = allow]
      OBVIOUS
    <2>2. mob' = x /\ earned' = 0
      BY <1>8, <2>1 DEF Reborn
    <2>3. Fine(y) /\ y.stack = <<>> /\ y.hp
      BY SpawnedFine DEF FineInv, GraveInv
    <2> HIDE DEF y
    <2>4. y \in MobType
      BY <2>3, FineFields
    <2>5. x.stack = <<>> /\ x.hp
      BY <2>1, <2>3, <2>4 DEF MobType
    <2>6. Living(x)
      BY <2>5 DEF Living, Ordered, Top
    <2> QED BY <1>1, <2>2, <2>6, LivingNext
  <1>9. CASE SpawnMob \/ Night
    <2>1. mob.allow \in BOOLEAN
      BY <1>2 DEF MobType
    <2> QED BY <1>8, <1>9, <2>1 DEF SpawnMob, Night
  <1>10. CASE Dawn \/ \E yes \in BOOLEAN : DisallowRespawn(yes)
    <2>1. PICK x : x = mob'
      OBVIOUS
    <2>2. /\ x.stack = mob.stack /\ x.hate = mob.hate /\ x.owner = mob.owner
          /\ x.hp = mob.hp /\ x.gone = mob.gone /\ claim' = claim /\ earned' = earned
      BY <1>2, <1>10, <2>1 DEF Dawn, DisallowRespawn, MobType
    <2> QED BY <1>1, <2>1, <2>2, SameNext
  <1>11. CASE DespawnMob
    <2>1. PICK x : x = mob'
      OBVIOUS
    <2>2. x = Despawning(mob) /\ claim' = claim /\ earned' = earned
      BY <1>11, <2>1 DEF DespawnMob
    <2>3. CASE Top(mob) \in {"Despawn", "Respawn"}
      <3>1. x = mob
        BY <2>2, <2>3 DEF Despawning
      <3> QED BY <1>1, <2>1, <2>2, <3>1, SameNext
    <2>4. CASE Top(mob) \notin {"Despawn", "Respawn"}
      <3> DEFINE s == Settled(mob.stack)
      <3>1. x = [mob EXCEPT !.stack = Append(s, "Despawn")]
        BY <1>2, <2>2, <2>4 DEF Despawning, Push, MobType
      <3>2. s \in Seq(Frames) /\ Ordered(s)
        BY <1>2, SettledBelow, BelowKeeps DEF GraveInv, Grave
      <3> HIDE DEF s
      <3>3. /\ Ordered(Append(s, "Despawn")) /\ Last(Append(s, "Despawn")) = "Despawn"
            /\ Append(s, "Despawn") # <<>>
        BY <3>2, AppendKeeps DEF Frames
      <3>4. x.stack = Append(s, "Despawn") /\ x.hp = mob.hp
        BY <1>2, <3>1 DEF MobType
      <3>5. Ordered(x.stack) /\ Top(x) = "Despawn"
        BY <3>3, <3>4 DEF Top
      <3>6. Grave(mob, claim)' /\ ~Falls(mob)'
        BY <2>1, <3>5 DEF Grave, Falls, Top
      <3>7. (x.hp => earned' = 0) /\ earned' \in {0, 1}
        BY <2>2, <3>4 DEF GraveInv
      <3>8. (mob.hp => earned = 0)' /\ (Falls(mob) => earned = 1)' /\ (earned \in {0, 1})'
        BY <2>1, <3>6, <3>7, Zenon
      <3> QED BY <1>1, <3>6, <3>8 DEF GraveInv
    <2> QED BY <2>3, <2>4
  <1>12. CASE UNCHANGED vars
    <2>1. PICK x : x = mob
      OBVIOUS
    <2> QED BY <1>1, <1>12, <2>1, SameNext DEF vars
  <1> QED BY ZenonT(30), <1>4, <1>5, <1>6, <1>7, <1>9, <1>10, <1>11, <1>12 DEF Next, Script

\* A life pays one reward (PostTick, CMobEntity::Die), as long as no script has
\* a corpse wait.
THEOREM RewardOnceAlways == ASSUME NoWait PROVE Spec => []RewardOnce
  <1>1. GraveInv => RewardOnce
    BY DEF GraveInv, RewardOnce
  <1>2. GraveInv /\ [Next]_vars => GraveInv'
    BY GraveNext
  <1> QED BY <1>1, <1>2, GraveInit, PTL DEF Spec

\* A corpse hates nobody and keeps the claim of the kill (CMobEntity::Die,
\* DistributeRewards), as long as no script has a corpse wait.
THEOREM CorpseKeepsClaimAlways == ASSUME NoWait PROVE Spec => []CorpseKeepsClaim
  <1>1. GraveInv => CorpseKeepsClaim
    BY DEF GraveInv, Grave, CorpseKeepsClaim, Hated, NoHate
  <1>2. GraveInv /\ [Next]_vars => GraveInv'
    BY GraveNext
  <1> QED BY <1>1, <1>2, GraveInit, PTL DEF Spec
=============================================================================
