---------------------------- MODULE PartyProofs ----------------------------
(***************************************************************************)
(* What Party keeps for any characters, servers and size of a party: the    *)
(* types, and that nobody is in two objects or in one of a server that is    *)
(* not his, in every circumstance that Trouble may allow; that a party has   *)
(* one leader, and that the servers agree with the rows, where Trouble is    *)
(* empty.                                                                  *)
(***************************************************************************)
EXTENDS Party, WellFoundedInduction, TLAPS

-----------------------------------------------------------------------------
(***************************************************************************)
(* The objects.                                                            *)
(***************************************************************************)
PartyType == [on : Server, id : Char, leader : Char \cup {NoChar, Gone},
              members : SUBSET Char]

\* OneParty, and the types, for objects P and the characters' servers z.
Sound(P, z) ==
    /\ P \subseteq PartyType
    /\ \A p \in P : p.members # {}
    /\ \A p, q \in P : p.members \cap q.members # {} => p = q
    /\ \A p \in P : \A c \in p.members : z[c] = p.on

\* P with q in the place of p, unless q has no members.
Swapped(P, p, q) == (P \ {p}) \cup (IF q.members = {} THEN {} ELSE {q})

\* What takes p's place must have its members from nobody else.
LEMMA SwapSound ==
  ASSUME NEW P, NEW z, Sound(P, z), NEW p, NEW q \in PartyType,
         \A r \in P : r # p => r.members \cap q.members = {},
         \A c \in q.members : z[c] = q.on
  PROVE  Sound(Swapped(P, p, q), z)
  <1> DEFINE S == Swapped(P, p, q)
  <1>1. \A r \in S : (r \in P /\ r # p) \/ (r = q /\ q.members # {})
    BY DEF Swapped
  <1> HIDE DEF S
  <1>2. S \subseteq PartyType
    BY <1>1 DEF Sound
  <1>3. \A r \in S : r.members # {}
    BY <1>1 DEF Sound
  <1>4. ASSUME NEW r \in S, NEW t \in S, r.members \cap t.members # {}  PROVE  r = t
    <2>1. CASE r = q
      BY <1>1, <1>4, <2>1
    <2>2. CASE t = q
      BY <1>1, <1>4, <2>2
    <2>3. CASE r # q /\ t # q
      <3>1. r \in P /\ t \in P
        BY <1>1, <2>3
      <3> QED BY <1>4, <3>1 DEF Sound
    <2> QED BY <2>1, <2>2, <2>3
  <1>5. \A r \in S : \A c \in r.members : z[c] = r.on
    BY <1>1 DEF Sound
  <1> QED BY <1>2, <1>3, <1>4, <1>5 DEF Sound, S

\* Members that go: q is p with fewer of them.
LEMMA FewerSound ==
  ASSUME NEW P, NEW z, Sound(P, z), NEW p \in P, NEW q \in PartyType,
         q.members \subseteq p.members, q.on = p.on
  PROVE  /\ Sound(Swapped(P, p, q), z)
         /\ \A c \in p.members : c \notin q.members =>
               \A r \in Swapped(P, p, q) : c \notin r.members
  <1>1. \A r \in P : r # p => r.members \cap p.members = {}
    BY DEF Sound
  <1>2. \A r \in P : r # p => r.members \cap q.members = {}
    BY <1>1
  <1>3. \A c \in q.members : z[c] = q.on
    BY DEF Sound
  <1>4. ASSUME NEW c \in p.members, c \notin q.members, NEW r \in Swapped(P, p, q)
        PROVE  c \notin r.members
    BY <1>1, <1>4 DEF Swapped
  <1> QED BY <1>2, <1>3, <1>4, SwapSound

\* A member that comes.
LEMMA OneMoreSound ==
  ASSUME NEW P, NEW z, Sound(P, z), NEW p, p \in P \/ p.members = {},
         NEW q \in PartyType, NEW c, q.members \subseteq p.members \cup {c},
         q.on = p.on, z[c] = p.on, \A r \in P : r # p => c \notin r.members
  PROVE  Sound(Swapped(P, p, q), z)
  <1>1. \A r \in P : r # p => r.members \cap q.members = {}
    BY DEF Sound
  <1>2. \A d \in q.members : z[d] = q.on
    BY DEF Sound
  <1> QED BY <1>1, <1>2, SwapSound

\* An object that is deleted.
LEMMA GoneSound ==
  ASSUME NEW P, NEW z, Sound(P, z), NEW p \in P
  PROVE  /\ Sound(P \ {p}, z)
         /\ \A c \in p.members : \A r \in P \ {p} : c \notin r.members
  BY DEF Sound

\* A character that no object has comes, goes or stays away.
LEMMA MovedSound ==
  ASSUME NEW P, NEW z \in [Char -> Server \cup {NoServer}], Sound(P, z), NEW c \in Char,
         NEW s, \A p \in P : c \notin p.members
  PROVE  Sound(P, [z EXCEPT ![c] = s])
  <1>1. \A p \in P : p.members \subseteq Char
    BY DEF Sound, PartyType
  <1> QED BY <1>1 DEF Sound

-----------------------------------------------------------------------------
(***************************************************************************)
(* The types.                                                              *)
(***************************************************************************)
RowType == {NoRow} \cup [party : Char, leader : BOOLEAN]
OutMessage == {m \in Messages : m.type \notin {"reload", "disband"} => m.char \in Char}
InMessage == {m \in [type : {"reload", "reload_of", "disband", "invite", "answer"},
                     first : Char, party : Char, char : Char \cup {NoChar}] :
                 m.type \notin {"reload", "disband"} => m.char \in Char}

Rows == rows \in [Char -> RowType]
Out == outbox \in [Server -> Seq(OutMessage)]
In == inbox \in [Server -> Seq(InMessage)]
Places ==
    /\ server_addr \in [Char -> Server \cup {NoServer}]
    /\ zone \in [Char -> Server \cup {NoServer}]
    /\ moving \subseteq Char /\ reload \subseteq Char
    /\ pending \in [Char -> Char \cup {NoChar}]

PartyInv == Rows /\ Out /\ In /\ Places /\ Sound(parties, zone)

LEMMA PartyFields ==
  ASSUME NEW p \in PartyType
  PROVE  /\ p = [on |-> p.on, id |-> p.id, leader |-> p.leader, members |-> p.members]
         /\ p.on \in Server /\ p.id \in Char /\ p.leader \in Char \cup {NoChar, Gone}
         /\ p.members \subseteq Char
  BY DEF PartyType

\* A party with another name, another leader or other members.
LEMMA Renamed ==
  ASSUME NEW p \in PartyType, NEW i \in Char
  PROVE  LET q == [p EXCEPT !.id = i] IN
         q \in PartyType /\ q.on = p.on /\ q.members = p.members
  <1>1. ASSUME NEW q, q = [p EXCEPT !.id = i]
        PROVE  q \in PartyType /\ q.on = p.on /\ q.members = p.members
    BY <1>1 DEF PartyType
  <1> QED BY <1>1

LEMMA LeaderChanged ==
  ASSUME NEW p \in PartyType, NEW l \in Char \cup {NoChar, Gone}
  PROVE  LET q == [p EXCEPT !.leader = l] IN
         q \in PartyType /\ q.on = p.on /\ q.id = p.id /\ q.members = p.members
  <1>1. ASSUME NEW q, q = [p EXCEPT !.leader = l]
        PROVE  q \in PartyType /\ q.on = p.on /\ q.id = p.id /\ q.members = p.members
    BY <1>1 DEF PartyType
  <1> QED BY <1>1

LEMMA MembersChanged ==
  ASSUME NEW p \in PartyType, NEW ms \in SUBSET Char
  PROVE  LET q == [p EXCEPT !.members = ms] IN
         q \in PartyType /\ q.on = p.on /\ q.id = p.id /\ q.members = ms
  <1>1. ASSUME NEW q, q = [p EXCEPT !.members = ms]
        PROVE  q \in PartyType /\ q.on = p.on /\ q.id = p.id /\ q.members = ms
    BY <1>1 DEF PartyType
  <1> QED BY <1>1

LEMMA SentTyped ==
  ASSUME NEW id \in Char
  PROVE  Reload(id) \in OutMessage /\ Disband(id) \in OutMessage
  BY DEF Reload, Disband, OutMessage, Messages

LEMMA SentAboutTyped ==
  ASSUME NEW id \in Char, NEW c \in Char
  PROVE  /\ ReloadOf(id, c) \in OutMessage
         /\ [type |-> "invite", party |-> id, char |-> c] \in OutMessage
         /\ [type |-> "answer", party |-> id, char |-> c] \in OutMessage
  BY DEF ReloadOf, OutMessage, Messages

LEMMA SendTyped ==
  ASSUME Out, NEW s \in Server, NEW ms \in Seq(OutMessage), Send(s, ms)
  PROVE  Out'
  <1>1. outbox[s] \o ms \in Seq(OutMessage)
    BY DEF Out
  <1> QED BY <1>1 DEF Out, Send

LEMMA Member ==
  ASSUME PartyInv, NEW c, InParty(c)
  PROVE  /\ PParty(c) \in parties /\ PParty(c) \in PartyType /\ c \in PParty(c).members
         /\ \A r \in parties : r # PParty(c) => c \notin r.members
         /\ c \in Char /\ zone[c] = PParty(c).on
  <1>1. PParty(c) \in parties /\ c \in PParty(c).members
    BY DEF InParty, PParty
  <1>2. PParty(c) \in PartyType
    BY <1>1 DEF PartyInv, Sound
  <1>3. PParty(c).members \subseteq Char
    BY <1>2, PartyFields
  <1> QED BY <1>1, <1>2, <1>3 DEF PartyInv, Sound

\* The statements on the rows.
LEMMA RowsTyped ==
  ASSUME NEW db \in [Char -> RowType], NEW c \in Char, NEW id \in Char
  PROVE  /\ Without(db, c) \in [Char -> RowType]
         /\ Inserted(db, c, id) \in [Char -> RowType]
         /\ LedRows(db, id, c) \in [Char -> RowType]
  <1>1. Without(db, c) \in [Char -> RowType]
    BY DEF Without, RowType
  <1>2. Inserted(db, c, id) \in [Char -> RowType]
    BY DEF Inserted, RowType
  <1>3. ASSUME NEW d \in Char
        PROVE  LedRows(db, id, c)[d] \in RowType
    <2> DEFINE r == IF db[d].party = id THEN [party |-> c, leader |-> FALSE] ELSE db[d]
    <2>1. r \in RowType
      BY DEF RowType
    <2> HIDE DEF r
    <2>2. r # NoRow => [r EXCEPT !.leader = TRUE] \in RowType
      BY <2>1 DEF RowType
    <2>3. LedRows(db, id, c)[d] = IF d = c /\ r # NoRow THEN [r EXCEPT !.leader = TRUE] ELSE r
      BY DEF LedRows, r
    <2> QED BY <2>1, <2>2, <2>3
  <1>4. LedRows(db, id, c) = [d \in Char |-> LedRows(db, id, c)[d]]
    BY DEF LedRows
  <1> QED BY <1>1, <1>2, <1>3, <1>4

LEMMA LedTyped ==
  ASSUME NEW p \in PartyType, NEW n \in Char
  PROVE  /\ Led(p, n) \in PartyType /\ Led(p, n).on = p.on /\ Led(p, n).id = n
         /\ Led(p, n).members = p.members
  <1> DEFINE l == IF n \in p.members THEN n ELSE NoChar
  <1>1. l \in Char \cup {NoChar}
    OBVIOUS
  <1> HIDE DEF l
  <1> DEFINE q == [p EXCEPT !.id = n, !.leader = l]
  <1>2. q \in PartyType /\ q.on = p.on /\ q.id = n /\ q.members = p.members
    BY <1>1 DEF PartyType
  <1> QED BY <1>2 DEF Led, l

LEMMA RefreshedTyped ==
  ASSUME NEW p \in PartyType, NEW db
  PROVE  /\ Refreshed(p, db) \in PartyType /\ Refreshed(p, db).on = p.on
         /\ Refreshed(p, db).members = p.members
  <1> DEFINE leaders == {c \in RowsOf(db, p.id) : db[c].leader}
             l == CHOOSE c \in leaders : TRUE
             k == IF l \in p.members THEN l ELSE NoChar
             q == [p EXCEPT !.leader = k]
  <1>1. CASE leaders = {}
    BY <1>1 DEF Refreshed
  <1>2. CASE leaders # {}
    <2>1. l \in Char
      BY <1>2 DEF RowsOf
    <2>2. k \in Char \cup {NoChar}
      BY <2>1
    <2>3. Refreshed(p, db) = q
      BY <1>2 DEF Refreshed
    <2> HIDE DEF k
    <2>4. q \in PartyType /\ q.on = p.on /\ q.members = p.members
      BY <2>2, LeaderChanged
    <2> QED BY <2>3, <2>4
  <1> QED BY <1>1, <1>2

-----------------------------------------------------------------------------
(***************************************************************************)
(* The operations of CParty.                                               *)
(***************************************************************************)
\* What they leave: rows, messages and objects that are sound.
Done == Rows' /\ Out' /\ Sound(parties', zone)

\* No object has c.
Out1(c) == \A r \in parties' : c \notin r.members

LEMMA DisbandSound ==
  ASSUME PartyInv, NEW p \in parties, NEW id \in Char, NEW db \in [Char -> RowType],
         NEW told, DisbandParty(p, id, db, told)
  PROVE  Done /\ \A c \in p.members : Out1(c)
  <1>1. p \in PartyType /\ p.on \in Server
    BY PartyFields DEF PartyInv, Sound
  <1>2. Rows'
    BY DEF DisbandParty, Rows, RowType
  <1>3. Out'
    <2>1. <<Disband(id)>> \in Seq(OutMessage)
      BY SentTyped
    <2>2. CASE told
      BY <1>1, <2>1, <2>2, SendTyped DEF DisbandParty, PartyInv
    <2>3. CASE ~told
      BY <2>3 DEF DisbandParty, PartyInv, Out
    <2> QED BY <2>2, <2>3
  <1>4. Sound(parties', zone) /\ \A c \in p.members : Out1(c)
    BY GoneSound DEF DisbandParty, PartyInv, Out1
  <1> QED BY <1>2, <1>3, <1>4 DEF Done

LEMMA ErasedSound ==
  ASSUME PartyInv, NEW p \in parties, NEW q \in PartyType, q.on = p.on,
         q.members = p.members, NEW db \in [Char -> RowType], NEW c \in p.members,
         Erased(p, q, db, c)
  PROVE  Done /\ Out1(c)
  <1>1. p \in PartyType /\ p.on \in Server /\ c \in Char /\ q.id \in Char
        /\ p.members \subseteq Char
    BY PartyFields DEF PartyInv, Sound
  <1>2. Rows'
    BY <1>1, RowsTyped DEF Erased, Rows
  <1>3. Out'
    <2>1. <<Reload(q.id)>> \in Seq(OutMessage)
      BY <1>1, SentTyped
    <2> QED BY <1>1, <2>1, SendTyped DEF Erased, PartyInv
  <1> DEFINE ms == q.members \ {c}
             n == [q EXCEPT !.members = ms]
  <1>4. ms \subseteq Char /\ ms \subseteq p.members /\ c \notin ms
    BY <1>1
  <1>5. parties' = Swapped(parties, p, n)
    BY DEF Erased, Replaced, Swapped
  <1> HIDE DEF ms
  <1>6. n \in PartyType /\ n.on = p.on /\ n.members = ms
    BY <1>4, MembersChanged
  <1> HIDE DEF n
  <1>7. Sound(parties', zone) /\ Out1(c)
    BY <1>4, <1>5, <1>6, FewerSound DEF PartyInv, Out1
  <1> QED BY <1>2, <1>3, <1>7 DEF Done

LEMMA RemoveLeaderSound ==
  ASSUME PartyInv, NEW c, InParty(c), RemovePartyLeader(c)
  PROVE  Done /\ Out1(c)
  <1> DEFINE p == PParty(c)
             others == {d \in RowsOf(rows, p.id) : ~ rows[d].leader}
  <1>1. p \in parties /\ p \in PartyType /\ c \in p.members /\ c \in Char
    BY Member
  <1>2. p.id \in Char /\ rows \in [Char -> RowType]
    BY <1>1, PartyFields DEF PartyInv, Rows
  <1> HIDE DEF p
  <1>3. CASE others = {} /\ DisbandParty(p, p.id, rows, TRUE)
    BY <1>1, <1>2, <1>3, DisbandSound
  <1>4. ASSUME NEW n \in others,
               LET db == LedRows(rows, p.id, n)
               IN IF n = c THEN DisbandParty(p, n, db, TRUE)
                  ELSE Erased(p, Led(p, n), db, c)
        PROVE  Done /\ Out1(c)
    <2>1. n \in Char
      BY DEF RowsOf
    <2> DEFINE db == LedRows(rows, p.id, n)
    <2>2. db \in [Char -> RowType]
      BY <1>2, <2>1, RowsTyped
    <2>3. Led(p, n) \in PartyType /\ Led(p, n).on = p.on /\ Led(p, n).members = p.members
      BY <1>1, <2>1, LedTyped
    <2>4. DisbandParty(p, n, db, TRUE) \/ Erased(p, Led(p, n), db, c)
      BY <1>4
    <2> HIDE DEF db
    <2> QED BY <1>1, <2>1, <2>2, <2>3, <2>4, DisbandSound, ErasedSound
  <1> QED BY <1>3, <1>4 DEF RemovePartyLeader, p

LEMMA RemoveMemberSound ==
  ASSUME PartyInv, NEW c, InParty(c), RemoveMember(c)
  PROVE  Done /\ Out1(c)
  <1>1. PParty(c) \in parties /\ PParty(c) \in PartyType /\ c \in PParty(c).members
    BY Member
  <1>2. rows \in [Char -> RowType]
    BY DEF PartyInv, Rows
  <1> QED BY <1>1, <1>2, RemoveLeaderSound, ErasedSound DEF RemoveMember

\* The party that i has, or starts.
PartyOf(i) == IF InParty(i) THEN PParty(i) ELSE Founded(i)

LEMMA PartyOfSound ==
  ASSUME PartyInv, NEW i \in Char, zone[i] \in Server
  PROVE  LET p == PartyOf(i) IN
         /\ p \in PartyType /\ i \in p.members /\ p.on = zone[i] /\ p.members # {}
         /\ \A r \in parties : r # p => r.members \cap p.members = {}
         /\ \A c \in p.members : zone[c] = p.on
         /\ ~InParty(i) => p.members = {i}
  <1>1. CASE InParty(i)
    <2>1. PParty(i) \in parties /\ PParty(i) \in PartyType /\ i \in PParty(i).members
          /\ zone[i] = PParty(i).on
      BY <1>1, Member
    <2>2. PartyOf(i) = PParty(i)
      BY <1>1 DEF PartyOf
    <2> QED BY <1>1, <2>1, <2>2 DEF PartyInv, Sound
  <1>2. CASE ~InParty(i)
    <2>1. Founded(i) \in PartyType /\ Founded(i).members = {i} /\ Founded(i).on = zone[i]
      BY DEF Founded, PartyType
    <2>2. \A r \in parties : i \notin r.members
      BY <1>2 DEF InParty
    <2>3. PartyOf(i) = Founded(i)
      BY <1>2 DEF PartyOf
    <2> QED BY <2>1, <2>2, <2>3
  <1> QED BY <1>1, <1>2

LEMMA PartyRowsTyped ==
  ASSUME PartyInv, NEW i \in Char
  PROVE  (IF InParty(i) THEN rows ELSE FoundedRows(i)) \in [Char -> RowType]
  <1>1. rows \in [Char -> RowType]
    BY DEF PartyInv, Rows
  <1>2. Inserted(rows, i, i) \in [Char -> RowType]
    BY <1>1, RowsTyped
  <1>3. FoundedRows(i) \in [Char -> RowType]
    BY <1>2, RowsTyped DEF FoundedRows
  <1> QED BY <1>1, <1>3

LEMMA AddMemberSound ==
  ASSUME PartyInv, NEW i \in Char, NEW c \in Char, zone[i] \in Server,
         zone[c] = zone[i], ~InParty(c), AddMember(i, c)
  PROVE  Done
  <1> DEFINE p == PartyOf(i)
             db == IF InParty(i) THEN rows ELSE FoundedRows(i)
             ms == p.members \cup {c}
             q == [p EXCEPT !.members = ms]
             tell == (IF InParty(i) THEN <<>> ELSE <<Reload(i)>>) \o <<Reload(p.id)>>
  <1>1. /\ parties' = (parties \ {p}) \cup {q}
        /\ rows' = Inserted(db, c, p.id) /\ Send(p.on, tell)
    BY DEF AddMember, PartyOf
  <1>2. /\ p \in PartyType /\ p.on = zone[i] /\ p.id \in Char /\ p.on \in Server
        /\ p.members \subseteq Char
        /\ \A r \in parties : r # p => r.members \cap p.members = {}
        /\ \A d \in p.members : zone[d] = p.on
    BY PartyOfSound, PartyFields
  <1>3. db \in [Char -> RowType]
    BY PartyRowsTyped
  <1> HIDE DEF p, db
  <1>4. Rows'
    BY <1>1, <1>2, <1>3, RowsTyped DEF Rows
  <1>5. Out'
    <2>1. Reload(i) \in OutMessage /\ Reload(p.id) \in OutMessage
      BY <1>2, SentTyped
    <2>2. tell \in Seq(OutMessage)
      BY <2>1
    <2> HIDE DEF tell
    <2> QED BY <1>1, <1>2, <2>2, SendTyped DEF PartyInv
  <1>6. ms \subseteq Char /\ c \in ms
    BY <1>2
  <1>7. \A r \in parties : r # p => r.members \cap ms = {}
    BY <1>2 DEF InParty
  <1>8. \A d \in ms : zone[d] = p.on
    BY <1>2
  <1> HIDE DEF ms
  <1>9. q \in PartyType /\ q.on = p.on /\ q.members = ms
    BY <1>2, <1>6, MembersChanged
  <1> HIDE DEF q
  <1>10. parties' = Swapped(parties, p, q)
    BY <1>1, <1>6, <1>9 DEF Swapped
  <1>11. Sound(parties', zone)
    BY <1>7, <1>8, <1>9, <1>10, SwapSound DEF PartyInv
  <1> QED BY <1>4, <1>5, <1>11 DEF Done


LEMMA AddElsewhereSound ==
  ASSUME PartyInv, NEW i \in Char, NEW c \in Char, zone[i] \in Server,
         AddMemberElsewhere(i, c)
  PROVE  Done
  <1> DEFINE p == PartyOf(i)
             db == IF InParty(i) THEN rows ELSE FoundedRows(i)
             free == p.leader = i /\ db[c] = NoRow
             tell == (IF InParty(i) THEN <<>> ELSE <<Reload(i)>>)
                         \o (IF free THEN <<ReloadOf(p.id, c)>> ELSE <<>>)
  <1>1. /\ parties' = parties \cup {p}
        /\ rows' = (IF free THEN Inserted(db, c, p.id) ELSE db)
        /\ Send(p.on, tell)
    BY DEF AddMemberElsewhere, PartyOf
  <1>2. /\ p \in PartyType /\ p.on = zone[i] /\ p.id \in Char /\ p.on \in Server
        /\ p.members # {}
        /\ \A r \in parties : r # p => r.members \cap p.members = {}
        /\ \A d \in p.members : zone[d] = p.on
    BY PartyOfSound, PartyFields
  <1>3. db \in [Char -> RowType]
    BY PartyRowsTyped
  <1> HIDE DEF p, db
  <1>4. Rows'
    BY <1>1, <1>2, <1>3, RowsTyped DEF Rows
  <1>5. Out'
    <2>1. Reload(i) \in OutMessage /\ ReloadOf(p.id, c) \in OutMessage
      BY <1>2, SentTyped, SentAboutTyped
    <2> HIDE DEF free
    <2>2. tell \in Seq(OutMessage)
      BY <2>1
    <2> HIDE DEF tell
    <2> QED BY <1>1, <1>2, <2>2, SendTyped DEF PartyInv
  <1>6. parties' = Swapped(parties, p, p)
    BY <1>1, <1>2 DEF Swapped
  <1>7. Sound(parties', zone)
    BY <1>2, <1>6, SwapSound DEF PartyInv
  <1> QED BY <1>4, <1>5, <1>7 DEF Done

\* ReloadParty of a character that has a row.
LEMMA RejoinSound ==
  ASSUME PartyInv, NEW c \in Char, zone[c] # NoServer, rows[c] # NoRow, Rejoin(c)
  PROVE  Done /\ reload' \subseteq reload
  <1> DEFINE s == zone[c]
             id == rows[c].party
             same == {p \in parties : p.on = s /\ p.id = id}
             new == [on |-> s, id |-> id, leader |-> NoChar, members |-> {}]
             May == IF InParty(c) THEN {PParty(c)} ELSE IF same = {} THEN {new} ELSE same
             To(p) == IF InParty(c) THEN [p EXCEPT !.id = id]
                      ELSE [p EXCEPT !.members = @ \cup {c},
                                     !.leader = IF rows[c].leader THEN c ELSE @]
  <1>1. PICK p \in May : /\ parties' = Replaced(p, Refreshed(To(p), rows))
                         /\ reload' = reload \ To(p).members
                         /\ UNCHANGED <<rows, outbox>>
    BY DEF Rejoin
  <1>2. s \in Server /\ id \in Char
    BY DEF PartyInv, Places, Rows, RowType
  <1>3. /\ p \in PartyType /\ p.on = s /\ (p \in parties \/ p.members = {})
        /\ (InParty(c) => p \in parties /\ c \in p.members)
        /\ (InParty(c) => \A r \in parties : r # p => c \notin r.members)
    <2>1. CASE InParty(c)
      BY <2>1, Member
    <2>2. CASE ~InParty(c)
      <3>1. new \in PartyType /\ new.on = s /\ new.members = {}
        BY <1>2 DEF PartyType
      <3>2. \A r \in same : r \in PartyType /\ r \in parties /\ r.on = s
        BY DEF PartyInv, Sound
      <3>3. p = new \/ p \in same
        BY <2>2
      <3> HIDE DEF new, same, May
      <3> QED BY <2>2, <3>1, <3>2, <3>3
    <2> QED BY <2>1, <2>2
  <1>4. \A r \in parties : r # p => c \notin r.members
    BY <1>3 DEF InParty
  <1> DEFINE q == To(p)
  <1> HIDE DEF May, new, same
  <1>5. /\ q \in PartyType /\ q.on = s /\ q.members \subseteq p.members \cup {c}
        /\ c \in q.members
    <2>1. CASE InParty(c)
      <3>1. q = [p EXCEPT !.id = id]
        BY <2>1
      <3> HIDE DEF q, id
      <3> QED BY <1>2, <1>3, <2>1, <3>1, Renamed
    <2>2. CASE ~InParty(c)
      <3> DEFINE ms == p.members \cup {c}
                 l == IF rows[c].leader THEN c ELSE p.leader
      <3>1. q = [p EXCEPT !.members = ms, !.leader = l]
        BY <2>2
      <3>2. ms \in SUBSET Char /\ l \in Char \cup {NoChar, Gone} /\ c \in ms
        BY <1>3, PartyFields
      <3> HIDE DEF q, ms, l
      <3>3. q \in PartyType /\ q.on = p.on /\ q.members = ms
        BY <1>3, <3>1, <3>2 DEF PartyType
      <3> QED BY <1>3, <3>2, <3>3 DEF ms
    <2> QED BY <2>1, <2>2
  <1>6. /\ parties' = Replaced(p, Refreshed(q, rows)) /\ reload' = reload \ q.members
    BY <1>1
  <1> HIDE DEF q, To
  <1> DEFINE n == Refreshed(q, rows)
  <1>7. n \in PartyType /\ n.on = s /\ n.members = q.members
    BY <1>5, RefreshedTyped
  <1> HIDE DEF n
  <1>8. parties' = Swapped(parties, p, n)
    BY <1>6 DEF Replaced, Swapped, n
  <1>9. Sound(parties', zone)
    BY <1>3, <1>4, <1>5, <1>7, <1>8, OneMoreSound DEF PartyInv
  <1> QED BY <1>1, <1>6, <1>9 DEF Done, PartyInv, Rows, Out

\* DelMember of a character without one.
LEMMA DelMemberSound ==
  ASSUME PartyInv, NEW c, InParty(c), DelMember(c)
  PROVE  Done /\ reload' \subseteq reload
  <1> DEFINE p == PParty(c)
             ms == p.members \ {c}
             q == [p EXCEPT !.members = ms]
             n == Refreshed(q, rows)
  <1>1. p \in parties /\ p \in PartyType /\ ms \in SUBSET Char
    BY Member, PartyFields
  <1>2. reload' \subseteq reload
    BY DEF DelMember
  <1>3. CASE RemovePartyLeader(c)
    BY <1>2, <1>3, RemoveLeaderSound
  <1>4. CASE parties' = Replaced(p, n) /\ UNCHANGED <<rows, outbox>>
    <2>1. q \in PartyType /\ q.on = p.on /\ q.members = ms
      BY <1>1, MembersChanged
    <2>2. n \in PartyType /\ n.on = p.on /\ n.members = ms
      BY <2>1, RefreshedTyped
    <2>3. parties' = Swapped(parties, p, n)
      BY <1>4 DEF Replaced, Swapped
    <2>4. ms \subseteq p.members
      OBVIOUS
    <2> HIDE DEF p, ms, q, n
    <2>5. Sound(parties', zone)
      BY <1>1, <2>2, <2>3, <2>4, FewerSound DEF PartyInv
    <2> QED BY <1>2, <1>4, <2>5 DEF Done, PartyInv, Rows, Out
  <1>5. RemovePartyLeader(c) \/ (parties' = Replaced(p, n) /\ UNCHANGED <<rows, outbox>>)
    BY DEF DelMember
  <1> QED BY <1>3, <1>4, <1>5

-----------------------------------------------------------------------------
(***************************************************************************)
(* The steps.                                                              *)
(***************************************************************************)
LEMMA PartyInit == Init => PartyInv
  <1> SUFFICES ASSUME Init PROVE PartyInv
    OBVIOUS
  <1>1. Rows
    BY DEF Init, Rows, RowType
  <1>2. Out /\ In
    BY DEF Init, Out, In
  <1>3. Places
    BY DEF Init, Places
  <1>4. Sound(parties, zone)
    BY DEF Init, Sound
  <1> QED BY <1>1, <1>2, <1>3, <1>4 DEF PartyInv

\* An operation that leaves everybody where he is.
LEMMA DoneInv ==
  ASSUME PartyInv, Done, zone' = zone, server_addr' = server_addr, moving' = moving,
         inbox' = inbox, reload' \subseteq Char, pending' \in [Char -> Char \cup {NoChar}]
  PROVE  PartyInv'
  <1>1. In' /\ Places'
    BY DEF PartyInv, In, Places
  <1>2. Sound(parties, zone)'
    BY DEF Done
  <1> QED BY <1>1, <1>2 DEF PartyInv, Done

\* One that also leaves the objects alone.
LEMMA ObjectsInv ==
  ASSUME PartyInv, Rows', Out', In', Places', zone' = zone, parties' = parties
  PROVE  PartyInv'
  <1>1. Sound(parties, zone)'
    BY DEF PartyInv
  <1> QED BY <1>1 DEF PartyInv

LEMMA PlayerInv ==
  ASSUME PartyInv, NEW c \in Char, Player(c)
  PROVE  PartyInv'
  <1>1. /\ Rows /\ Out /\ In /\ Places /\ Sound(parties, zone)
        /\ pending \in [Char -> Char \cup {NoChar}] /\ reload \subseteq Char
    BY DEF PartyInv, Places
  <1>2. MayAct(c) => zone[c] \in Server
    BY <1>1 DEF MayAct, Places
  <1>3. ASSUME NEW d \in Char, Invite(c, d)  PROVE  PartyInv'
    <2>1. MayAct(c) /\ UNCHANGED <<rows, where, parties, reload, inbox>>
      BY <1>3 DEF Invite
    <2>2. \/ pending' = [pending EXCEPT ![d] = c] /\ UNCHANGED outbox
          \/ UNCHANGED pending /\ Send(zone[c], <<[type |-> "invite", party |-> c, char |-> d]>>)
      BY <1>3 DEF Invite
    <2>3. pending' \in [Char -> Char \cup {NoChar}]
      BY <1>1, <2>2
    <2>4. Out'
      <3>1. <<[type |-> "invite", party |-> c, char |-> d]>> \in Seq(OutMessage)
        <4>1. [type |-> "invite", party |-> c, char |-> d] \in OutMessage
          BY SentAboutTyped
        <4> QED BY <4>1
      <3>2. CASE UNCHANGED outbox
        BY <1>1, <3>2 DEF Out
      <3>3. CASE Send(zone[c], <<[type |-> "invite", party |-> c, char |-> d]>>)
        BY <1>1, <1>2, <2>1, <3>1, <3>3, SendTyped
      <3> QED BY <2>2, <3>2, <3>3
    <2>5. Rows' /\ In' /\ Places'
      BY <1>1, <2>1, <2>3 DEF Rows, In, Places, where
    <2> QED BY <2>1, <2>4, <2>5, ObjectsInv DEF where
  <1>4. CASE AcceptHere(c)
    <2> DEFINE i == pending[c]
    <2>1. /\ MayAct(c) /\ i # NoChar /\ zone[i] = zone[c]
          /\ pending' = [pending EXCEPT ![c] = NoChar]
          /\ UNCHANGED <<where, reload, inbox>>
          /\ \/ ~InParty(c) /\ AddMember(i, c)
             \/ UNCHANGED <<rows, parties, outbox>>
      BY <1>4 DEF AcceptHere, IsHere
    <2>2. i \in Char /\ pending' \in [Char -> Char \cup {NoChar}]
      BY <1>1, <2>1
    <2> HIDE DEF i
    <2>3. Done
      <3>1. CASE ~InParty(c) /\ AddMember(i, c)
        BY <1>2, <2>1, <2>2, <3>1, AddMemberSound
      <3>2. CASE UNCHANGED <<rows, parties, outbox>>
        BY <1>1, <3>2 DEF Done, Rows, Out
      <3> QED BY <2>1, <3>1, <3>2
    <2> QED BY <1>1, <2>1, <2>2, <2>3, DoneInv DEF where
  <1>5. CASE AcceptElsewhere(c)
    <2> DEFINE i == pending[c]
    <2>1. /\ MayAct(c) /\ i # NoChar /\ pending' = [pending EXCEPT ![c] = NoChar]
          /\ Send(zone[c], <<[type |-> "answer", party |-> i, char |-> c]>>)
          /\ UNCHANGED <<rows, where, parties, reload, inbox>>
      BY <1>5 DEF AcceptElsewhere
    <2>2. i \in Char /\ pending' \in [Char -> Char \cup {NoChar}]
      BY <1>1, <2>1
    <2> HIDE DEF i
    <2>3. <<[type |-> "answer", party |-> i, char |-> c]>> \in Seq(OutMessage)
      <3>1. [type |-> "answer", party |-> i, char |-> c] \in OutMessage
        BY <2>2, SentAboutTyped
      <3> QED BY <3>1
    <2>4. Out'
      BY <1>1, <1>2, <2>1, <2>3, SendTyped
    <2>5. Rows' /\ In' /\ Places'
      BY <1>1, <2>1, <2>2 DEF Rows, In, Places, where
    <2> QED BY <2>1, <2>4, <2>5, ObjectsInv DEF where
  <1>6. CASE Decline(c)
    <2>1. /\ pending' = [pending EXCEPT ![c] = NoChar]
          /\ UNCHANGED <<rows, where, parties, reload, outbox, inbox>>
      BY <1>6 DEF Decline
    <2>2. pending' \in [Char -> Char \cup {NoChar}]
      BY <1>1, <2>1
    <2>3. Rows' /\ In' /\ Places' /\ Out'
      BY <1>1, <2>1, <2>2 DEF Rows, In, Places, Out, where
    <2> QED BY <2>1, <2>3, ObjectsInv DEF where
  <1>7. ASSUME Done, UNCHANGED <<where, reload, pending, inbox>>  PROVE  PartyInv'
    BY <1>1, <1>7, DoneInv DEF where
  <1>8. CASE Leave(c)
    BY <1>7, <1>8, RemoveMemberSound DEF Leave
  <1>9. CASE Breakup(c)
    <2>1. PParty(c) \in parties /\ PParty(c).id \in Char /\ rows \in [Char -> RowType]
      BY <1>1, <1>9, Member, PartyFields DEF Breakup, Leads, Rows
    <2> QED BY <1>7, <1>9, <2>1, DisbandSound DEF Breakup
  <1>10. ASSUME NEW d \in Char, KickHere(c, d)  PROVE  PartyInv'
    <2>1. InParty(c) /\ d \in PParty(c).members
      BY <1>10 DEF KickHere, Leads
    <2>2. InParty(d)
      BY <2>1, Member DEF InParty
    <2> QED BY <1>7, <1>10, <2>2, RemoveMemberSound DEF KickHere
  <1>11. ASSUME NEW d \in Char, KickElsewhere(c, d)  PROVE  PartyInv'
    <2>1. /\ MayAct(c) /\ InParty(c) /\ rows' = Without(rows, d)
          /\ Send(zone[c], <<ReloadOf(PParty(c).id, d)>>)
          /\ UNCHANGED <<where, parties, reload, pending, inbox>>
      BY <1>11 DEF KickElsewhere, Leads
    <2>2. PParty(c).id \in Char
      BY <2>1, Member, PartyFields
    <2>3. <<ReloadOf(PParty(c).id, d)>> \in Seq(OutMessage)
      <3>1. ReloadOf(PParty(c).id, d) \in OutMessage
        BY <2>2, SentAboutTyped
      <3> QED BY <3>1
    <2>4. Out'
      BY <1>1, <1>2, <2>1, <2>3, SendTyped
    <2>5. Rows'
      BY <1>1, <2>1, RowsTyped DEF Rows
    <2>6. Sound(parties', zone)
      BY <1>1, <2>1
    <2> QED BY <1>7, <2>1, <2>4, <2>5, <2>6 DEF Done
  <1>12. ASSUME NEW n \in Char, GiveLead(c, n)  PROVE  PartyInv'
    <2> DEFINE p == PParty(c)
    <2>1. /\ MayAct(c) /\ InParty(c) /\ parties' = (parties \ {p}) \cup {Led(p, n)}
          /\ rows' = LedRows(rows, p.id, n) /\ Send(zone[c], <<Reload(n)>>)
          /\ UNCHANGED <<where, reload, pending, inbox>>
      BY <1>12 DEF GiveLead, Leads
    <2>2. p \in parties /\ p \in PartyType /\ c \in p.members
      BY <2>1, Member
    <2>3. p.id \in Char
      BY <2>2, PartyFields
    <2> HIDE DEF p
    <2>4. Led(p, n) \in PartyType /\ Led(p, n).on = p.on /\ Led(p, n).members = p.members
      BY <2>2, LedTyped
    <2>5. parties' = Swapped(parties, p, Led(p, n))
      BY <2>1, <2>2, <2>4 DEF Swapped
    <2>6. Sound(parties', zone)
      BY <1>1, <2>2, <2>4, <2>5, FewerSound
    <2>7. Rows'
      BY <1>1, <2>1, <2>3, RowsTyped DEF Rows
    <2>8. Out'
      <3>1. <<Reload(n)>> \in Seq(OutMessage)
        BY SentTyped
      <3> QED BY <1>1, <1>2, <2>1, <3>1, SendTyped
    <2> QED BY <1>7, <2>1, <2>6, <2>7, <2>8 DEF Done
  <1> QED BY <1>3, <1>4, <1>5, <1>6, <1>8, <1>9, <1>10, <1>11, <1>12 DEF Player

LEMMA TravelInv ==
  ASSUME PartyInv, NEW c \in Char, Travel(c)
  PROVE  PartyInv'
  <1>1. /\ Rows /\ Out /\ In /\ Places /\ Sound(parties, zone)
        /\ server_addr \in [Char -> Server \cup {NoServer}]
        /\ zone \in [Char -> Server \cup {NoServer}]
        /\ moving \subseteq Char /\ reload \subseteq Char
        /\ pending \in [Char -> Char \cup {NoChar}]
    BY DEF PartyInv, Places
  <1>2. ASSUME Rows', Out', inbox' = inbox, Places', NEW s,
               Sound(parties', zone), Out1(c), zone' = [zone EXCEPT ![c] = s]
        PROVE  PartyInv'
    <2>1. In'
      BY <1>1, <1>2 DEF In
    <2>2. PICK P : P = parties'
      OBVIOUS
    <2>3. Sound(P, [zone EXCEPT ![c] = s])
      <3>1. Sound(P, zone) /\ \A p \in P : c \notin p.members
        BY <1>2, <2>2 DEF Out1
      <3> QED BY <1>1, <3>1, MovedSound
    <2>4. Sound(parties, zone)'
      BY <1>2, <2>2, <2>3
    <2> QED BY <1>2, <2>1, <2>4 DEF PartyInv
  <1>3. ASSUME NEW s \in Server, RequestZone(c, s) \/ Login(c, s)  PROVE  PartyInv'
    <2>1. /\ moving' = moving \cup {c} /\ server_addr' = [server_addr EXCEPT ![c] = s]
          /\ UNCHANGED <<rows, zone, parties, reload, pending, outbox, inbox>>
      BY <1>3 DEF RequestZone, Login
    <2>2. Places'
      BY <1>1, <2>1 DEF Places
    <2>3. Rows' /\ Out' /\ In'
      BY <1>1, <2>1 DEF Rows, Out, In
    <2> QED BY <2>1, <2>2, <2>3, ObjectsInv
  <1>4. ASSUME NEW told \in BOOLEAN, ZoneOut(c, told)  PROVE  PartyInv'
    <2>1. /\ zone' = [zone EXCEPT ![c] = NoServer]
          /\ pending' = [pending EXCEPT ![c] = NoChar]
          /\ reload' = reload \ {c}
          /\ UNCHANGED <<rows, server_addr, moving, inbox>>
      BY <1>4 DEF ZoneOut
    <2>2. Rows' /\ Places'
      BY <1>1, <2>1 DEF Rows, Places
    <2>3. CASE InParty(c)
      <3> DEFINE p == PParty(c)
                 ms == p.members \ {c}
                 l == IF p.leader = c THEN Gone ELSE p.leader
                 q == [p EXCEPT !.members = ms, !.leader = l]
      <3>1. /\ parties' = Replaced(p, q)
            /\ IF told THEN Send(p.on, <<Reload(p.id)>>) ELSE UNCHANGED outbox
        BY <1>4, <2>3 DEF ZoneOut
      <3>2. p \in parties /\ p \in PartyType /\ c \in p.members
        BY <2>3, Member
      <3>3. /\ ms \in SUBSET Char /\ l \in Char \cup {NoChar, Gone} /\ p.id \in Char
            /\ ms \subseteq p.members /\ c \notin ms /\ p.on \in Server
        BY <3>2, PartyFields
      <3> HIDE DEF p, ms, l
      <3>4. q \in PartyType /\ q.on = p.on /\ q.members = ms
        BY <3>2, <3>3 DEF PartyType
      <3> HIDE DEF q
      <3>5. parties' = Swapped(parties, p, q)
        BY <3>1 DEF Replaced, Swapped
      <3>6. Sound(parties', zone) /\ Out1(c)
        BY <1>1, <3>2, <3>3, <3>4, <3>5, FewerSound DEF Out1
      <3>7. Out'
        <4>1. <<Reload(p.id)>> \in Seq(OutMessage)
          BY <3>3, SentTyped
        <4>2. CASE told
          BY <1>1, <3>1, <3>3, <4>1, <4>2, SendTyped
        <4>3. CASE ~told
          BY <1>1, <3>1, <4>3 DEF Out
        <4> QED BY <4>2, <4>3
      <3> QED BY <1>2, <2>1, <2>2, <3>6, <3>7
    <2>4. CASE ~InParty(c)
      <3>1. UNCHANGED <<parties, outbox>>
        BY <1>4, <2>4 DEF ZoneOut
      <3>2. Sound(parties', zone) /\ Out1(c) /\ Out'
        BY <1>1, <2>4, <3>1 DEF Out1, InParty, Out
      <3> QED BY <1>2, <2>1, <2>2, <3>2
    <2> QED BY <2>3, <2>4
  <1>5. CASE ZoneIn(c)
    <2>1. /\ zone[c] = NoServer /\ zone' = [zone EXCEPT ![c] = server_addr[c]]
          /\ moving' = moving \ {c} /\ reload' = reload \cup {c}
          /\ UNCHANGED <<rows, server_addr, parties, pending, outbox, inbox>>
      BY <1>5 DEF ZoneIn
    <2>2. Places'
      BY <1>1, <2>1 DEF Places
    <2>3. Rows' /\ Out'
      BY <1>1, <2>1 DEF Rows, Out
    <2>4. Out1(c)
      <3>1. ASSUME NEW r \in parties, c \in r.members  PROVE  FALSE
        <4>1. r.on \in Server /\ zone[c] = r.on
          BY <1>1, <3>1, PartyFields DEF Sound
        <4> QED BY <2>1, <4>1, PartyAssumption
      <3> QED BY <2>1, <3>1 DEF Out1
    <2>5. Sound(parties', zone)
      BY <1>1, <2>1
    <2> QED BY <1>2, <2>1, <2>2, <2>3, <2>4, <2>5
  <1>6. CASE Logout(c)
    <2>1. /\ zone' = [zone EXCEPT ![c] = NoServer]
          /\ server_addr' = [server_addr EXCEPT ![c] = NoServer]
          /\ pending' = [pending EXCEPT ![c] = NoChar]
          /\ reload' = reload \ {c}
          /\ UNCHANGED <<moving, inbox>>
      BY <1>6 DEF Logout
    <2>2. Places'
      BY <1>1, <2>1 DEF Places
    <2>3. CASE InParty(c)
      <3>1. Done /\ Out1(c)
        BY <1>6, <2>3, RemoveMemberSound DEF Logout
      <3> QED BY <1>2, <2>1, <2>2, <3>1 DEF Done
    <2>4. CASE ~InParty(c)
      <3>1. rows' = Without(rows, c) /\ UNCHANGED <<parties, outbox>>
        BY <1>6, <2>4 DEF Logout
      <3>2. Rows'
        BY <1>1, <3>1, RowsTyped DEF Rows
      <3>3. Sound(parties', zone) /\ Out1(c) /\ Out'
        BY <1>1, <2>4, <3>1 DEF Out1, InParty, Out
      <3> QED BY <1>2, <2>1, <2>2, <3>2, <3>3
    <2> QED BY <2>3, <2>4
  <1>7. CASE LoseSession(c)
    <2>1. /\ moving' = moving \ {c} /\ server_addr' = [server_addr EXCEPT ![c] = NoServer]
          /\ rows' = Without(rows, c)
          /\ UNCHANGED <<zone, parties, reload, pending, outbox, inbox>>
      BY <1>7 DEF LoseSession
    <2>2. Places'
      BY <1>1, <2>1 DEF Places
    <2>3. Rows' /\ Out' /\ In'
      BY <1>1, <2>1, RowsTyped DEF Rows, Out, In
    <2> QED BY <2>1, <2>2, <2>3, ObjectsInv
  <1> QED BY <1>3, <1>4, <1>5, <1>6, <1>7 DEF Travel

\* A set of numbers has a least one.
LEMMA LeastNumber ==
  ASSUME NEW S \in SUBSET Nat, S # {}
  PROVE  \E a \in S : \A b \in S : a <= b
  <1> DEFINE Less == OpToRel(<, Nat)
  <1>1. PICK a \in S : \A b \in S : ~ (<<b, a>> \in Less)
    <2>1. IsWellFoundedOn(Less, Nat)
      BY NatLessThanWellFounded, Zenon
    <2> HIDE DEF Less
    <2> QED BY <2>1, WFMin
  <1>2. ASSUME NEW b \in S  PROVE  a <= b
    <2>1. a \in Nat /\ b \in Nat
      OBVIOUS
    <2>2. ~ (b < a)
      BY <1>1, <2>1 DEF OpToRel
    <2> QED BY <2>1, <2>2
  <1> QED BY <1>2

\* The relay finds the smallest charid.
LEMMA AddresseeTyped ==
  ASSUME NEW m, NEW t, Addressee(m, t) # NoChar
  PROVE  Addressee(m, t) \in Char
  <1> DEFINE cs == {c \in Char :
                       /\ server_addr[c] = t
                       /\ IF m.type = "invite" THEN c = m.char
                          ELSE IF m.type = "answer" THEN c = m.party
                          ELSE rows[c].party = m.party}
  <1>1. Addressee(m, t) = IF cs = {} THEN NoChar ELSE CHOOSE c \in cs : \A d \in cs : c <= d
    BY DEF Addressee
  <1>2. cs \subseteq Char /\ cs \in SUBSET Nat
    BY PartyAssumption
  <1> HIDE DEF cs
  <1>3. cs # {}
    BY <1>1
  <1>4. \E c \in cs : \A d \in cs : c <= d
    BY <1>2, <1>3, LeastNumber
  <1> QED BY <1>1, <1>2, <1>3, <1>4

LEMMA DeliverInv ==
  ASSUME PartyInv, NEW s \in Server, Deliver(s)
  PROVE  PartyInv'
  <1>1. /\ Rows /\ Out /\ In /\ Places /\ Sound(parties, zone)
        /\ pending \in [Char -> Char \cup {NoChar}] /\ reload \subseteq Char
        /\ zone \in [Char -> Server \cup {NoServer}]
    BY DEF PartyInv, Places
  <1>2. CASE Relay(s)
    <2> DEFINE m == Head(outbox[s])
               To(t) == [type |-> m.type, first |-> Addressee(m, t),
                         party |-> m.party, char |-> m.char]
    <2>1. /\ outbox[s] \in Seq(OutMessage) /\ outbox[s] # <<>>
          /\ outbox' = [outbox EXCEPT ![s] = Tail(@)]
          /\ inbox' = [t \in Server |->
                IF Addressee(m, t) = NoChar THEN inbox[t] ELSE Append(inbox[t], To(t))]
          /\ UNCHANGED <<rows, where, parties, reload, pending>>
      BY <1>1, <1>2 DEF Relay, Out
    <2>2. m \in OutMessage /\ Tail(outbox[s]) \in Seq(OutMessage)
      BY <2>1
    <2> HIDE DEF m
    <2>3. ASSUME NEW t \in Server, Addressee(m, t) # NoChar  PROVE  To(t) \in InMessage
      BY <2>2, <2>3, AddresseeTyped DEF OutMessage, InMessage, Messages
    <2> HIDE DEF To
    <2>4. In'
      BY <1>1, <2>1, <2>3 DEF In
    <2>5. Out'
      BY <1>1, <2>1, <2>2 DEF Out
    <2>6. Rows' /\ Places'
      BY <1>1, <2>1 DEF Rows, Places, where
    <2> QED BY <2>1, <2>4, <2>5, <2>6, ObjectsInv DEF where
  <1>3. ASSUME NEW t, Take(s, t)
        PROVE  /\ In' /\ Head(inbox[s]) \in InMessage /\ Head(inbox[s]).type = t
    <2>1. inbox[s] \in Seq(InMessage) /\ inbox[s] # <<>>
      BY <1>1, <1>3 DEF In, Take
    <2>2. Head(inbox[s]) \in InMessage /\ Tail(inbox[s]) \in Seq(InMessage)
      BY <2>1
    <2> QED BY <1>1, <1>3, <2>2 DEF In, Take
  <1>4. ASSUME In', reload' \subseteq Char,
               UNCHANGED <<rows, where, parties, pending, outbox>>
        PROVE  PartyInv'
    <2>1. Rows' /\ Out' /\ Places'
      BY <1>1, <1>4 DEF Rows, Out, Places, where
    <2> QED BY <1>4, <2>1, ObjectsInv DEF where
  <1>5. ASSUME In', Done, UNCHANGED <<where, reload, pending>>
        PROVE  PartyInv'
    <2>1. Places'
      BY <1>1, <1>5 DEF Places, where
    <2>2. Sound(parties, zone)'
      BY <1>5 DEF Done, where
    <2> QED BY <1>5, <2>1, <2>2 DEF Done, PartyInv
  <1>6. CASE HandleReload(s)
    <2> DEFINE c == Head(inbox[s]).first
    <2>1. /\ Take(s, "reload") /\ UNCHANGED <<rows, where, parties, pending, outbox>>
          /\ reload' = (IF ~ IsHere(s, c) THEN reload
                        ELSE reload \cup (IF InParty(c) THEN PParty(c).members ELSE {c}))
      BY <1>6 DEF HandleReload
    <2>2. In' /\ c \in Char
      BY <1>3, <2>1 DEF InMessage
    <2> HIDE DEF c
    <2>3. InParty(c) => PParty(c).members \subseteq Char
      BY Member, PartyFields
    <2> QED BY <1>1, <1>4, <2>1, <2>2, <2>3
  <1>7. CASE HandleReloadOf(s)
    <2> DEFINE m == Head(inbox[s])
               second == {c \in Char : IsHere(s, c) /\ InParty(c) /\ PParty(c).id = m.char}
               found == IF IsHere(s, m.char) THEN {m.char}
                        ELSE IF second # {} THEN second
                        ELSE {c \in {m.first} : IsHere(s, c)}
    <2>1. /\ Take(s, "reload_of") /\ UNCHANGED <<rows, where, parties, pending, outbox>>
          /\ IF found = {} THEN UNCHANGED reload
             ELSE \E c \in found : reload' = reload \cup {c}
      BY <1>7 DEF HandleReloadOf
    <2>2. In' /\ m.first \in Char /\ m.char \in Char
      BY <1>3, <2>1 DEF InMessage
    <2> HIDE DEF m
    <2>3. found \subseteq Char
      BY <2>2
    <2> HIDE DEF found
    <2>4. reload' \subseteq Char
      BY <1>1, <2>1, <2>3
    <2> QED BY <1>4, <2>1, <2>2, <2>4
  <1>8. CASE HandleDisband(s)
    <2> DEFINE c == Head(inbox[s]).first
    <2>1. /\ Take(s, "disband") /\ UNCHANGED <<where, reload, pending>>
          /\ \/ InParty(c) /\ DisbandParty(PParty(c), PParty(c).id, rows, FALSE)
             \/ UNCHANGED <<rows, parties, outbox>>
      BY <1>8 DEF HandleDisband
    <2>2. In'
      BY <1>3, <2>1
    <2> HIDE DEF c
    <2>3. Done
      <3>1. CASE InParty(c) /\ DisbandParty(PParty(c), PParty(c).id, rows, FALSE)
        <4>1. PParty(c) \in parties /\ PParty(c).id \in Char /\ rows \in [Char -> RowType]
          BY <1>1, <3>1, Member, PartyFields DEF Rows
        <4> QED BY <3>1, <4>1, DisbandSound
      <3>2. CASE UNCHANGED <<rows, parties, outbox>>
        BY <1>1, <3>2 DEF Done, Rows, Out
      <3> QED BY <2>1, <3>1, <3>2
    <2> QED BY <1>5, <2>1, <2>2, <2>3
  <1>9. CASE HandleInvite(s)
    <2> DEFINE m == Head(inbox[s])
    <2>1. /\ Take(s, "invite") /\ UNCHANGED <<rows, where, parties, reload, outbox>>
          /\ pending' \in {pending, [pending EXCEPT ![m.char] = m.party]}
      BY <1>9 DEF HandleInvite
    <2>2. In' /\ m.party \in Char
      BY <1>3, <2>1 DEF InMessage
    <2> HIDE DEF m
    <2>3. pending' \in [Char -> Char \cup {NoChar}]
      BY <1>1, <2>1, <2>2
    <2>4. Rows' /\ Out' /\ Places'
      BY <1>1, <2>1, <2>3 DEF Rows, Out, Places, where
    <2> QED BY <2>1, <2>2, <2>4, ObjectsInv DEF where
  <1>10. CASE HandleAnswer(s)
    <2> DEFINE m == Head(inbox[s])
    <2>1. /\ Take(s, "answer") /\ UNCHANGED <<where, reload, pending>>
          /\ \/ zone[m.party] = s /\ AddMemberElsewhere(m.party, m.char)
             \/ UNCHANGED <<rows, parties, outbox>>
      BY <1>10 DEF HandleAnswer, IsHere
    <2>2. In' /\ m.party \in Char /\ m.char \in Char
      BY <1>3, <2>1 DEF InMessage
    <2> HIDE DEF m
    <2>3. Done
      <3>1. CASE zone[m.party] = s /\ AddMemberElsewhere(m.party, m.char)
        BY <2>2, <3>1, AddElsewhereSound
      <3>2. CASE UNCHANGED <<rows, parties, outbox>>
        BY <1>1, <3>2 DEF Done, Rows, Out
      <3> QED BY <2>1, <3>1, <3>2
    <2> QED BY <1>5, <2>1, <2>2, <2>3
  <1> QED BY <1>2, <1>6, <1>7, <1>8, <1>9, <1>10 DEF Deliver

LEMMA PostTickInv ==
  ASSUME PartyInv, NEW c \in Char, PostTick(c)
  PROVE  PartyInv'
  <1>1. /\ Rows /\ Out /\ Sound(parties, zone) /\ reload \subseteq Char
        /\ pending \in [Char -> Char \cup {NoChar}]
    BY DEF PartyInv, Places
  <1>2. /\ zone[c] # NoServer /\ UNCHANGED <<where, pending, inbox>>
        /\ \/ rows[c] # NoRow /\ Rejoin(c)
           \/ InParty(c) /\ DelMember(c)
           \/ reload' = reload \ {c} /\ UNCHANGED <<rows, parties, outbox>>
    BY DEF PostTick
  <1>3. Done /\ reload' \subseteq reload
    <2>1. CASE rows[c] # NoRow /\ Rejoin(c)
      BY <1>2, <2>1, RejoinSound
    <2>2. CASE InParty(c) /\ DelMember(c)
      BY <2>2, DelMemberSound
    <2>3. CASE reload' = reload \ {c} /\ UNCHANGED <<rows, parties, outbox>>
      BY <1>1, <2>3 DEF Done, Rows, Out
    <2> QED BY <1>2, <2>1, <2>2, <2>3
  <1> QED BY <1>1, <1>2, <1>3, DoneInv DEF where

LEMMA PartyNext == PartyInv /\ [Next]_vars => PartyInv'
  <1> SUFFICES ASSUME PartyInv, [Next]_vars PROVE PartyInv'
    OBVIOUS
  <1>1. CASE UNCHANGED vars
    <2>1. Rows' /\ Out' /\ In' /\ Places'
      BY <1>1 DEF vars, PartyInv, Rows, Out, In, Places
    <2> QED BY <1>1, <2>1, ObjectsInv DEF vars
  <1> QED BY <1>1, PlayerInv, TravelInv, DeliverInv, PostTickInv DEF Next

\* The types of rows, objects and messages; the messages of the relay too.
THEOREM TypeCorrect == Spec => []TypeOK
  <1>1. PartyInv => TypeOK
    <2> SUFFICES ASSUME PartyInv PROVE TypeOK
      OBVIOUS
    <2>1. rows \in [Char -> [party : Char \cup {NoChar}, leader : BOOLEAN]]
      <3>1. RowType \subseteq [party : Char \cup {NoChar}, leader : BOOLEAN]
        <4>1. \A r \in [party : Char, leader : BOOLEAN] :
                r \in [party : Char \cup {NoChar}, leader : BOOLEAN]
          OBVIOUS
        <4>2. NoRow \in [party : Char \cup {NoChar}, leader : BOOLEAN]
          BY DEF NoRow
        <4> QED BY <4>1, <4>2 DEF RowType
      <3>2. \A c \in Char : rows[c] \in RowType /\ rows = [x \in Char |-> rows[x]]
        BY DEF PartyInv, Rows
      <3> QED BY <3>1, <3>2 DEF PartyInv, Rows
    <2>2. outbox \in [Server -> Seq(Messages)]
      <3>1. \A s \in Server : outbox[s] \in Seq(OutMessage)
        BY DEF PartyInv, Out
      <3>2. OutMessage \subseteq Messages
        BY DEF OutMessage
      <3>3. \A s \in Server : outbox[s] \in Seq(Messages)
        BY <3>1, <3>2
      <3> QED BY <3>3 DEF PartyInv, Out
    <2> QED BY <2>1, <2>2 DEF PartyInv, Places, Sound, PartyType, TypeOK
  <1> QED BY <1>1, PartyInit, PartyNext, PTL DEF Spec

\* A character is in one CParty at most, of the server he is on, and no CParty
\* is without members: in all circumstances, late messages and lost clients
\* included (CParty::AddMember, RemoveMember, PopMember, ReloadParty).
THEOREM OnePartyAlways == Spec => []OneParty
  <1>1. PartyInv => OneParty
    BY DEF PartyInv, Sound, OneParty
  <1> QED BY <1>1, PartyInit, PartyNext, PTL DEF Spec

-----------------------------------------------------------------------------
(***************************************************************************)
(* One leader, and agreement with the rows, where Trouble is empty: a       *)
(* player acts only when nothing is under way, so that one change at a time *)
(* is told to the other servers, while characters may come and log in.      *)
(***************************************************************************)
\* Party id has its leader's row.
Headed(db, id) == db[id] = [party |-> id, leader |-> TRUE]

\* The leader pointer of an object is as in the rows.
Pointed(p) == IF p.id \in p.members THEN p.leader = p.id ELSE p.leader \notin Char

\* An object that is as the rows have it.
Fresh(p, db) == Pointed(p) /\ \A c \in p.members : db[c].party = p.id

AllFresh(P, db) == \A p \in P : Fresh(p, db)

\* Rows of one party on one server have one object.
Unique(P, db) ==
    \A p, q \in P : \A a \in p.members, b \in q.members :
        p.on = q.on /\ db[a] # NoRow /\ db[a].party = db[b].party => p = q

\* Whoever leads gives the party its name, and all parties but x are led.
Flagged(db, x) ==
    /\ \A c \in Char : db[c].leader => db[c].party = c
    /\ \A c \in Char : db[c] # NoRow /\ db[c].party # x => Headed(db, db[c].party)

Ordered(P, db, x) == Flagged(db, x) /\ Unique(P, db)

\* Every row's character is in an object.
Housed(P, db) == \A c \in Char : db[c] # NoRow => \E p \in P : c \in p.members

\* Who is between zones has no row.
Resting(mv, z, db) == \A c \in mv : z[c] = NoServer /\ db[c] = NoRow

Whereabouts ==
    \A c \in Char :
        /\ c \notin moving => zone[c] = server_addr[c]
        /\ c \in moving => server_addr[c] # NoServer
        /\ rows[c] # NoRow => server_addr[c] # NoServer
        /\ c \in reload => zone[c] # NoServer

\* m as the relay passes it on.
Wrap(m, c) == [type |-> m.type, first |-> c, party |-> m.party, char |-> m.char]

\* m is under way, and nothing else.
Sent(m) ==
    /\ \E s \in Server : outbox[s] = <<m>> /\ \A t \in Server : t # s => outbox[t] = <<>>
    /\ \A t \in Server : inbox[t] = <<>>
Passed(m) ==
    /\ \A t \in Server : outbox[t] = <<>>
    /\ \A t \in Server : inbox[t] = <<>> \/ \E c \in Char : inbox[t] = <<Wrap(m, c)>>
Alone(m) == Sent(m) \/ Passed(m)

\* Server s has still to be told.
Untold(s) == inbox[s] # <<>> \/ \E t \in Server : outbox[t] # <<>>

\* A character that another server has made a member is told to look.
Joining(c) ==
    \/ \E s \in Server : \E k \in DOMAIN outbox[s] : outbox[s][k] = ReloadOf(rows[c].party, c)
    \/ \E k \in DOMAIN inbox[zone[c]] :
          inbox[zone[c]][k].type = "reload_of" /\ inbox[zone[c]][k].char = c

Covered ==
    \A c \in Char : rows[c] # NoRow /\ zone[c] # NoServer /\ ~ InParty(c) =>
        c \in reload \/ (c \notin moving /\ Joining(c))

Harmless ==
    \A s \in Server :
        /\ \A k \in DOMAIN outbox[s] : outbox[s][k].type \notin {"answer", "disband"}
        /\ \A k \in DOMAIN inbox[s] : inbox[s][k].type \notin {"answer", "disband"}

\* No change is being told; people may be travelling.
Calm ==
    /\ Ordered(parties, rows, NoChar) /\ AllFresh(parties, rows)
    /\ Covered /\ Harmless

Still(x) ==
    /\ Ordered(parties, rows, x) /\ Housed(parties, rows) /\ Resting(moving, zone, rows)

Answer(i, c) == [type |-> "answer", party |-> i, char |-> c]

\* An answer to an invitation is under way.
Answering ==
    /\ Still(NoChar) /\ AllFresh(parties, rows)
    /\ \A t, u \in Server : inbox[t] # <<>> /\ inbox[u] # <<>> => t = u
    /\ \E i, c \in Char : Alone(Answer(i, c)) /\ i # c /\ c \notin moving /\ zone[c] # NoServer

\* Who is told is of the party, and there.
Told(x) ==
    \A t \in Server : inbox[t] # <<>> =>
        rows[Head(inbox[t]).first].party = x /\ zone[Head(inbox[t]).first] = t

\* An object whose party has become n.
Stale(p, n) ==
    /\ \A c \in p.members : rows[c].party = n
    /\ Untold(p.on) \/ p.members \subseteq reload

Renaming(n) ==
    /\ Still(NoChar) /\ Alone(Reload(n)) /\ Told(n)
    /\ \A p \in parties : Fresh(p, rows) \/ Stale(p, n)

\* An object that still has d, whose row is gone.
Outdated(p, id, d) ==
    /\ d \in p.members /\ p.members # {d} /\ rows[d] = NoRow
    /\ p.id = id /\ Pointed(p) /\ \A c \in p.members : c # d => rows[c].party = id
    /\ Untold(p.on) \/ d \in reload
    /\ reload \cap p.members \subseteq {d}

Kicking(id, d) ==
    /\ Still(NoChar) /\ Alone(ReloadOf(id, d)) /\ id # d
    /\ \A p \in parties : Fresh(p, rows) \/ Outdated(p, id, d)

Disbandment(id) ==
    /\ Still(id) /\ AllFresh(parties, rows) /\ Alone(Disband(id)) /\ Told(id)
    /\ \A c \in Char : rows[c].party = id => ~ rows[c].leader /\ Untold(zone[c])

Phase ==
    \/ Calm \/ Answering
    \/ \E n \in Char : Renaming(n) \/ Disbandment(n)
    \/ \E id, d \in Char : Kicking(id, d)

LeaderInv == Whereabouts /\ Phase

-----------------------------------------------------------------------------
LEMMA RowFacts ==
  ASSUME NEW r \in RowType
  PROVE  /\ r = NoRow \/ (r.party \in Char /\ r.leader \in BOOLEAN
                           /\ r = [party |-> r.party, leader |-> r.leader])
         /\ r.party \in Char => r # NoRow
         /\ r.leader => r # NoRow
         /\ NoRow.party = NoChar /\ NoRow.leader = FALSE
         /\ r.leader \in BOOLEAN /\ r.party \in Char \cup {NoChar}
  <1>1. NoRow.party = NoChar /\ NoRow.leader = FALSE
    BY DEF NoRow
  <1>2. r = NoRow \/ r \in [party : Char, leader : BOOLEAN]
    BY DEF RowType
  <1>3. CASE r = NoRow
    BY <1>1, <1>3, PartyAssumption
  <1>4. ASSUME r # NoRow, r \in [party : Char, leader : BOOLEAN]
        PROVE  r.party \in Char /\ r.leader \in BOOLEAN /\ r = [party |-> r.party, leader |-> r.leader]
    BY <1>4
  <1> QED BY <1>1, <1>2, <1>3, <1>4

LEMMA NewRow ==
  ASSUME NEW i \in Char, NEW b \in BOOLEAN
  PROVE  LET r == [party |-> i, leader |-> b] IN
         r \in RowType /\ r # NoRow /\ r.party = i /\ r.leader = b
  BY PartyAssumption DEF RowType, NoRow

\* Members of an object that is fresh have a row of its party.
LEMMA FreshMembers ==
  ASSUME NEW db \in [Char -> RowType], NEW p \in PartyType, Fresh(p, db), NEW c \in p.members
  PROVE  c \in Char /\ db[c].party = p.id /\ db[c] # NoRow /\ p.id \in Char
  <1>1. c \in Char /\ db[c] \in RowType /\ p.id \in Char
    BY PartyFields
  <1>2. db[c].party = p.id
    BY DEF Fresh
  <1> QED BY <1>1, <1>2, RowFacts

\* A party's leader is who it is called after.
LEMMA FreshLeader ==
  ASSUME NEW db, NEW p \in PartyType, Fresh(p, db), p.leader \in Char
  PROVE  p.leader = p.id /\ p.id \in p.members
  BY DEF Fresh, Pointed

LEMMA UniqueFresh ==
  ASSUME NEW P, NEW z, Sound(P, z), NEW db \in [Char -> RowType], Unique(P, db), AllFresh(P, db),
         NEW p \in P, NEW q \in P, p.on = q.on, p.id = q.id
  PROVE  p = q
  <1>1. p \in PartyType /\ q \in PartyType /\ Fresh(p, db) /\ Fresh(q, db)
    BY DEF Sound, AllFresh
  <1>2. PICK a \in p.members, b \in q.members : TRUE
    BY DEF Sound
  <1>3. db[a].party = p.id /\ db[a] # NoRow /\ db[b].party = q.id
    BY <1>1, FreshMembers
  <1> QED BY <1>2, <1>3 DEF Unique

LEMMA InPartyIs ==
  ASSUME NEW c
  PROVE  InParty(c) <=> \E p \in parties : c \in p.members
  BY DEF InParty

\* When nothing is under way, and nobody has to look, a change is complete.
LEMMA PhaseOver ==
  ASSUME PartyInv, LeaderInv, Quiet
  PROVE  Calm
  <1>1. /\ rows \in [Char -> RowType] /\ Sound(parties, zone) /\ reload = {}
        /\ \A s \in Server : outbox[s] = <<>> /\ inbox[s] = <<>>
        /\ \A s \in Server : ~Untold(s)
    BY DEF PartyInv, Rows, Quiet, Untold
  <1>2. Harmless
    BY <1>1 DEF Harmless
  <1>3. ASSUME Housed(parties, rows)  PROVE  Covered
    BY <1>3, InPartyIs DEF Housed, Covered
  <1>4. \A p \in parties : p.members # {} /\ p.on \in Server
    BY <1>1, PartyFields DEF Sound
  <1>5. CASE Answering
    BY <1>2, <1>3, <1>5 DEF Answering, Still, Calm
  <1>6. ASSUME NEW n \in Char, Renaming(n)  PROVE Calm
    <2>1. \A p \in parties : ~Stale(p, n)
      BY <1>1, <1>4 DEF Stale
    <2> QED BY <1>2, <1>3, <1>6, <2>1 DEF Renaming, Still, Calm, AllFresh
  <1>7. ASSUME NEW n \in Char, NEW d \in Char, Kicking(n, d)  PROVE Calm
    <2>1. \A p \in parties : ~Outdated(p, n, d)
      BY <1>1, <1>4 DEF Outdated
    <2> QED BY <1>2, <1>3, <1>7, <2>1 DEF Kicking, Still, Calm, AllFresh
  <1>8. ASSUME NEW n \in Char, Disbandment(n)  PROVE Calm
    <2>1. ASSUME NEW c \in Char, rows[c] # NoRow  PROVE  rows[c].party # n
      <3>1. PICK p \in parties : c \in p.members
        BY <1>8, <2>1 DEF Disbandment, Still, Housed
      <3>2. zone[c] \in Server
        BY <1>1, <1>4, <3>1 DEF Sound
      <3> QED BY <1>1, <1>8, <3>2 DEF Disbandment
    <2>2. Ordered(parties, rows, NoChar)
      BY <1>8, <2>1 DEF Disbandment, Still, Ordered, Flagged
    <2> QED BY <1>2, <1>3, <1>8, <2>2 DEF Disbandment, Still, Calm
  <1> QED BY <1>5, <1>6, <1>7, <1>8 DEF LeaderInv, Phase

-----------------------------------------------------------------------------
(***************************************************************************)
(* What the changes of rows and objects keep.                              *)
(***************************************************************************)
\* Members that an object may have, and the others of P.
LEMMA SwappedIs ==
  ASSUME NEW P, NEW p, NEW q, NEW r \in Swapped(P, p, q)
  PROVE  (r = q /\ q.members # {}) \/ (r \in P /\ r # p)
  BY DEF Swapped

\* An object keeps its members and its server.
LEMMA SameMembersUnique ==
  ASSUME NEW P, NEW db, Unique(P, db), NEW p \in P, NEW q, q.on = p.on, q.members \subseteq p.members
  PROVE  Unique(Swapped(P, p, q), db)
  <1> SUFFICES ASSUME NEW r \in Swapped(P, p, q), NEW t \in Swapped(P, p, q),
                      NEW a \in r.members, NEW b \in t.members,
                      r.on = t.on, db[a] # NoRow, db[a].party = db[b].party
               PROVE  r = t
    BY DEF Unique
  <1>1. (r = q \/ (r \in P /\ r # p)) /\ (t = q \/ (t \in P /\ t # p))
    BY SwappedIs
  <1>2. ASSUME NEW x \in P, NEW y \in P, a \in x.members, b \in y.members, x.on = y.on  PROVE  x = y
    BY <1>2 DEF Unique
  <1>3. CASE r = q /\ t # q
    BY <1>1, <1>2, <1>3
  <1>4. CASE r # q /\ t = q
    BY <1>1, <1>2, <1>4
  <1>5. CASE r # q /\ t # q
    BY <1>1, <1>2, <1>5
  <1> QED BY <1>3, <1>4, <1>5

LEMMA SwappedFresh ==
  ASSUME NEW P, NEW db, AllFresh(P, db), NEW p, NEW q, Fresh(q, db)
  PROVE  AllFresh(Swapped(P, p, q), db)
  BY SwappedIs DEF AllFresh

\* Rows that change for characters in no object.
LEMMA OthersRows ==
  ASSUME NEW P, NEW db, NEW e, Unique(P, db), \A p \in P : \A c \in p.members : e[c] = db[c]
  PROVE  Unique(P, e) /\ (AllFresh(P, db) => AllFresh(P, e))
  <1>1. Unique(P, e)
    BY DEF Unique
  <1>2. AllFresh(P, db) => AllFresh(P, e)
    BY DEF AllFresh, Fresh
  <1> QED BY <1>1, <1>2

\* An object of party i on a server where there is none of it, or that has one
\* member more.
LEMMA EnterUnique ==
  ASSUME NEW P, NEW z, Sound(P, z), NEW db \in [Char -> RowType], Unique(P, db), AllFresh(P, db),
         NEW p, NEW q \in PartyType, q.on = p.on, q.id = p.id, Fresh(q, db),
         p \in P \/ \A r \in P : ~ (r.on = p.on /\ r.id = p.id)
  PROVE  Unique(Swapped(P, p, q), db)
  <1> SUFFICES ASSUME NEW r \in Swapped(P, p, q), NEW t \in Swapped(P, p, q),
                      NEW a \in r.members, NEW b \in t.members,
                      r.on = t.on, db[a] # NoRow, db[a].party = db[b].party
               PROVE  r = t
    BY DEF Unique
  <1>1. (r = q \/ (r \in P /\ r # p)) /\ (t = q \/ (t \in P /\ t # p))
    BY SwappedIs
  <1>2. Fresh(r, db) /\ Fresh(t, db) /\ r.id = t.id
    BY <1>1 DEF AllFresh, Fresh
  <1>3. ASSUME NEW x \in P, x # p, x.on = q.on  PROVE  x.id # q.id
    BY <1>3, UniqueFresh
  <1>4. CASE r = q \/ t = q
    BY <1>1, <1>2, <1>3, <1>4
  <1>5. CASE r # q /\ t # q
    BY <1>1, <1>5 DEF Unique
  <1> QED BY <1>4, <1>5

\* No row names a party that is not led, and a party's rows are its leader's.
LEMMA NotHeaded ==
  ASSUME NEW db \in [Char -> RowType], Flagged(db, NoChar), NEW i \in Char, NEW d \in Char, db[d].party = i
  PROVE  db[d] # NoRow /\ Headed(db, i) /\ db[i] # NoRow /\ db[i].party = i /\ db[i].leader = TRUE
         /\ (d # i => db[d] = [party |-> i, leader |-> FALSE])
  <1>1. db[d] \in RowType /\ db[i] \in RowType /\ i # NoChar
    BY PartyAssumption
  <1>2. db[d] # NoRow
    BY <1>1, RowFacts
  <1>3. Headed(db, i)
    BY <1>1, <1>2 DEF Flagged
  <1>4. db[i].party = i /\ db[i].leader = TRUE
    BY <1>3 DEF Headed
  <1>5. db[i] # NoRow
    BY <1>1, <1>4, RowFacts
  <1>6. ASSUME d # i  PROVE  db[d] = [party |-> i, leader |-> FALSE]
    <2>1. db[d].leader \in BOOLEAN /\ db[d] = [party |-> db[d].party, leader |-> db[d].leader]
      BY <1>1, <1>2, RowFacts
    <2>2. ~ db[d].leader
      BY <1>6 DEF Flagged
    <2> QED BY <2>1, <2>2
  <1> QED BY <1>2, <1>3, <1>4, <1>5, <1>6

LEMMA NotLeading ==
  ASSUME NEW db \in [Char -> RowType], NEW x, Flagged(db, x), NEW d \in Char, db[d].party # d
  PROVE  db[d].leader = FALSE
  <1>1. db[d] \in RowType
    OBVIOUS
  <1>2. db[d].leader \in BOOLEAN
    BY <1>1, RowFacts
  <1>3. ~ db[d].leader
    BY DEF Flagged
  <1> QED BY <1>2, <1>3

\* An object with other members, another name or another leader.
LEMMA NewMembers ==
  ASSUME NEW p \in PartyType, NEW ms \in SUBSET Char
  PROVE  LET q == [p EXCEPT !.members = ms] IN
         q \in PartyType /\ q.on = p.on /\ q.id = p.id /\ q.leader = p.leader /\ q.members = ms
  <1>1. ASSUME NEW q, q = [p EXCEPT !.members = ms]
        PROVE  q \in PartyType /\ q.on = p.on /\ q.id = p.id /\ q.leader = p.leader /\ q.members = ms
    BY <1>1 DEF PartyType
  <1> QED BY <1>1

\* A row that does not lead goes.
LEMMA RowGone ==
  ASSUME NEW db \in [Char -> RowType], Flagged(db, NoChar), NEW c \in Char, ~ db[c].leader,
         NEW e, e = Without(db, c)
  PROVE  /\ Flagged(e, NoChar) /\ e \in [Char -> RowType] /\ e[c] = NoRow
         /\ \A d \in Char : d # c => e[d] = db[d]
  <1>1. e \in [Char -> RowType] /\ e[c] = NoRow /\ \A d \in Char : d # c => e[d] = db[d]
    BY DEF Without, RowType
  <1>2. ASSUME NEW d \in Char, e[d].leader  PROVE  e[d].party = d
    <2>1. d # c
      BY <1>1, <1>2 DEF NoRow
    <2> QED BY <1>1, <1>2, <2>1 DEF Flagged
  <1>3. ASSUME NEW d \in Char, e[d] # NoRow  PROVE  Headed(e, e[d].party)
    <2>1. d # c /\ e[d] = db[d]
      BY <1>1, <1>3
    <2>2. db[d].party \in Char
      BY <1>3, <2>1, RowFacts
    <2>3. Headed(db, db[d].party) /\ db[db[d].party].leader = TRUE
      BY <2>2, NotHeaded
    <2>4. db[d].party # c
      BY <2>3
    <2> QED BY <1>1, <2>1, <2>2, <2>3, <2>4 DEF Headed
  <1> QED BY <1>1, <1>2, <1>3 DEF Flagged

\* A new row, of the party's leader or of a party that has one.
LEMMA RowAdded ==
  ASSUME NEW db \in [Char -> RowType], Flagged(db, NoChar), NEW c \in Char, db[c] = NoRow,
         NEW i \in Char, i = c \/ Headed(db, i), NEW l \in BOOLEAN, l <=> i = c,
         NEW e, e = [db EXCEPT ![c] = [party |-> i, leader |-> l]]
  PROVE  Flagged(e, NoChar) /\ e \in [Char -> RowType] /\ e[c].party = i /\ e[c] # NoRow
         /\ Headed(e, i) /\ \A d \in Char : d # c => e[d] = db[d]
  <1>1. PICK r \in RowType : r = [party |-> i, leader |-> l] /\ r # NoRow /\ r.party = i /\ r.leader = l
    BY NewRow
  <1>2. e \in [Char -> RowType] /\ e[c] = r /\ \A d \in Char : d # c => e[d] = db[d]
    BY <1>1
  <1>3. ASSUME NEW j \in Char, Headed(db, j)  PROVE  Headed(e, j)
    <2>1. db[j].party = j
      BY <1>3 DEF Headed
    <2>2. j # c
      BY <2>1, RowFacts, PartyAssumption
    <2> QED BY <1>2, <1>3, <2>2 DEF Headed
  <1>4. Headed(e, i)
    <2>1. CASE i = c
      <3>1. l = TRUE
        BY <2>1
      <3> QED BY <1>1, <1>2, <2>1, <3>1 DEF Headed
    <2> QED BY <1>3, <2>1
  <1>5. ASSUME NEW d \in Char, e[d].leader  PROVE  e[d].party = d
    BY <1>1, <1>2, <1>5 DEF Flagged
  <1>6. ASSUME NEW d \in Char, e[d] # NoRow  PROVE  Headed(e, e[d].party)
    <2>1. CASE d = c
      BY <1>1, <1>2, <1>4, <2>1
    <2>2. CASE d # c
      <3>1. e[d] = db[d] /\ db[d] \in RowType /\ db[d] # NoRow
        BY <1>2, <1>6, <2>2
      <3>2. db[d].party \in Char
        BY <3>1, RowFacts
      <3>3. Headed(db, db[d].party)
        BY <3>2, NotHeaded
      <3> QED BY <1>3, <3>1, <3>2, <3>3
    <2> QED BY <2>1, <2>2
  <1> QED BY <1>1, <1>2, <1>4, <1>5, <1>6 DEF Flagged

\* The lead goes from c to n.
LEMMA LeadHanded ==
  ASSUME NEW db \in [Char -> RowType], Flagged(db, NoChar), NEW c \in Char, NEW n \in Char, db[n].party = c,
         NEW e, e = LedRows(db, c, n)
  PROVE  /\ \A d \in Char : /\ db[d].party = c => e[d].party = n /\ (e[d].leader => d = n) /\ e[d] # NoRow
                            /\ db[d].party # c => e[d] = db[d]
         /\ Headed(e, n)
         /\ \A d \in Char : db[d].party = n => n = c
         /\ Flagged(e, NoChar)
  <1>1. ASSUME NEW d \in Char
        PROVE  /\ db[d].party = c =>
                     e[d] = IF d = n THEN [party |-> n, leader |-> TRUE]
                            ELSE [party |-> n, leader |-> FALSE]
               /\ db[d].party # c => e[d] = db[d]
    <2> DEFINE r == IF db[d].party = c THEN [party |-> n, leader |-> FALSE] ELSE db[d]
    <2>1. e[d] = IF d = n /\ r # NoRow THEN [r EXCEPT !.leader = TRUE] ELSE r
      BY DEF LedRows
    <2>2. CASE db[d].party = c
      <3>1. r = [party |-> n, leader |-> FALSE]
        BY <2>2
      <3>2. r # NoRow
        BY <3>1, PartyAssumption DEF NoRow
      <3> QED BY <2>1, <2>2, <3>1, <3>2
    <2>3. CASE db[d].party # c
      BY <2>1, <2>3
    <2> QED BY <2>2, <2>3
  <1>2. ASSUME NEW d \in Char, db[d].party = n  PROVE  n = c
    BY <1>2, NotHeaded
  <1>3. /\ Headed(e, n)
        /\ \A d \in Char : db[d].party = c => e[d].party = n /\ (e[d].leader => d = n) /\ e[d] # NoRow
    <2>1. Headed(e, n)
      BY <1>1 DEF Headed
    <2>2. ASSUME NEW d \in Char, db[d].party = c
          PROVE  e[d].party = n /\ (e[d].leader => d = n) /\ e[d] # NoRow
      <3>1. /\ e[d] \in {[party |-> n, leader |-> TRUE], [party |-> n, leader |-> FALSE]}
            /\ d # n => e[d] = [party |-> n, leader |-> FALSE]
        BY <1>1, <2>2
      <3>2. e[d].party = n /\ (d # n => e[d].leader = FALSE)
        BY <3>1
      <3> QED BY <3>2, PartyAssumption DEF NoRow
    <2> QED BY <2>1, <2>2
  <1>4. ASSUME NEW d \in Char, e[d].leader  PROVE  e[d].party = d
    BY <1>1, <1>3, <1>4 DEF Flagged
  <1>5. ASSUME NEW d \in Char, e[d] # NoRow  PROVE  Headed(e, e[d].party)
    <2>1. CASE db[d].party = c
      BY <1>3, <2>1
    <2>2. CASE db[d].party # c
      <3>0. e[d] = db[d]
        BY <1>1, <2>2
      <3>1. PICK j \in Char : j = db[d].party /\ Headed(db, j) /\ j # c
        <4>1. db[d] \in RowType /\ db[d] # NoRow
          BY <1>5, <3>0
        <4>2. db[d].party \in Char
          BY <4>1, RowFacts
        <4> QED BY <2>2, <4>2, NotHeaded
      <3>2. db[j].party # c
        BY <3>1 DEF Headed
      <3> QED BY <1>1, <3>0, <3>1, <3>2 DEF Headed
    <2> QED BY <2>1, <2>2
  <1> QED BY <1>1, <1>2, <1>3, <1>4, <1>5 DEF Flagged

\* The same characters are of one party as before.
LEMMA HandedUnique ==
  ASSUME NEW db \in [Char -> RowType], Flagged(db, NoChar), NEW c \in Char, NEW n \in Char, db[n].party = c,
         NEW e, e = LedRows(db, c, n), NEW P \in SUBSET PartyType, Unique(P, db)
  PROVE  Unique(P, e)
  <1> SUFFICES ASSUME NEW p \in P, NEW q \in P, NEW a \in p.members, NEW b \in q.members,
                      p.on = q.on, e[a] # NoRow, e[a].party = e[b].party
               PROVE  p = q
    BY DEF Unique
  <1>1. a \in Char /\ b \in Char
    BY PartyFields
  <1>2. /\ \A d \in Char : /\ db[d].party = c => e[d].party = n
                           /\ db[d].party # c => e[d] = db[d]
        /\ \A d \in Char : db[d].party = n => n = c
    BY LeadHanded
  <1>3. db[a] # NoRow
    <2>1. CASE db[a].party = c
      BY <1>1, <2>1, RowFacts
    <2>2. CASE db[a].party # c
      BY <1>1, <1>2, <2>2
    <2> QED BY <2>1, <2>2
  <1>4. db[a].party = db[b].party
    <2>1. CASE db[a].party = c \/ db[b].party = c
      BY <1>1, <1>2, <2>1
    <2>2. CASE db[a].party # c /\ db[b].party # c
      BY <1>1, <1>2, <2>2
    <2> QED BY <2>1, <2>2
  <1> QED BY <1>3, <1>4 DEF Unique

-----------------------------------------------------------------------------
(***************************************************************************)
(* What the players do, from a state where everything is settled.          *)
(***************************************************************************)
Perfect ==
    /\ Ordered(parties, rows, NoChar) /\ AllFresh(parties, rows) /\ Housed(parties, rows)
    /\ Whereabouts /\ reload = {} /\ moving = {}
    /\ \A s \in Server : outbox[s] = <<>> /\ inbox[s] = <<>>

LEMMA SettledPerfect ==
  ASSUME PartyInv, LeaderInv, Settled
  PROVE  Perfect
  <1>1. Calm /\ Whereabouts
    BY PhaseOver DEF Settled, LeaderInv
  <1>2. /\ reload = {} /\ moving = {}
        /\ \A s \in Server : outbox[s] = <<>> /\ inbox[s] = <<>>
    BY DEF Settled, Quiet
  <1>3. ASSUME NEW c \in Char, rows[c] # NoRow  PROVE  \E p \in parties : c \in p.members
    <2>1. zone[c] # NoServer
      BY <1>1, <1>2, <1>3 DEF Whereabouts
    <2>2. zone[c] \in Server
      BY <2>1 DEF PartyInv, Places
    <2>3. ~ Joining(c)
      BY <1>2, <2>2 DEF Joining
    <2> QED BY <1>1, <1>2, <1>3, <2>1, <2>3, InPartyIs DEF Calm, Covered
  <1> QED BY <1>1, <1>2, <1>3 DEF Perfect, Calm, Housed

LEMMA MayActPerfect ==
  ASSUME PartyInv, LeaderInv, Trouble = {}, NEW c \in Char, MayAct(c)
  PROVE  Perfect /\ zone[c] \in Server
  <1>1. Settled
    BY DEF MayAct, Settled
  <1>2. zone[c] \in Server
    BY DEF MayAct, PartyInv, Places
  <1> QED BY <1>1, <1>2, SettledPerfect

\* A character with a row is in the object of its party, and no other is in one.
LEMMA PerfectMember ==
  ASSUME PartyInv, Perfect, NEW c \in Char
  PROVE  /\ InParty(c) <=> rows[c] # NoRow
         /\ InParty(c) => /\ Fresh(PParty(c), rows) /\ rows[c].party = PParty(c).id
                          /\ Headed(rows, PParty(c).id)
         /\ zone[c] = server_addr[c]
  <1>1. rows \in [Char -> RowType] /\ parties \subseteq PartyType
    BY DEF PartyInv, Rows, Sound
  <1>2. ASSUME InParty(c)
        PROVE  /\ rows[c] # NoRow /\ Fresh(PParty(c), rows) /\ rows[c].party = PParty(c).id
               /\ Headed(rows, PParty(c).id)
    <2>1. PParty(c) \in parties /\ PParty(c) \in PartyType /\ c \in PParty(c).members
      BY <1>2, Member
    <2>2. Fresh(PParty(c), rows)
      BY <2>1 DEF Perfect, AllFresh
    <2>3. rows[c].party = PParty(c).id /\ rows[c] # NoRow /\ PParty(c).id \in Char
      BY <1>1, <2>1, <2>2, FreshMembers
    <2> QED BY <1>1, <2>2, <2>3, NotHeaded DEF Perfect, Ordered
  <1>3. rows[c] # NoRow => InParty(c)
    BY InPartyIs DEF Perfect, Housed
  <1>4. zone[c] = server_addr[c]
    BY DEF Perfect, Whereabouts
  <1> QED BY <1>2, <1>3, <1>4

\* The leader of an object gives it its name.
LEMMA PerfectLeads ==
  ASSUME PartyInv, Perfect, NEW c \in Char, InParty(c), PParty(c).leader \in Char
  PROVE  /\ PParty(c).id = PParty(c).leader /\ PParty(c).leader \in PParty(c).members
         /\ Headed(rows, PParty(c).leader)
         /\ c # PParty(c).leader => rows[c].leader = FALSE
  <1>1. PParty(c) \in PartyType /\ Fresh(PParty(c), rows) /\ rows[c].party = PParty(c).id
        /\ Headed(rows, PParty(c).id) /\ rows[c] # NoRow
    BY Member, PerfectMember
  <1>2. PParty(c).id = PParty(c).leader /\ PParty(c).leader \in PParty(c).members
    BY <1>1, FreshLeader
  <1>3. rows \in [Char -> RowType] /\ Flagged(rows, NoChar)
    BY DEF PartyInv, Rows, Perfect, Ordered
  <1>4. c # PParty(c).leader => rows[c].leader = FALSE
    BY <1>1, <1>2, <1>3, NotLeading
  <1> QED BY <1>1, <1>2, <1>4

\* What is sent when nothing is under way.
LEMMA SentAlone ==
  ASSUME PartyInv, Perfect, NEW s \in Server, NEW m, Send(s, <<m>>), inbox' = inbox
  PROVE  Sent(m)' /\ \A t \in Server : Untold(t)'
  <1>1. outbox[s] = <<>> /\ outbox \in [Server -> Seq(OutMessage)]
    BY DEF Perfect, PartyInv, Out
  <1>2. outbox'[s] = <<>> \o <<m>> /\ \A t \in Server : t # s => outbox'[t] = <<>>
    BY <1>1 DEF Send, Perfect
  <1>3. <<>> \o <<m>> = <<m>> /\ <<m>> # <<>>
    OBVIOUS
  <1>4. outbox'[s] = <<m>>
    BY <1>2, <1>3
  <1> QED BY <1>2, <1>3, <1>4 DEF Sent, Untold, Perfect

Safe == {m \in OutMessage : m.type \notin {"answer", "disband"}}

LEMMA SentHarmless ==
  ASSUME PartyInv, Perfect, NEW s \in Server, NEW ms \in Seq(Safe), Send(s, ms), inbox' = inbox
  PROVE  Harmless'
  <1>1. outbox[s] = <<>> /\ outbox \in [Server -> Seq(OutMessage)]
    BY DEF Perfect, PartyInv, Out
  <1>2. outbox'[s] = <<>> \o ms /\ \A t \in Server : t # s => outbox'[t] = <<>>
    BY <1>1 DEF Send, Perfect
  <1>3. outbox'[s] = ms
    BY <1>2
  <1>4. \A k \in DOMAIN ms : ms[k].type \notin {"answer", "disband"}
    <2>1. \A k \in DOMAIN ms : ms[k] \in Safe
      OBVIOUS
    <2> QED BY <2>1 DEF Safe
  <1> QED BY <1>2, <1>3, <1>4 DEF Harmless, Perfect

LEMMA CalmAgain ==
  ASSUME Ordered(parties', rows', NoChar), AllFresh(parties', rows'), Housed(parties', rows'), Harmless'
  PROVE  Calm' /\ Housed(parties', rows')
  <1>1. Covered'
    BY DEF Covered, Housed, InParty
  <1> QED BY <1>1 DEF Calm

LEMMA StillAgain ==
  ASSUME NEW x, Ordered(parties', rows', x), Housed(parties', rows'), moving' = {}
  PROVE  Still(x)'
  BY DEF Still, Resting

-----------------------------------------------------------------------------
\* A member who does not lead goes.
LEMMA EraseStep ==
  ASSUME PartyInv, Perfect, NEW c \in Char, InParty(c), PParty(c).leader # c,
         Erased(PParty(c), PParty(c), rows, c), inbox' = inbox
  PROVE  Calm' /\ Housed(parties', rows') /\ rows'[c] = NoRow
  <1>1. PICK p \in PartyType : p = PParty(c) /\ p \in parties /\ c \in p.members
    BY Member
  <1>2. /\ Fresh(p, rows) /\ rows[c].party = p.id /\ Headed(rows, p.id) /\ rows[c] # NoRow
        /\ p.id \in Char /\ p.on \in Server /\ p.members \subseteq Char
    BY <1>1, PerfectMember, PartyFields
  <1>3. /\ rows \in [Char -> RowType] /\ Flagged(rows, NoChar) /\ Unique(parties, rows)
        /\ AllFresh(parties, rows) /\ Sound(parties, zone) /\ Housed(parties, rows)
    BY DEF PartyInv, Rows, Perfect, Ordered
  <1>4. p.id # c
    BY <1>1, <1>2 DEF Fresh, Pointed
  <1>5. rows[c].leader = FALSE
    BY <1>1, <1>2, <1>3, <1>4, NotLeading, PartyFields
  <1>6. /\ Flagged(rows', NoChar) /\ rows'[c] = NoRow /\ \A d \in Char : d # c => rows'[d] = rows[d]
    <2>1. rows' = Without(rows, c)
      BY <1>1 DEF Erased
    <2> QED BY <1>3, <1>5, <2>1, RowGone
  <1>7. PICK ms \in SUBSET Char : ms = p.members \ {c}
    BY <1>2
  <1>8. PICK q \in PartyType : q = [p EXCEPT !.members = ms] /\ q.on = p.on /\ q.id = p.id /\ q.members = ms
                               /\ q.leader = p.leader
    BY NewMembers
  <1>9. parties' = Swapped(parties, p, q)
    BY <1>1, <1>7, <1>8 DEF Erased, Replaced, Swapped
  <1>10. Fresh(q, rows)
    BY <1>1, <1>2, <1>4, <1>7, <1>8 DEF Fresh, Pointed
  <1>11. Unique(parties', rows) /\ AllFresh(parties', rows)
    BY <1>1, <1>3, <1>7, <1>8, <1>9, <1>10, SameMembersUnique, SwappedFresh
  <1>12. ASSUME NEW r \in parties'  PROVE  c \notin r.members /\ r.members \subseteq Char
    <2>1. (r = q /\ q.members # {}) \/ (r \in parties /\ r # p)
      BY <1>9, SwappedIs
    <2>2. r \in parties /\ r # p => r.members \cap p.members = {} /\ r.members \subseteq Char
      BY <1>1, <1>3, PartyFields DEF Sound
    <2> QED BY <1>1, <1>7, <1>8, <2>1, <2>2
  <1>13. Unique(parties', rows') /\ AllFresh(parties', rows')
    <2>1. \A r \in parties' : \A d \in r.members : rows'[d] = rows[d]
      BY <1>6, <1>12
    <2> QED BY <1>11, <2>1, OthersRows
  <1>14. Housed(parties', rows')
    <2>1. ASSUME NEW d \in Char, rows'[d] # NoRow  PROVE  \E r \in parties' : d \in r.members
      <3>1. d # c /\ rows[d] # NoRow
        BY <1>6, <2>1
      <3>2. PICK r \in parties : d \in r.members
        BY <1>3, <3>1 DEF Housed
      <3>3. CASE r = p
        <4>1. d \in q.members
          BY <1>7, <1>8, <3>1, <3>2, <3>3
        <4> QED BY <1>9, <4>1 DEF Swapped
      <3>4. CASE r # p
        BY <1>9, <3>2, <3>4 DEF Swapped
      <3> QED BY <3>3, <3>4
    <2> QED BY <2>1 DEF Housed
  <1>15. Harmless'
    <2>1. Send(p.on, <<Reload(p.id)>>)
      BY <1>1 DEF Erased
    <2>2. PICK m \in Safe : m = Reload(p.id)
      BY <1>2, SentTyped DEF Safe, Reload
    <2>3. <<m>> \in Seq(Safe) /\ Send(p.on, <<m>>)
      BY <2>1, <2>2
    <2> QED BY <1>2, <2>3, SentHarmless
  <1> QED BY <1>6, <1>13, <1>14, <1>15, CalmAgain DEF Ordered

\* The party of c, who leads it, is dissolved: its rows here go.
LEMMA DissolveStep ==
  ASSUME PartyInv, Perfect, NEW c \in Char, Leads(c), DisbandParty(PParty(c), c, rows, TRUE),
         inbox' = inbox, moving' = {}
  PROVE  Disbandment(c)' /\ Housed(parties', rows') /\ rows'[c] = NoRow
  <1>1. PICK p \in PartyType : p = PParty(c) /\ p \in parties /\ c \in p.members /\ p.leader = c /\ InParty(c)
    BY Member DEF Leads
  <1>2. p.id = c /\ p.on \in Server /\ p.members \subseteq Char /\ Fresh(p, rows)
    BY <1>1, PerfectLeads, PerfectMember, PartyFields
  <1>3. /\ rows \in [Char -> RowType] /\ Flagged(rows, NoChar) /\ Unique(parties, rows)
        /\ AllFresh(parties, rows) /\ Sound(parties, zone) /\ Housed(parties, rows)
    BY DEF PartyInv, Rows, Perfect, Ordered
  <1>4. /\ parties' = parties \ {p} /\ Send(p.on, <<Disband(c)>>)
        /\ \A d \in Char : rows'[d] = IF d \in p.members THEN NoRow ELSE rows[d]
    BY <1>1 DEF DisbandParty
  <1>5. Sent(Disband(c))' /\ \A t \in Server : Untold(t)'
    BY <1>2, <1>4, SentAlone
  <1>6. ASSUME NEW r \in parties'
        PROVE  r \in parties /\ r.members \cap p.members = {} /\ r.members \subseteq Char
    BY <1>1, <1>3, <1>4, PartyFields DEF Sound
  <1>7. Unique(parties', rows') /\ AllFresh(parties', rows')
    <2>1. \A r \in parties' : \A d \in r.members : rows'[d] = rows[d]
      BY <1>4, <1>6
    <2>2. Unique(parties', rows) /\ AllFresh(parties', rows)
      BY <1>3, <1>6 DEF Unique, AllFresh
    <2> QED BY <2>1, <2>2, OthersRows
  <1>8. Flagged(rows', c)
    <2>1. \A d \in Char : rows'[d].leader => rows'[d].party = d
      BY <1>3, <1>4 DEF Flagged, NoRow
    <2>2. ASSUME NEW d \in Char, rows'[d] # NoRow, rows'[d].party # c  PROVE  Headed(rows', rows'[d].party)
      <3>1. PICK j \in Char : j = rows[d].party /\ j = rows'[d].party /\ Headed(rows, j) /\ rows[j].party = j
        <4>1. rows'[d] = rows[d] /\ rows[d] # NoRow /\ rows[d] \in RowType
          BY <1>3, <1>4, <2>2
        <4>2. rows[d].party \in Char
          BY <4>1, RowFacts
        <4> QED BY <1>3, <4>1, <4>2, NotHeaded
      <3>2. j \notin p.members
        BY <1>2, <2>2, <3>1 DEF Fresh
      <3> QED BY <1>4, <3>1, <3>2 DEF Headed
    <2> QED BY <2>1, <2>2 DEF Flagged
  <1>9. Housed(parties', rows')
    <2>1. ASSUME NEW d \in Char, rows'[d] # NoRow  PROVE  \E r \in parties' : d \in r.members
      <3>1. d \notin p.members /\ rows[d] # NoRow
        BY <1>4, <2>1
      <3>2. PICK r \in parties : d \in r.members
        BY <1>3, <3>1 DEF Housed
      <3> QED BY <1>4, <3>1, <3>2
    <2> QED BY <2>1 DEF Housed
  <1>10. ASSUME NEW d \in Char, rows'[d].party = c  PROVE  ~ rows'[d].leader /\ Untold(zone[d])'
    <2>1. rows'[d] = rows[d] /\ d # c
      <3>1. rows'[d] # NoRow
        BY <1>10, PartyAssumption DEF NoRow
      <3> QED BY <1>1, <1>4, <3>1
    <2>2. ~ rows[d].leader
      BY <1>3, <1>10, <2>1 DEF Flagged
    <2>3. PICK s \in Server : outbox'[s] = <<Disband(c)>>
      BY <1>5 DEF Sent
    <2>4. <<Disband(c)>> # <<>>
      OBVIOUS
    <2> QED BY <2>1, <2>2, <2>3, <2>4 DEF Untold
  <1>11. Told(c)' /\ Alone(Disband(c))'
    BY <1>5 DEF Told, Sent, Alone
  <1>12. Still(c)'
    BY <1>7, <1>8, <1>9, StillAgain DEF Ordered
  <1>13. rows'[c] = NoRow
    BY <1>1, <1>4
  <1> QED BY <1>7, <1>9, <1>10, <1>11, <1>12, <1>13 DEF Disbandment

\* The lead goes from c to n, and the characters of left are no members more.
LEMMA HandStep ==
  ASSUME PartyInv, Perfect, NEW c \in Char, Leads(c), NEW n \in Char, rows[n].party = c,
         NEW left \in SUBSET Char, left \subseteq {c} \ {n}, NEW e, e = LedRows(rows, c, n),
         \A d \in Char : rows'[d] = IF d \in left THEN NoRow ELSE e[d],
         NEW q \in PartyType, q.on = PParty(c).on, q.id = n, q.members = PParty(c).members \ left,
         Pointed(q), parties' = Swapped(parties, PParty(c), q),
         Send(PParty(c).on, <<Reload(n)>>), inbox' = inbox, moving' = {}
  PROVE  Renaming(n)' /\ Housed(parties', rows')
  <1>1. PICK p \in PartyType : p = PParty(c) /\ p \in parties /\ c \in p.members /\ p.leader = c /\ InParty(c)
    BY Member DEF Leads
  <1>2. p.id = c /\ p.on \in Server /\ p.members \subseteq Char /\ Fresh(p, rows)
    BY <1>1, PerfectLeads, PerfectMember, PartyFields
  <1>3. /\ rows \in [Char -> RowType] /\ Flagged(rows, NoChar) /\ Unique(parties, rows)
        /\ AllFresh(parties, rows) /\ Sound(parties, zone) /\ Housed(parties, rows)
        /\ parties \in SUBSET PartyType
    BY DEF PartyInv, Rows, Perfect, Ordered, Sound
  <1>4. /\ \A d \in Char : /\ rows[d].party = c => e[d].party = n /\ (e[d].leader => d = n) /\ e[d] # NoRow
                           /\ rows[d].party # c => e[d] = rows[d]
        /\ Headed(e, n) /\ Flagged(e, NoChar)
    BY <1>3, LeadHanded
  <1>5. Unique(parties, e)
    BY <1>3, HandedUnique
  <1>6. Unique(parties', e)
    BY <1>1, <1>5, SameMembersUnique
  <1>7. ASSUME NEW r \in parties'
        PROVE  /\ r = q \/ (r \in parties /\ r # p)
               /\ r.members \subseteq Char /\ r.members \cap left = {}
    <2>1. r = q \/ (r \in parties /\ r # p)
      BY <1>1, SwappedIs
    <2>2. r \in parties /\ r # p => r.members \cap p.members = {} /\ r.members \subseteq Char
      BY <1>1, <1>3, PartyFields DEF Sound
    <2>3. r = q => r.members \subseteq Char /\ r.members \cap left = {}
      BY PartyFields
    <2> QED BY <1>1, <2>1, <2>2, <2>3
  <1>8. Unique(parties', rows')
    <2>1. \A r \in parties' : \A d \in r.members : rows'[d] = e[d]
      BY <1>7
    <2> QED BY <1>6, <2>1, OthersRows
  <1>9. Flagged(rows', NoChar)
    <2>1. ASSUME NEW d \in Char, rows'[d].leader  PROVE  rows'[d].party = d
      <3>1. d \notin left
        BY <2>1 DEF NoRow
      <3> QED BY <1>4, <2>1, <3>1 DEF Flagged
    <2>2. ASSUME NEW d \in Char, rows'[d] # NoRow  PROVE  Headed(rows', rows'[d].party)
      <3>1. d \notin left /\ rows'[d] = e[d]
        BY <2>2
      <3>2. PICK j : j = e[d].party
        OBVIOUS
      <3>3. j \in Char
        <4>1. CASE rows[d].party = c
          BY <1>4, <3>2, <4>1
        <4>2. CASE rows[d].party # c
          BY <1>3, <1>4, <2>2, <3>1, <3>2, <4>2, RowFacts
        <4> QED BY <4>1, <4>2
      <3>4. Headed(e, j)
        BY <1>4, <2>2, <3>1, <3>2, <3>3, PartyAssumption DEF Flagged
      <3>5. j \notin left
        <4>1. e[j].party = j
          BY <3>4 DEF Headed
        <4>2. rows[c].party = c
          BY <1>1, <1>2 DEF Fresh
        <4>3. e[c].party = n
          BY <1>4, <4>2
        <4> QED BY <4>1, <4>3
      <3> QED BY <3>1, <3>2, <3>3, <3>4, <3>5 DEF Headed
    <2> QED BY <2>1, <2>2 DEF Flagged
  <1>10. Sent(Reload(n))' /\ \A t \in Server : Untold(t)'
    BY <1>1, <1>2, SentAlone
  <1>11. ASSUME NEW r \in parties'  PROVE  Fresh(r, rows') \/ Stale(r, n)'
    <2>1. CASE r = q
      <3>1. ASSUME NEW d \in q.members  PROVE  rows'[d].party = n
        <4>1. d \in p.members /\ d \in Char /\ d \notin left
          BY <1>1, <1>2
        <4>2. rows[d].party = c
          BY <1>2, <4>1 DEF Fresh
        <4> QED BY <1>4, <4>1, <4>2
      <3> QED BY <2>1, <3>1 DEF Fresh
    <2>2. CASE r # q
      <3>1. /\ r \in parties /\ Fresh(r, rows) /\ r.on \in Server
            /\ r.members \subseteq Char /\ r.members \cap left = {}
        BY <1>3, <1>7, <2>2, PartyFields DEF AllFresh
      <3>2. \A d \in r.members : rows[d].party = r.id /\ rows'[d] = e[d]
        BY <3>1 DEF Fresh
      <3>3. CASE r.id = c
        <4>1. \A d \in r.members : rows'[d].party = n
          BY <1>4, <3>1, <3>2, <3>3
        <4>2. Untold(r.on)'
          BY <1>10, <3>1
        <4> QED BY <4>1, <4>2 DEF Stale
      <3>4. CASE r.id # c
        <4>1. \A d \in r.members : rows'[d] = rows[d]
          BY <1>4, <3>1, <3>2, <3>4
        <4> QED BY <3>1, <4>1 DEF Fresh
      <3> QED BY <3>3, <3>4
    <2> QED BY <2>1, <2>2
  <1>12. Housed(parties', rows')
    <2>1. ASSUME NEW d \in Char, rows'[d] # NoRow  PROVE  \E r \in parties' : d \in r.members
      <3>1. d \notin left /\ rows[d] # NoRow
        <4>1. d \notin left /\ e[d] # NoRow
          BY <2>1
        <4>2. rows[d].party = c => rows[d] # NoRow
          BY <1>3, RowFacts
        <4> QED BY <1>4, <4>1, <4>2
      <3>2. PICK r \in parties : d \in r.members
        BY <1>3, <3>1 DEF Housed
      <3>3. CASE r = p
        <4>1. d \in q.members
          BY <1>1, <3>1, <3>2, <3>3
        <4> QED BY <4>1 DEF Swapped
      <3>4. CASE r # p
        BY <1>1, <3>2, <3>4 DEF Swapped
      <3> QED BY <3>3, <3>4
    <2> QED BY <2>1 DEF Housed
  <1>13. Told(n)' /\ Alone(Reload(n))'
    BY <1>10 DEF Told, Sent, Alone
  <1>14. Still(NoChar)'
    BY <1>8, <1>9, <1>12, StillAgain DEF Ordered
  <1> QED BY <1>11, <1>12, <1>13, <1>14 DEF Renaming

LEMMA LedPointed ==
  ASSUME NEW p \in PartyType, NEW n \in Char
  PROVE  /\ Led(p, n) \in PartyType /\ Led(p, n).on = p.on /\ Led(p, n).id = n
         /\ Led(p, n).members = p.members /\ Pointed(Led(p, n))
  <1> DEFINE l == IF n \in p.members THEN n ELSE NoChar
  <1>1. l \in Char \cup {NoChar}
    OBVIOUS
  <1> HIDE DEF l
  <1> DEFINE q == [p EXCEPT !.id = n, !.leader = l]
  <1>2. q \in PartyType /\ q.on = p.on /\ q.id = n /\ q.members = p.members /\ q.leader = l
    BY <1>1 DEF PartyType
  <1>3. Pointed(q)
    BY <1>2, PartyAssumption DEF Pointed, l
  <1>4. Led(p, n) = q
    BY DEF Led, l
  <1> HIDE DEF q
  <1> QED BY <1>2, <1>3, <1>4

\* CParty::RemoveMember.
LEMMA RemoveStep ==
  ASSUME PartyInv, Perfect, NEW c \in Char, InParty(c), RemoveMember(c), inbox' = inbox, moving' = {}
  PROVE  Phase' /\ Housed(parties', rows') /\ rows'[c] = NoRow
  <1>1. CASE ~Leads(c)
    BY <1>1, EraseStep DEF RemoveMember, Leads, Phase
  <1>2. CASE Leads(c)
    <2>1. RemovePartyLeader(c)
      BY <1>2 DEF RemoveMember
    <2>2. PICK p \in PartyType : p = PParty(c) /\ p \in parties /\ c \in p.members /\ p.leader = c
      BY <1>2, Member DEF Leads
    <2>3. p.id = c /\ p.on \in Server /\ p.members \subseteq Char /\ Headed(rows, c)
      BY <1>2, <2>2, PerfectLeads, PartyFields
    <2>4. rows[c].leader = TRUE
      BY <2>3 DEF Headed
    <2>5. CASE DisbandParty(p, p.id, rows, TRUE)
      BY <1>2, <2>2, <2>3, <2>5, DissolveStep DEF Phase
    <2>6. ASSUME NEW n \in RowsOf(rows, p.id), ~ rows[n].leader,
                 IF n = c THEN DisbandParty(p, n, LedRows(rows, p.id, n), TRUE)
                 ELSE Erased(p, Led(p, n), LedRows(rows, p.id, n), c)
          PROVE  Phase' /\ Housed(parties', rows') /\ rows'[c] = NoRow
      <3>1. n \in Char /\ rows[n].party = c /\ n # c
        BY <2>3, <2>4, <2>6 DEF RowsOf
      <3>2. PICK e : e = LedRows(rows, c, n)
        OBVIOUS
      <3>3. Erased(p, Led(p, n), e, c)
        BY <2>3, <2>6, <3>1, <3>2
      <3>4. PICK l \in PartyType :
              l = Led(p, n) /\ l.on = p.on /\ l.id = n /\ l.members = p.members /\ Pointed(l)
        BY <3>1, LedPointed
      <3>5. PICK ms \in SUBSET Char : ms = l.members \ {c}
        BY <2>3, <3>4
      <3>6. PICK q \in PartyType :
              /\ q = [l EXCEPT !.members = ms] /\ q.on = l.on /\ q.id = l.id
              /\ q.leader = l.leader /\ q.members = ms
        BY NewMembers
      <3>7. Pointed(q)
        BY <3>1, <3>4, <3>5, <3>6 DEF Pointed
      <3>8. /\ parties' = Swapped(parties, p, q) /\ rows' = Without(e, c) /\ Send(p.on, <<Reload(n)>>)
        <4>1. Erased(p, l, e, c) /\ l.id = n
          BY <3>3, <3>4
        <4> QED BY <4>1, <3>5, <3>6 DEF Erased, Replaced, Swapped
      <3>0. PICK left \in SUBSET Char : left = {c}
        OBVIOUS
      <3>9. \A d \in Char : rows'[d] = IF d \in left THEN NoRow ELSE e[d]
        BY <3>0, <3>2, <3>8 DEF Without, LedRows
      <3>10. Renaming(n)' /\ Housed(parties', rows')
        <4>1. left \subseteq {c} \ {n}
          BY <3>0, <3>1
        <4>2. /\ q.on = PParty(c).on /\ q.id = n /\ q.members = PParty(c).members \ left
              /\ parties' = Swapped(parties, PParty(c), q) /\ Send(PParty(c).on, <<Reload(n)>>)
          BY <2>2, <3>0, <3>4, <3>5, <3>6, <3>8
        <4>3. inbox' = inbox /\ moving' = {} /\ Leads(c) /\ rows[n].party = c
          BY <1>2, <3>1
        <4> QED BY SMTT(60), <3>1, <3>2, <3>7, <3>9, <4>1, <4>2, <4>3, HandStep
      <3> QED BY <3>0, <3>1, <3>9, <3>10 DEF Phase
    <2> QED BY <2>1, <2>2, <2>5, <2>6 DEF RemovePartyLeader
  <1> QED BY <1>1, <1>2

\* 0x077.
LEMMA GiveLeadStep ==
  ASSUME PartyInv, Perfect, NEW c \in Char, NEW n \in Char, GiveLead(c, n)
  PROVE  Renaming(n)' /\ Housed(parties', rows')
  <1>1. Leads(c) /\ InParty(c)
    BY DEF GiveLead, Leads
  <1>2. PICK p \in PartyType : p = PParty(c) /\ p \in parties /\ c \in p.members /\ p.leader = c
    BY <1>1, Member DEF Leads
  <1>3. p.id = c /\ p.on = zone[c]
    BY <1>1, <1>2, PerfectLeads, Member
  <1>4. PICK e : e = LedRows(rows, c, n)
    OBVIOUS
  <1>5. PICK q \in PartyType : q = Led(p, n) /\ q.on = p.on /\ q.id = n /\ q.members = p.members /\ Pointed(q)
    BY LedPointed
  <1>6. /\ rows[n].party = c /\ parties' = (parties \ {p}) \cup {q} /\ rows' = e
        /\ Send(p.on, <<Reload(n)>>) /\ inbox' = inbox /\ moving' = moving
    BY <1>2, <1>3, <1>4, <1>5 DEF GiveLead, where
  <1>7. parties' = Swapped(parties, p, q)
    BY <1>2, <1>5, <1>6 DEF Swapped
  <1>8. moving' = {}
    BY <1>6 DEF Perfect
  <1>9. \A d \in Char : rows'[d] = IF d \in {} THEN NoRow ELSE e[d]
    BY <1>6
  <1>10. {} \in SUBSET Char /\ {} \subseteq {c} \ {n} /\ q.members = PParty(c).members \ {}
    BY <1>2, <1>5
  <1> QED BY <1>1, <1>2, <1>4, <1>5, <1>6, <1>7, <1>8, <1>9, <1>10, HandStep

\* 0x071 of somebody elsewhere.
LEMMA KickStep ==
  ASSUME PartyInv, Perfect, Trouble = {}, NEW c \in Char, NEW d \in Char, KickElsewhere(c, d)
  PROVE  Kicking(c, d)' /\ Housed(parties', rows')
  <1>1. /\ Leads(c) /\ InParty(c) /\ d \notin PParty(c).members /\ rows[d].party = c
        /\ rows' = Without(rows, d) /\ Send(zone[c], <<ReloadOf(PParty(c).id, d)>>)
        /\ UNCHANGED <<where, parties, reload, pending, inbox>>
    BY DEF KickElsewhere, Leads
  <1>2. PICK p \in PartyType : p = PParty(c) /\ p \in parties /\ c \in p.members /\ p.leader = c
    BY <1>1, Member DEF Leads
  <1>3. p.id = c /\ p.on = zone[c] /\ p.on \in Server
    BY <1>1, <1>2, PerfectLeads, Member, PartyFields
  <1>4. PICK f \in Char : f # d /\ rows[f].party = c /\ server_addr[f] = server_addr[d]
    BY <1>2, <1>3 DEF KickElsewhere, RowsOf
  <1>5. /\ rows \in [Char -> RowType] /\ Flagged(rows, NoChar) /\ Unique(parties, rows)
        /\ AllFresh(parties, rows) /\ Sound(parties, zone) /\ Housed(parties, rows)
    BY DEF PartyInv, Rows, Perfect, Ordered
  <1>6. d # c /\ rows[d] # NoRow /\ rows[f] # NoRow /\ rows[d].leader = FALSE
    <2>1. d # c
      BY <1>1, <1>2
    <2>2. rows[d] # NoRow /\ rows[f] # NoRow
      <3>1. rows[d] \in RowType /\ rows[f] \in RowType
        BY <1>5
      <3> QED BY <1>1, <1>4, <3>1, RowFacts
    <2>3. rows[d].party # d
      BY <1>1, <2>1
    <2>4. rows[d].leader = FALSE
      BY <1>5, <2>3, NotLeading
    <2> QED BY <2>1, <2>2, <2>4
  <1>7. /\ Flagged(rows', NoChar) /\ rows'[d] = NoRow /\ \A x \in Char : x # d => rows'[x] = rows[x]
    BY <1>1, <1>5, <1>6, RowGone
  <1>8. PICK k \in PartyType : k = PParty(d) /\ k \in parties /\ d \in k.members /\ Fresh(k, rows)
                               /\ k.id = c /\ k.on = zone[d]
    BY <1>1, <1>6, PerfectMember, Member
  <1>9. f \in k.members
    <2>1. PICK g \in PartyType :
            g = PParty(f) /\ g \in parties /\ f \in g.members /\ g.id = c /\ g.on = zone[f]
      BY <1>4, <1>6, PerfectMember, Member
    <2>2. zone[f] = zone[d]
      BY <1>4, PerfectMember
    <2>3. g = k
      BY <1>5, <1>8, <2>1, <2>2, UniqueFresh
    <2> QED BY <2>1, <2>3
  <1>10. Sent(ReloadOf(c, d))' /\ \A t \in Server : Untold(t)'
    BY <1>1, <1>2, <1>3, SentAlone
  <1>11. reload' = {} /\ moving' = {}
    BY <1>1 DEF Perfect, where
  <1>12. ASSUME NEW r \in parties  PROVE  Fresh(r, rows') \/ Outdated(r, c, d)'
    <2>0. r.members \subseteq Char /\ r.on \in Server /\ Fresh(r, rows)
      BY <1>5, PartyFields DEF Sound, AllFresh
    <2>1. CASE r = k
      <3>1. \A x \in r.members : x # d => rows'[x].party = c
        BY <1>7, <1>8, <2>0, <2>1 DEF Fresh
      <3>2. r.members # {d} /\ Untold(r.on)'
        BY <1>4, <1>9, <1>10, <2>0, <2>1
      <3> QED BY <1>7, <1>8, <1>11, <2>0, <2>1, <3>1, <3>2 DEF Outdated, Fresh
    <2>2. CASE r # k
      <3>1. d \notin r.members
        BY <1>5, <1>8, <2>2 DEF Sound
      <3> QED BY <1>7, <2>0, <3>1 DEF Fresh
    <2> QED BY <2>1, <2>2
  <1>13. Unique(parties, rows')
    <2>1. ASSUME NEW r \in parties, NEW t \in parties, NEW a \in r.members, NEW b \in t.members,
                 r.on = t.on, rows'[a] # NoRow, rows'[a].party = rows'[b].party
          PROVE  r = t
      <3>1. a \in Char /\ b \in Char
        BY <1>5, PartyFields DEF Sound
      <3>2. a # d /\ rows'[a] = rows[a]
        BY <1>7, <2>1, <3>1
      <3>3. rows[a].party \in Char
        BY <1>5, <2>1, <3>1, <3>2, RowFacts
      <3>4. b # d
        BY <1>7, <2>1, <3>2, <3>3, PartyAssumption DEF NoRow
      <3> QED BY <1>5, <1>7, <2>1, <3>1, <3>2, <3>4 DEF Unique
    <2> QED BY <2>1 DEF Unique
  <1>14. Housed(parties, rows')
    BY <1>5, <1>7 DEF Housed
  <1>15. Still(NoChar)'
    BY <1>1, <1>7, <1>11, <1>13, <1>14, StillAgain DEF Ordered
  <1> QED BY <1>1, <1>6, <1>10, <1>12, <1>14, <1>15 DEF Kicking, Alone

LEMMA SetFlag ==
  ASSUME NEW i \in Char, NEW x \in [party : Char, leader : BOOLEAN], x.party = i, NEW l \in BOOLEAN
  PROVE  [x EXCEPT !.leader = l] = [party |-> i, leader |-> l]
  OBVIOUS

\* The party that i has, or starts, and the rows then.
LEMMA HostStep ==
  ASSUME PartyInv, Ordered(parties, rows, NoChar), AllFresh(parties, rows), Housed(parties, rows),
         NEW i \in Char, zone[i] \in Server, server_addr[i] # NoServer,
         NEW p, p = PartyOf(i), NEW db, db = (IF InParty(i) THEN rows ELSE FoundedRows(i)),
         NEW P, P = parties \cup {p}
  PROVE  /\ p \in PartyType /\ p.on = zone[i] /\ i \in p.members /\ db \in [Char -> RowType]
         /\ Sound(P, zone) /\ Ordered(P, db, NoChar) /\ AllFresh(P, db) /\ Housed(P, db)
         /\ Headed(db, p.id) /\ Fresh(p, db)
         /\ \A d \in Char : rows[d] # NoRow \/ d # i => db[d] = rows[d]
         /\ ~InParty(i) => p.leader = i /\ p.id = i
  <1>1. /\ p \in PartyType /\ i \in p.members /\ p.on = zone[i] /\ p.members # {}
        /\ \A r \in parties : r # p => r.members \cap p.members = {}
        /\ \A c \in p.members : zone[c] = p.on
        /\ ~InParty(i) => p.members = {i}
    BY PartyOfSound
  <1>2. /\ rows \in [Char -> RowType] /\ Flagged(rows, NoChar) /\ Unique(parties, rows)
        /\ Sound(parties, zone)
    BY DEF PartyInv, Rows, Ordered
  <1>3. Sound(P, zone)
    <2>1. P = Swapped(parties, p, p)
      BY <1>1 DEF Swapped
    <2> QED BY <1>1, <1>2, <2>1, SwapSound
  <1>4. CASE InParty(i)
    <2>1. p \in parties /\ P = parties /\ db = rows
      BY <1>4, Member DEF PartyOf
    <2>2. Fresh(p, rows)
      BY <2>1 DEF AllFresh
    <2>3. rows[i].party = p.id /\ p.id \in Char
      BY <1>1, <1>2, <2>2, FreshMembers
    <2>4. Headed(rows, p.id)
      BY <1>2, <2>3, NotHeaded
    <2> QED BY <1>1, <1>2, <1>3, <1>4, <2>1, <2>2, <2>4
  <1>5. CASE ~InParty(i)
    <2>1. p = Founded(i) /\ db = FoundedRows(i)
      BY <1>5 DEF PartyOf
    <2>2. p.id = i /\ p.leader = i /\ p.members = {i}
      BY <2>1 DEF Founded
    <2>3. rows[i] = NoRow
      BY <1>5, InPartyIs DEF Housed
    <2>4. \A d \in Char : rows[d].party # i
      BY <1>2, <2>3, NotHeaded
    <2>5. PICK e \in [Char -> RowType] : e = [rows EXCEPT ![i] = [party |-> i, leader |-> TRUE]]
      BY <1>2, NewRow
    <2>6. db = e
      <3>1. PICK f : f = Inserted(rows, i, i)
        OBVIOUS
      <3>2. f = [rows EXCEPT ![i] = [party |-> i, leader |-> FALSE]]
        BY <2>3, <3>1 DEF Inserted
      <3>3. f[i] = [party |-> i, leader |-> FALSE] /\ \A d \in Char : d # i => f[d] = rows[d]
        BY <1>2, <3>2
      <3>4. db = LedRows(f, i, i)
        BY <2>1, <3>1 DEF FoundedRows
      <3>5. ASSUME NEW d \in Char  PROVE  LedRows(f, i, i)[d] = e[d]
        <4> DEFINE r == IF f[d].party = i THEN [party |-> i, leader |-> FALSE] ELSE f[d]
        <4>1. LedRows(f, i, i)[d] = IF d = i /\ r # NoRow THEN [r EXCEPT !.leader = TRUE] ELSE r
          BY DEF LedRows
        <4>2. CASE d = i
          <5>1. PICK x \in [party : Char, leader : BOOLEAN] :
                  x = [party |-> i, leader |-> FALSE] /\ x = r /\ x # NoRow /\ x.party = i
            <6>1. PICK x \in [party : Char, leader : BOOLEAN] : x = [party |-> i, leader |-> FALSE]
              OBVIOUS
            <6>2. r = [party |-> i, leader |-> FALSE]
              BY <3>3, <4>2
            <6> HIDE DEF r
            <6>3. x.party = i /\ x # NoRow
              BY <6>1, PartyAssumption DEF NoRow
            <6> QED BY <6>1, <6>2, <6>3
          <5>2. [x EXCEPT !.leader = TRUE] = [party |-> i, leader |-> TRUE]
            BY <5>1, SetFlag
          <5>3. e[d] = [party |-> i, leader |-> TRUE]
            BY <1>2, <2>5, <4>2
          <5> HIDE DEF r
          <5> QED BY <4>1, <4>2, <5>1, <5>2, <5>3
        <4>3. CASE d # i
          <5>1. r = rows[d] /\ e[d] = rows[d]
            BY <1>2, <2>4, <2>5, <3>3, <4>3
          <5> QED BY <4>1, <4>3, <5>1
        <4> QED BY <4>2, <4>3
      <3>6. db = [d \in Char |-> db[d]] /\ e = [d \in Char |-> e[d]]
        BY <2>5, <3>4 DEF LedRows
      <3> QED BY <3>4, <3>5, <3>6
    <2>7. /\ Flagged(db, NoChar) /\ db \in [Char -> RowType] /\ db[i].party = i /\ db[i] # NoRow
          /\ Headed(db, i) /\ \A d \in Char : d # i => db[d] = rows[d]
      <3>1. PICK l \in BOOLEAN : l = TRUE
        OBVIOUS
      <3>2. PICK j \in Char : j = i
        OBVIOUS
      <3>3. db = [rows EXCEPT ![j] = [party |-> i, leader |-> l]] /\ (l <=> i = j) /\ rows[j] = NoRow
        BY <2>3, <2>5, <2>6, <3>1, <3>2
      <3>4. /\ Flagged(db, NoChar) /\ db \in [Char -> RowType] /\ db[j].party = i /\ db[j] # NoRow
            /\ Headed(db, i) /\ \A d \in Char : d # j => db[d] = rows[d]
        <4>1. i = j \/ Headed(rows, i)
          BY <3>2
        <4> QED BY SMTT(30), <1>2, <3>3, <4>1, RowAdded
      <3> QED BY <3>2, <3>4
    <2>8. \A r \in parties : i \notin r.members /\ r.members \subseteq Char /\ r.id # i
      <3>1. ASSUME NEW r \in parties  PROVE  i \notin r.members /\ r.members \subseteq Char /\ r.id # i
        <4>1. i \notin r.members
          BY <1>5, InPartyIs
        <4>2. r \in PartyType /\ Fresh(r, rows)
          BY <1>2 DEF Sound, AllFresh
        <4>3. PICK d \in r.members : TRUE
          BY <1>2 DEF Sound
        <4>4. d \in Char /\ rows[d].party = r.id
          BY <1>2, <4>2, FreshMembers
        <4> QED BY <2>4, <4>1, <4>2, <4>4, PartyFields
      <3> QED BY <3>1
    <2>9. Unique(parties, db) /\ AllFresh(parties, db)
      <3>1. \A r \in parties : \A d \in r.members : db[d] = rows[d]
        BY <2>7, <2>8
      <3> QED BY <1>2, <3>1, OthersRows
    <2>10. Fresh(p, db)
      BY <2>2, <2>7 DEF Fresh, Pointed
    <2>11. P = Swapped(parties, p, p)
      BY <1>1 DEF Swapped
    <2>12. Unique(P, db) /\ AllFresh(P, db)
      <3>1. \A r \in parties : ~ (r.on = p.on /\ r.id = p.id)
        BY <2>2, <2>8
      <3>2. Unique(Swapped(parties, p, p), db)
        BY <1>1, <1>2, <2>7, <2>9, <2>10, <3>1, EnterUnique
      <3>3. AllFresh(Swapped(parties, p, p), db)
        BY <2>9, <2>10, SwappedFresh
      <3> QED BY <2>11, <3>2, <3>3
    <2>13. Housed(P, db)
      BY <1>1, <2>7 DEF Housed
    <2> QED BY <1>1, <1>3, <2>2, <2>3, <2>7, <2>10, <2>12, <2>13 DEF Ordered
  <1> QED BY <1>4, <1>5

\* A new member's row.
LEMMA MemberRow ==
  ASSUME NEW P, NEW z, Sound(P, z), NEW db \in [Char -> RowType], Ordered(P, db, NoChar), AllFresh(P, db),
         NEW i \in Char, Headed(db, i), NEW c \in Char, db[c] = NoRow, server_addr[c] # NoServer,
         NEW e, e = Inserted(db, c, i)
  PROVE  /\ e \in [Char -> RowType] /\ Ordered(P, e, NoChar) /\ AllFresh(P, e)
         /\ e[c].party = i /\ e[c] # NoRow /\ Headed(e, i) /\ \A d \in Char : d # c => e[d] = db[d]
         /\ \A p \in P : c \notin p.members
  <1>1. Flagged(db, NoChar) /\ Unique(P, db)
    BY DEF Ordered
  <1>2. i # c
    BY PartyAssumption DEF Headed, NoRow
  <1>3. PICK l \in BOOLEAN : l = FALSE
    OBVIOUS
  <1>4. e = [db EXCEPT ![c] = [party |-> i, leader |-> l]] /\ (l <=> i = c)
    BY <1>2, <1>3 DEF Inserted
  <1>5. Flagged(e, NoChar) /\ e \in [Char -> RowType] /\ e[c].party = i /\ e[c] # NoRow
        /\ Headed(e, i) /\ \A d \in Char : d # c => e[d] = db[d]
    BY <1>1, <1>4, RowAdded
  <1>6. ASSUME NEW p \in P  PROVE  c \notin p.members /\ p.members \subseteq Char
    <2>1. p \in PartyType /\ Fresh(p, db)
      BY DEF Sound, AllFresh
    <2> QED BY <2>1, FreshMembers, PartyFields
  <1>7. Unique(P, e) /\ AllFresh(P, e)
    <2>1. \A p \in P : \A d \in p.members : e[d] = db[d]
      BY <1>5, <1>6
    <2> QED BY <1>1, <2>1, OthersRows
  <1> QED BY <1>5, <1>6, <1>7 DEF Ordered

\* CParty::AddMember(CBattleEntity*).
LEMMA AddMemberStep ==
  ASSUME PartyInv, Perfect, NEW i \in Char, NEW c \in Char, zone[i] \in Server, zone[c] = zone[i],
         ~InParty(c), InParty(i) => PParty(i).leader = i, AddMember(i, c), inbox' = inbox
  PROVE  Calm' /\ Housed(parties', rows')
  <1>1. PICK p, db, P :
          /\ p = PartyOf(i) /\ P = parties \cup {p}
          /\ db = (IF InParty(i) THEN rows ELSE FoundedRows(i))
    OBVIOUS
  <1>2. server_addr[i] # NoServer /\ server_addr[c] # NoServer
    BY PerfectMember, PartyAssumption
  <1>3. /\ p \in PartyType /\ p.on = zone[i] /\ i \in p.members /\ db \in [Char -> RowType]
        /\ Sound(P, zone) /\ Ordered(P, db, NoChar) /\ AllFresh(P, db) /\ Housed(P, db)
        /\ Headed(db, p.id) /\ Fresh(p, db)
        /\ \A d \in Char : rows[d] # NoRow \/ d # i => db[d] = rows[d]
        /\ ~InParty(i) => p.leader = i /\ p.id = i
    <2>1. Ordered(parties, rows, NoChar) /\ AllFresh(parties, rows) /\ Housed(parties, rows)
      BY DEF Perfect
    <2> QED BY SMTT(60), <1>1, <1>2, <2>1, HostStep
  <1>4. p.leader = i /\ p.id = i /\ p.members \subseteq Char
    <2>1. p.leader = i
      BY <1>1, <1>3 DEF PartyOf
    <2> QED BY <1>3, <2>1, FreshLeader, PartyFields
  <1>5. PICK ms \in SUBSET Char : ms = p.members \cup {c}
    BY <1>4
  <1>6. PICK q \in PartyType :
          /\ q = [p EXCEPT !.members = ms] /\ q.on = p.on /\ q.id = p.id
          /\ q.leader = p.leader /\ q.members = ms
    BY <1>3, NewMembers
  <1>7. /\ parties' = Swapped(P, p, q) /\ rows' = Inserted(db, c, i)
        /\ Send(p.on, (IF InParty(i) THEN <<>> ELSE <<Reload(i)>>) \o <<Reload(i)>>)
    <2>1. /\ parties' = (parties \ {p}) \cup {q} /\ rows' = Inserted(db, c, i)
          /\ Send(p.on, (IF InParty(i) THEN <<>> ELSE <<Reload(i)>>) \o <<Reload(i)>>)
      BY <1>1, <1>4, <1>5, <1>6 DEF AddMember, PartyOf
    <2>2. q.members # {}
      BY <1>5, <1>6
    <2> QED BY <1>1, <2>1, <2>2 DEF Swapped
  <1>8. /\ rows' \in [Char -> RowType] /\ Ordered(P, rows', NoChar) /\ AllFresh(P, rows')
        /\ rows'[c].party = i /\ \A d \in Char : d # c => rows'[d] = db[d]
    <2>1. CASE db[c] = NoRow
      BY <1>2, <1>3, <1>4, <1>7, <2>1, MemberRow
    <2>2. CASE db[c] # NoRow
      <3>1. rows' = db
        BY <1>7, <2>2 DEF Inserted
      <3>2. c = i
        BY <1>3, <2>2, PerfectMember
      <3>3. db[c].party = i
        BY <1>3, <1>4, <3>2 DEF Headed
      <3> QED BY <1>3, <3>1, <3>3
    <2> QED BY <2>1, <2>2
  <1>9. p \in P
    BY <1>1
  <1>10. Fresh(q, rows')
    <2>1. Fresh(p, rows')
      BY <1>8, <1>9 DEF AllFresh
    <2>2. \A d \in q.members : rows'[d].party = q.id
      BY <1>4, <1>5, <1>6, <1>8, <2>1 DEF Fresh
    <2>3. Pointed(q)
      BY <1>3, <1>4, <1>5, <1>6 DEF Pointed
    <2> QED BY <2>2, <2>3 DEF Fresh
  <1>11. Unique(parties', rows') /\ AllFresh(parties', rows')
    <2>1. Unique(P, rows')
      BY <1>8 DEF Ordered
    <2>2. Unique(Swapped(P, p, q), rows')
      BY <1>3, <1>6, <1>8, <1>9, <1>10, <2>1, EnterUnique
    <2>3. AllFresh(Swapped(P, p, q), rows')
      BY <1>8, <1>10, SwappedFresh
    <2> QED BY <1>7, <2>2, <2>3
  <1>12. Housed(parties', rows')
    <2>1. ASSUME NEW d \in Char, rows'[d] # NoRow  PROVE  \E r \in parties' : d \in r.members
      <3>1. CASE d \in q.members
        BY <1>7, <3>1 DEF Swapped
      <3>2. CASE d \notin q.members
        <4>1. db[d] # NoRow /\ d \notin p.members
          BY <1>5, <1>6, <1>8, <2>1, <3>2
        <4>2. PICK r \in P : d \in r.members
          BY <1>3, <4>1 DEF Housed
        <4> QED BY <1>7, <4>1, <4>2 DEF Swapped
      <3> QED BY <3>1, <3>2
    <2> QED BY <2>1 DEF Housed
  <1>13. Harmless'
    <2>1. PICK m \in Safe : m = Reload(i)
      BY SentTyped DEF Safe, Reload
    <2>2. PICK a \in Seq(Safe), b \in Seq(Safe) : a = (IF InParty(i) THEN <<>> ELSE <<m>>) /\ b = <<m>>
      <3>1. <<>> \in Seq(Safe) /\ <<m>> \in Seq(Safe)
        OBVIOUS
      <3>2. (IF InParty(i) THEN <<>> ELSE <<m>>) \in Seq(Safe)
        BY <3>1
      <3> QED BY <3>1, <3>2
    <2>3. a \o b \in Seq(Safe) /\ Send(p.on, a \o b)
      BY <1>7, <2>1, <2>2
    <2> QED BY <1>3, <2>3, SentHarmless
  <1> QED BY <1>8, <1>11, <1>12, <1>13, CalmAgain DEF Ordered

\* The steps that only send an invitation or note one.
LEMMA InviteStep ==
  ASSUME PartyInv, Perfect, NEW c \in Char, zone[c] \in Server,
         UNCHANGED <<rows, where, parties, reload, inbox>>,
         UNCHANGED outbox \/ \E d \in Char : Send(zone[c], <<[type |-> "invite", party |-> c, char |-> d]>>)
  PROVE  Calm' /\ Housed(parties', rows')
  <1>1. Harmless'
    <2>1. CASE UNCHANGED outbox
      BY <2>1 DEF Harmless, Perfect
    <2>2. ASSUME NEW d \in Char, Send(zone[c], <<[type |-> "invite", party |-> c, char |-> d]>>)
          PROVE  Harmless'
      <3>1. PICK m \in Safe : m = [type |-> "invite", party |-> c, char |-> d]
        BY SentAboutTyped DEF Safe
      <3>2. <<m>> \in Seq(Safe)
        BY <3>1
      <3> QED BY <2>2, <3>1, <3>2, SentHarmless
    <2> QED BY <2>1, <2>2
  <1> QED BY <1>1, CalmAgain DEF Perfect

\* 0x074 after an inviter elsewhere, or here under another targid.
LEMMA AnswerStep ==
  ASSUME PartyInv, Perfect, NEW c \in Char, zone[c] \in Server, AcceptElsewhere(c)
  PROVE  Answering' /\ Housed(parties', rows')
  <1>1. PICK i \in Char : i = pending[c] /\ i # c
    BY DEF AcceptElsewhere, PartyInv, Places
  <1>2. PICK m : m = Answer(i, c)
    OBVIOUS
  <1>3. Send(zone[c], <<m>>) /\ UNCHANGED <<rows, where, parties, reload, inbox>>
    BY <1>1, <1>2 DEF AcceptElsewhere, Answer
  <1>4. Sent(m)'
    BY <1>3, SentAlone
  <1>5. Still(NoChar)' /\ AllFresh(parties, rows)'
    <2>1. moving' = {}
      BY <1>3 DEF Perfect, where
    <2> QED BY <1>3, <2>1, StillAgain DEF Perfect
  <1>6. \A t \in Server : inbox'[t] = <<>>
    BY <1>3 DEF Perfect
  <1>7. Alone(Answer(i, c))' /\ i # c /\ c \notin moving' /\ zone'[c] # NoServer
    <2>1. Alone(m)'
      BY <1>4 DEF Alone
    <2>2. i # c
      BY <1>1
    <2>3. c \notin moving' /\ zone'[c] # NoServer
      BY <1>3, PartyAssumption DEF Perfect, where
    <2> QED BY <1>2, <2>1, <2>2, <2>3 DEF Alone, Sent, Passed
  <1> QED BY <1>5, <1>6, <1>7 DEF Answering, Still

LEMMA WhereSettled ==
  ASSUME PartyInv', Housed(parties', rows'), moving' = {}, reload' = {},
         \A c \in Char : zone'[c] = server_addr'[c]
  PROVE  Whereabouts'
  <1>1. Sound(parties', zone')
    BY DEF PartyInv
  <1>2. ASSUME NEW c \in Char, rows'[c] # NoRow  PROVE  server_addr'[c] # NoServer
    <2>1. PICK p \in parties' : c \in p.members
      BY <1>2 DEF Housed
    <2>2. p.on \in Server /\ zone'[c] = p.on
      BY <1>1, <2>1, PartyFields DEF Sound
    <2> QED BY <2>2, PartyAssumption
  <1> QED BY <1>2 DEF Whereabouts

LEMMA PlayerLeader ==
  ASSUME PartyInv, LeaderInv, Trouble = {}, NEW c \in Char, Player(c)
  PROVE  LeaderInv'
  <1>1. PartyInv'
    BY PlayerInv
  <1>2. Perfect /\ zone[c] \in Server /\ InParty(c) \in BOOLEAN
    <2>1. MayAct(c)
      BY DEF Player, Invite, KickHere, KickElsewhere, GiveLead, AcceptHere, AcceptElsewhere, Decline,
             Leave, Breakup
    <2> QED BY <2>1, MayActPerfect DEF InParty
  <1>3. UNCHANGED <<where, reload, inbox>>
    BY DEF Player, Invite, KickHere, KickElsewhere, GiveLead, AcceptHere, AcceptElsewhere, Decline,
           Leave, Breakup
  <1>4. /\ reload' = {} /\ moving' = {} /\ inbox' = inbox /\ \A d \in Char : zone'[d] = server_addr'[d]
    BY <1>2, <1>3, PerfectMember DEF Perfect, where
  <1>5. ASSUME Phase', Housed(parties', rows')  PROVE  LeaderInv'
    BY <1>1, <1>4, <1>5, WhereSettled DEF LeaderInv
  <1>6. ASSUME NEW d \in Char, Invite(c, d)  PROVE  LeaderInv'
    <2>1. /\ UNCHANGED <<rows, where, parties, reload, inbox>>
          /\ UNCHANGED outbox \/ Send(zone[c], <<[type |-> "invite", party |-> c, char |-> d]>>)
      BY <1>6 DEF Invite
    <2>2. Calm' /\ Housed(parties', rows')
      BY <1>2, <2>1, InviteStep
    <2> QED BY <1>5, <2>2 DEF Phase
  <1>7. CASE AcceptHere(c)
    <2>1. PICK i \in Char : i = pending[c] /\ zone[c] = zone[i]
      BY <1>7 DEF AcceptHere, IsHere, PartyInv, Places
    <2>2. \/ ~ InParty(c) /\ (InParty(i) => PParty(i).leader = i) /\ AddMember(i, c)
          \/ UNCHANGED <<rows, parties, outbox>>
      BY <1>7, <2>1 DEF AcceptHere
    <2>3. CASE ~ InParty(c) /\ (InParty(i) => PParty(i).leader = i) /\ AddMember(i, c)
      BY <1>2, <1>4, <1>5, <2>1, <2>3, AddMemberStep DEF Phase
    <2>4. CASE UNCHANGED <<rows, parties, outbox>>
      BY <1>2, <1>3, <1>5, <2>4, InviteStep DEF Phase
    <2> QED BY <2>2, <2>3, <2>4
  <1>8. CASE AcceptElsewhere(c)
    BY <1>2, <1>5, <1>8, AnswerStep DEF Phase
  <1>9. CASE Decline(c)
    <2>1. UNCHANGED <<rows, where, parties, reload, outbox, inbox>>
      BY <1>9 DEF Decline
    <2> QED BY <1>2, <1>5, <2>1, InviteStep DEF Phase
  <1>10. CASE Leave(c)
    <2>1. InParty(c) /\ RemoveMember(c)
      BY <1>10 DEF Leave
    <2> QED BY <1>2, <1>4, <1>5, <2>1, RemoveStep
  <1>11. CASE Breakup(c)
    <2>1. Leads(c) /\ InParty(c) /\ DisbandParty(PParty(c), PParty(c).id, rows, TRUE)
      BY <1>11 DEF Breakup, Leads
    <2>2. PParty(c).id = c
      BY <1>2, <2>1, PerfectLeads DEF Leads
    <2>3. Disbandment(c)' /\ Housed(parties', rows')
      BY <1>2, <1>4, <2>1, <2>2, DissolveStep
    <2> QED BY <1>5, <2>3 DEF Phase
  <1>12. ASSUME NEW d \in Char, KickHere(c, d)  PROVE  LeaderInv'
    <2>1. RemoveMember(d) /\ InParty(c) /\ d \in PParty(c).members
      BY <1>12 DEF KickHere, Leads
    <2>2. InParty(d)
      BY <2>1, Member, InPartyIs
    <2> QED BY <1>2, <1>4, <1>5, <2>1, <2>2, RemoveStep
  <1>13. ASSUME NEW d \in Char, KickElsewhere(c, d)  PROVE  LeaderInv'
    BY <1>2, <1>5, <1>13, KickStep DEF Phase
  <1>14. ASSUME NEW n \in Char, GiveLead(c, n)  PROVE  LeaderInv'
    BY <1>2, <1>5, <1>14, GiveLeadStep DEF Phase
  <1> QED BY <1>6, <1>7, <1>8, <1>9, <1>10, <1>11, <1>12, <1>13, <1>14 DEF Player

LEMMA LogoutLeader ==
  ASSUME PartyInv, LeaderInv, Trouble = {}, NEW c \in Char, Logout(c)
  PROVE  LeaderInv'
  <1>1. PartyInv'
    BY TravelInv DEF Travel
  <1>2. Perfect /\ zone[c] \in Server
    BY MayActPerfect DEF Logout
  <1>3. /\ zone' = [zone EXCEPT ![c] = NoServer] /\ server_addr' = [server_addr EXCEPT ![c] = NoServer]
        /\ reload' = reload \ {c} /\ UNCHANGED <<moving, inbox>>
    BY DEF Logout
  <1>4. reload' = {} /\ moving' = {} /\ inbox' = inbox /\ \A d \in Char : zone'[d] = server_addr'[d]
    BY <1>2, <1>3, PerfectMember DEF Perfect, PartyInv, Places
  <1>5. Phase' /\ Housed(parties', rows')
    <2>1. CASE InParty(c)
      <3>1. RemoveMember(c)
        BY <2>1 DEF Logout
      <3> QED BY <1>2, <1>4, <2>1, <3>1, RemoveStep
    <2>2. CASE ~InParty(c)
      <3>1. rows' = Without(rows, c) /\ UNCHANGED <<parties, outbox>>
        BY <2>2 DEF Logout
      <3>2. rows[c] = NoRow
        BY <1>2, <2>2, PerfectMember
      <3>3. rows' = rows
        BY <3>1, <3>2 DEF Without, PartyInv, Rows
      <3>4. Harmless'
        BY <1>2, <1>3, <3>1 DEF Perfect, Harmless
      <3> QED BY <1>2, <3>1, <3>3, <3>4, CalmAgain DEF Perfect, Phase
    <2> QED BY <2>1, <2>2
  <1> QED BY <1>1, <1>4, <1>5, WhereSettled DEF LeaderInv

LEMMA SameQueues ==
  ASSUME UNCHANGED <<outbox, inbox>>
  PROVE  /\ \A m : Alone(m) => Alone(m)'
         /\ \A s : Untold(s)' <=> Untold(s)
         /\ Harmless => Harmless'
  <1>1. \A m : Alone(m) => Alone(m)'
    BY DEF Alone, Sent, Passed
  <1>2. \A s : Untold(s)' <=> Untold(s)
    BY DEF Untold
  <1>3. Harmless => Harmless'
    BY DEF Harmless
  <1> QED BY <1>1, <1>2, <1>3

\* Who is in an object is on a server, and not between zones.
LEMMA HousedThere ==
  ASSUME PartyInv, NEW c \in Char, \E p \in parties : c \in p.members
  PROVE  zone[c] \in Server /\ zone[c] # NoServer
  <1>1. PICK p \in parties : c \in p.members
    OBVIOUS
  <1>2. p \in PartyType /\ zone[c] = p.on
    BY <1>1 DEF PartyInv, Sound
  <1> QED BY <1>2, PartyFields, PartyAssumption

\* A character comes, or is expected.
LEMMA ComingStep ==
  ASSUME PartyInv, Phase, UNCHANGED <<rows, parties, outbox, inbox>>, NEW c \in Char, zone[c] = NoServer,
         \A d \in Char : d # c => zone'[d] = zone[d] /\ (d \in moving' => d \in moving),
         moving' \subseteq Char, reload \subseteq reload', reload' \subseteq reload \cup {c},
         c \in moving' => zone'[c] = NoServer /\ rows[c] = NoRow,
         zone'[c] # NoServer => c \in reload'
  PROVE  Phase'
  <1>1. /\ \A m : Alone(m) => Alone(m)'
        /\ \A s : Untold(s)' <=> Untold(s)
        /\ Harmless => Harmless'
    BY SameQueues
  <1>2. \A p \in parties : c \notin p.members /\ p.members \subseteq Char
    <2>1. \A p \in parties : c \notin p.members
      BY HousedThere
    <2> QED BY <2>1, PartyFields DEF PartyInv, Sound
  <1>3. ASSUME NEW x, Still(x)
        PROVE  Still(x)' /\ rows[c] = NoRow /\ \A d \in Char : rows[d] # NoRow => zone'[d] = zone[d] /\ d # c
    <2>1. rows[c] = NoRow
      BY <1>2, <1>3 DEF Still, Housed
    <2>2. Resting(moving', zone', rows')
      BY <1>3 DEF Still, Resting
    <2> QED BY <1>3, <2>1, <2>2 DEF Still
  <1>4. ASSUME NEW x \in Char, Told(x), NEW y, Still(y)  PROVE  Told(x)'
    <2>1. ASSUME NEW t \in Server, inbox[t] # <<>>
          PROVE  LET f == Head(inbox[t]).first IN rows[f].party = x /\ zone'[f] = t
      <3>1. PICK f \in Char : f = Head(inbox[t]).first
        <4>1. inbox[t] \in Seq(InMessage)
          BY DEF PartyInv, In
        <4>2. Head(inbox[t]) \in InMessage
          BY <2>1, <4>1
        <4> QED BY <4>2 DEF InMessage
      <3>2. rows[f].party = x /\ zone[f] = t
        BY <1>4, <2>1, <3>1 DEF Told
      <3>3. rows[f] # NoRow
        BY <3>2, PartyAssumption DEF NoRow
      <3> QED BY <1>3, <1>4, <3>1, <3>2, <3>3
    <2> QED BY <2>1 DEF Told
  <1>5. CASE Calm
    <2>1. Covered'
      <3>1. ASSUME NEW d \in Char, rows'[d] # NoRow, zone'[d] # NoServer, ~InParty(d)'
            PROVE  d \in reload' \/ (d \notin moving' /\ Joining(d)')
        <4>1. CASE d = c
          BY <3>1, <4>1
        <4>2. CASE d # c
          <5>1. d \in reload \/ (d \notin moving /\ Joining(d))
            BY <1>5, <3>1, <4>2 DEF Calm, Covered, InParty
          <5>2. Joining(d) => Joining(d)'
            BY <4>2 DEF Joining
          <5> QED BY <4>2, <5>1, <5>2
        <4> QED BY <4>1, <4>2
      <3> QED BY <3>1 DEF Covered
    <2> QED BY <1>1, <1>5, <2>1 DEF Calm, Phase
  <1>6. CASE Answering
    <2>1. PICK i \in Char, d \in Char : Alone(Answer(i, d)) /\ i # d /\ d \notin moving /\ zone[d] # NoServer
      BY <1>6 DEF Answering
    <2>2. Alone(Answer(i, d))' /\ d \notin moving' /\ zone'[d] # NoServer
      <3>1. PICK m : m = Answer(i, d)
        OBVIOUS
      <3>2. Alone(m)'
        BY <1>1, <2>1, <3>1
      <3>3. Alone(Answer(i, d))'
        BY <3>1, <3>2 DEF Alone, Sent, Passed
      <3> QED BY <2>1, <3>3
    <2> QED BY <1>3, <1>6, <2>1, <2>2 DEF Answering, Phase
  <1>7. ASSUME NEW n \in Char, Renaming(n)  PROVE  Phase'
    <2>1. \A p \in parties : Stale(p, n) => Stale(p, n)'
      BY <1>1 DEF Stale
    <2>2. Alone(Reload(n))'
      BY <1>1, <1>7 DEF Renaming, Reload
    <2> QED BY <1>3, <1>4, <1>7, <2>1, <2>2 DEF Renaming, Phase
  <1>8. ASSUME NEW n \in Char, Disbandment(n)  PROVE  Phase'
    <2>1. Alone(Disband(n))'
      BY <1>1, <1>8 DEF Disbandment, Disband
    <2>2. ASSUME NEW d \in Char, rows'[d].party = n  PROVE  ~ rows'[d].leader /\ Untold(zone[d])'
      <3>1. rows[d] # NoRow
        BY <2>2, PartyAssumption DEF NoRow
      <3>2. ~ rows[d].leader /\ Untold(zone[d]) /\ zone'[d] = zone[d]
        BY <1>3, <1>8, <2>2, <3>1 DEF Disbandment
      <3> QED BY <1>1, <3>2 DEF Untold
    <2> QED BY <1>3, <1>4, <1>8, <2>1, <2>2 DEF Disbandment, Phase
  <1>9. ASSUME NEW n \in Char, NEW d \in Char, Kicking(n, d)  PROVE  Phase'
    <2>1. \A p \in parties : Outdated(p, n, d) => Outdated(p, n, d)'
      BY <1>1, <1>2 DEF Outdated
    <2>2. Alone(ReloadOf(n, d))'
      BY <1>1, <1>9 DEF Kicking, ReloadOf
    <2>3. \A p \in parties : Fresh(p, rows') \/ Outdated(p, n, d)'
      BY <1>9, <2>1 DEF Kicking
    <2>4. Still(NoChar)' /\ n # d
      BY <1>3, <1>9 DEF Kicking
    <2>5. Kicking(n, d)'
      BY <2>2, <2>3, <2>4 DEF Kicking
    <2> QED BY <2>5 DEF Phase
  <1> QED BY <1>5, <1>6, <1>7, <1>8, <1>9 DEF Phase

LEMMA LoginLeader ==
  ASSUME PartyInv, LeaderInv, NEW c \in Char, NEW s \in Server, Login(c, s)
  PROVE  LeaderInv'
  <1>1. /\ server_addr[c] = NoServer /\ server_addr' = [server_addr EXCEPT ![c] = s]
        /\ moving' = moving \cup {c}
        /\ UNCHANGED <<rows, zone, parties, reload, pending, outbox, inbox>>
        /\ server_addr \in [Char -> Server \cup {NoServer}] /\ moving \subseteq Char
    BY DEF Login, PartyInv, Places
  <1>2. zone[c] = NoServer /\ rows[c] = NoRow
    BY <1>1 DEF LeaderInv, Whereabouts
  <1>3. Whereabouts'
    BY <1>1, <1>2, PartyAssumption DEF LeaderInv, Whereabouts
  <1>4. Phase'
    <2>1. /\ \A d \in Char : d # c => zone'[d] = zone[d] /\ (d \in moving' => d \in moving)
          /\ moving' \subseteq Char /\ reload \subseteq reload' /\ reload' \subseteq reload \cup {c}
          /\ (c \in moving' => zone'[c] = NoServer /\ rows[c] = NoRow)
          /\ (zone'[c] # NoServer => c \in reload')
          /\ UNCHANGED <<rows, parties, outbox, inbox>>
      BY <1>1, <1>2
    <2> QED BY <1>2, <2>1, ComingStep DEF LeaderInv
  <1> QED BY <1>3, <1>4 DEF LeaderInv

LEMMA ZoneInLeader ==
  ASSUME PartyInv, LeaderInv, NEW c \in Char, ZoneIn(c)
  PROVE  LeaderInv'
  <1>1. /\ c \in moving /\ zone[c] = NoServer /\ zone' = [zone EXCEPT ![c] = server_addr[c]]
        /\ moving' = moving \ {c} /\ reload' = reload \cup {c}
        /\ UNCHANGED <<rows, server_addr, parties, pending, outbox, inbox>>
        /\ zone \in [Char -> Server \cup {NoServer}] /\ moving \subseteq Char
    BY DEF ZoneIn, PartyInv, Places
  <1>2. Whereabouts'
    BY <1>1 DEF LeaderInv, Whereabouts
  <1>3. Phase'
    <2>1. /\ \A d \in Char : d # c => zone'[d] = zone[d] /\ (d \in moving' => d \in moving)
          /\ moving' \subseteq Char /\ reload \subseteq reload' /\ reload' \subseteq reload \cup {c}
          /\ (c \in moving' => zone'[c] = NoServer /\ rows[c] = NoRow)
          /\ (zone'[c] # NoServer => c \in reload')
          /\ UNCHANGED <<rows, parties, outbox, inbox>>
      BY <1>1
    <2> QED BY <1>1, <2>1, ComingStep DEF LeaderInv
  <1> QED BY <1>2, <1>3 DEF LeaderInv

LEMMA RequestZoneLeader ==
  ASSUME PartyInv, LeaderInv, Trouble = {}, NEW c \in Char, NEW s \in Server, RequestZone(c, s)
  PROVE  LeaderInv'
  <1>1. /\ Quiet /\ zone[c] # NoServer /\ moving' = moving \cup {c}
        /\ server_addr' = [server_addr EXCEPT ![c] = s]
        /\ UNCHANGED <<rows, zone, parties, reload, pending, outbox, inbox>>
        /\ server_addr \in [Char -> Server \cup {NoServer}]
    BY DEF RequestZone, PartyInv, Places
  <1>2. Calm /\ Whereabouts
    BY <1>1, PhaseOver DEF LeaderInv
  <1>3. Whereabouts'
    BY <1>1, <1>2, PartyAssumption DEF Whereabouts
  <1>4. Covered'
    <2>1. ASSUME NEW d \in Char, rows'[d] # NoRow, zone'[d] # NoServer  PROVE  InParty(d)'
      <3>1. zone[d] \in Server /\ rows[d] # NoRow
        BY <1>1, <2>1 DEF PartyInv, Places
      <3>2. ~Joining(d) /\ d \notin reload
        BY <1>1, <3>1 DEF Joining, Quiet
      <3> QED BY <1>1, <1>2, <2>1, <3>1, <3>2 DEF Calm, Covered, InParty
    <2> QED BY <2>1 DEF Covered
  <1>5. Calm'
    BY <1>1, <1>2, <1>4, SameQueues DEF Calm
  <1> QED BY <1>3, <1>5 DEF LeaderInv, Phase

LEMMA LoseSessionLeader ==
  ASSUME PartyInv, LeaderInv, Trouble = {}, NEW c \in Char, LoseSession(c)
  PROVE  LeaderInv'
  <1>1. /\ ~ rows[c].leader /\ c \in moving /\ zone[c] = NoServer /\ moving' = moving \ {c}
        /\ server_addr' = [server_addr EXCEPT ![c] = NoServer] /\ rows' = Without(rows, c)
        /\ UNCHANGED <<zone, parties, reload, pending, outbox, inbox>>
        /\ server_addr \in [Char -> Server \cup {NoServer}] /\ rows \in [Char -> RowType]
    BY DEF LoseSession, PartyInv, Places, Rows
  <1>2. rows'[c] = NoRow /\ \A d \in Char : d # c => rows'[d] = rows[d]
    BY <1>1 DEF Without
  <1>3. Whereabouts'
    BY <1>1, <1>2 DEF LeaderInv, Whereabouts
  <1>4. \A p \in parties : c \notin p.members /\ p.members \subseteq Char
    <2>1. \A p \in parties : c \notin p.members
      BY <1>1, HousedThere
    <2> QED BY <2>1, PartyFields DEF PartyInv, Sound
  <1>5. CASE Calm
    <2>1. Flagged(rows', NoChar)
      BY <1>1, <1>5, RowGone DEF Calm, Ordered
    <2>2. Unique(parties, rows') /\ AllFresh(parties, rows')
      <3>1. \A p \in parties : \A d \in p.members : rows'[d] = rows[d]
        BY <1>2, <1>4
      <3> QED BY <1>5, <3>1, OthersRows DEF Calm, Ordered
    <2>3. Covered'
      <3>1. ASSUME NEW d \in Char, rows'[d] # NoRow, zone'[d] # NoServer, ~InParty(d)'
            PROVE  d \in reload' \/ (d \notin moving' /\ Joining(d)')
        <4>1. d # c /\ rows'[d] = rows[d]
          BY <1>2, <3>1
        <4>2. d \in reload \/ (d \notin moving /\ Joining(d))
          BY <1>1, <1>5, <3>1, <4>1 DEF Calm, Covered, InParty
        <4>3. Joining(d) => Joining(d)'
          BY <1>1, <4>1 DEF Joining
        <4> QED BY <1>1, <4>1, <4>2, <4>3
      <3> QED BY <3>1 DEF Covered
    <2>4. Calm'
      BY <1>1, <1>5, <2>1, <2>2, <2>3, SameQueues DEF Calm, Ordered
    <2> QED BY <1>3, <2>4 DEF LeaderInv, Phase
  <1>6. CASE ~Calm
    <2>1. \E x : Still(x)
      BY <1>6 DEF LeaderInv, Phase, Answering, Renaming, Kicking, Disbandment
    <2>2. rows[c] = NoRow
      BY <1>1, <2>1 DEF Still, Resting
    <2>3. rows' = rows
      BY <1>1, <2>2 DEF Without
    <2>4. moving' \subseteq Char
      BY <1>1 DEF PartyInv, Places
    <2>5. Phase'
      BY <1>1, <2>2, <2>3, <2>4, ComingStep DEF LeaderInv
    <2> QED BY <1>3, <2>5 DEF LeaderInv
  <1> QED BY <1>5, <1>6

LEMMA ZoneOutLeader ==
  ASSUME PartyInv, LeaderInv, NEW c \in Char, NEW told \in BOOLEAN, ZoneOut(c, told)
  PROVE  LeaderInv'
  <1>1. /\ c \in moving /\ zone[c] # NoServer /\ zone' = [zone EXCEPT ![c] = NoServer]
        /\ reload' = reload \ {c} /\ UNCHANGED <<rows, server_addr, moving, inbox>>
        /\ zone \in [Char -> Server \cup {NoServer}] /\ rows \in [Char -> RowType]
    BY DEF ZoneOut, PartyInv, Places, Rows
  <1>2. Calm
    BY <1>1 DEF LeaderInv, Phase, Answering, Renaming, Kicking, Disbandment, Still, Resting
  <1>3. Whereabouts'
    BY <1>1 DEF LeaderInv, Whereabouts
  <1>4. Sound(parties, zone) /\ Flagged(rows, NoChar) /\ Unique(parties, rows) /\ AllFresh(parties, rows)
    BY <1>2 DEF PartyInv, Calm, Ordered
  <1>5. /\ Unique(parties', rows) /\ AllFresh(parties', rows)
        /\ \A d \in Char : d # c => (InParty(d) => InParty(d)')
    <2>1. CASE ~InParty(c)
      <3>1. parties' = parties
        BY <2>1 DEF ZoneOut
      <3> QED BY <1>4, <3>1 DEF InParty
    <2>2. CASE InParty(c)
      <3>1. PICK p \in PartyType : p = PParty(c) /\ p \in parties /\ c \in p.members
        BY <2>2, Member
      <3>2. Fresh(p, rows) /\ p.members \subseteq Char
        BY <1>4, <3>1, PartyFields DEF AllFresh
      <3>3. PICK ms \in SUBSET Char : ms = p.members \ {c}
        BY <3>2
      <3>4. PICK l \in Char \cup {NoChar, Gone} : l = IF p.leader = c THEN Gone ELSE p.leader
        BY PartyFields
      <3>5. PICK q : q = [p EXCEPT !.members = ms, !.leader = l]
        OBVIOUS
      <3>6. q \in PartyType /\ q.on = p.on /\ q.id = p.id /\ q.members = ms /\ q.leader = l
        BY <3>5 DEF PartyType
      <3>7. parties' = Swapped(parties, p, q)
        BY <2>2, <3>1, <3>3, <3>4, <3>5 DEF ZoneOut, Replaced, Swapped
      <3>8. Fresh(q, rows)
        <4>1. Pointed(q)
          BY <3>1, <3>2, <3>3, <3>4, <3>6, PartyAssumption DEF Fresh, Pointed
        <4> QED BY <3>2, <3>3, <3>6, <4>1 DEF Fresh
      <3>9. Unique(parties', rows) /\ AllFresh(parties', rows)
        BY <1>4, <3>1, <3>3, <3>6, <3>7, <3>8, SameMembersUnique, SwappedFresh
      <3>10. ASSUME NEW d \in Char, d # c, InParty(d)  PROVE  InParty(d)'
        <4>1. PICK r \in parties : d \in r.members
          BY <3>10 DEF InParty
        <4>2. CASE r = p
          <5>1. d \in q.members
            BY <3>3, <3>6, <3>10, <4>1, <4>2
          <5> QED BY <3>7, <5>1 DEF Swapped, InParty
        <4>3. CASE r # p
          BY <3>7, <4>1, <4>3 DEF Swapped, InParty
        <4> QED BY <4>2, <4>3
      <3> QED BY <3>9, <3>10
    <2> QED BY <2>1, <2>2
  <1>6. PICK s \in Server : s = zone[c]
    BY <1>1
  <1>7. UNCHANGED outbox \/ \E n \in Char : outbox' = [outbox EXCEPT ![s] = @ \o <<Reload(n)>>]
    <2>1. CASE InParty(c) /\ told
      <3>1. PParty(c).id \in Char /\ PParty(c).on = s
        BY <1>6, <2>1, Member, PartyFields
      <3> QED BY <2>1, <3>1 DEF ZoneOut, Send
    <2>2. CASE ~(InParty(c) /\ told)
      BY <2>2 DEF ZoneOut
    <2> QED BY <2>1, <2>2
  <1>8. Harmless' /\ \A d \in Char : zone'[d] = zone[d] /\ rows'[d] = rows[d] /\ Joining(d) => Joining(d)'
    <2>1. CASE UNCHANGED outbox
      <3>1. Harmless'
        BY <1>1, <1>2, <2>1, SameQueues DEF Calm
      <3>2. \A d \in Char : zone'[d] = zone[d] /\ rows'[d] = rows[d] /\ Joining(d) => Joining(d)'
        BY <1>1, <2>1 DEF Joining
      <3> QED BY <3>1, <3>2
    <2>2. ASSUME NEW n \in Char, outbox' = [outbox EXCEPT ![s] = @ \o <<Reload(n)>>]
          PROVE  /\ Harmless'
                 /\ \A d \in Char : zone'[d] = zone[d] /\ rows'[d] = rows[d] /\ Joining(d) => Joining(d)'
      <3>1. PICK m \in OutMessage : m = Reload(n) /\ m.type \notin {"answer", "disband"}
        BY SentTyped DEF Reload
      <3>2. PICK o \in Seq(OutMessage) : o = outbox[s] /\ outbox \in [Server -> Seq(OutMessage)]
        BY DEF PartyInv, Out
      <3>3. PICK u \in Seq(OutMessage) :
              /\ u = o \o <<m>> /\ outbox'[s] = u
              /\ \A t \in Server : t # s => outbox'[t] = outbox[t]
        <4>1. <<m>> \in Seq(OutMessage)
          BY <3>1
        <4>2. PICK u \in Seq(OutMessage) : u = o \o <<m>>
          <5>1. PICK v \in Seq(OutMessage) : v = <<m>>
            BY <4>1
          <5>2. o \o v \in Seq(OutMessage)
            OBVIOUS
          <5> QED BY <5>1, <5>2
        <4>3. outbox' = [outbox EXCEPT ![s] = u]
          BY <2>2, <3>1, <3>2, <4>2
        <4>4. outbox'[s] = u /\ \A t \in Server : t # s => outbox'[t] = outbox[t]
          BY <3>2, <4>3
        <4> QED BY <4>2, <4>4
      <3>4. /\ \A k \in DOMAIN o : k \in DOMAIN u /\ u[k] = o[k]
            /\ \A k \in DOMAIN u : k \in DOMAIN o \/ u[k] = m
        BY <3>3
      <3>5. Harmless'
        <4>1. ASSUME NEW t \in Server, NEW k \in DOMAIN outbox'[t]
              PROVE  outbox'[t][k].type \notin {"answer", "disband"}
          <5>1. CASE t = s
            BY <1>2, <3>1, <3>2, <3>3, <3>4, <4>1, <5>1 DEF Calm, Harmless
          <5>2. CASE t # s
            BY <1>2, <3>3, <4>1, <5>2 DEF Calm, Harmless
          <5> QED BY <5>1, <5>2
        <4> QED BY <1>1, <1>2, <4>1 DEF Calm, Harmless
      <3>6. ASSUME NEW d \in Char, zone'[d] = zone[d], rows'[d] = rows[d], Joining(d)
            PROVE  Joining(d)'
        <4>1. CASE \E k \in DOMAIN inbox[zone[d]] :
                      inbox[zone[d]][k].type = "reload_of" /\ inbox[zone[d]][k].char = d
          BY <1>1, <3>6, <4>1 DEF Joining
        <4>2. ASSUME NEW t \in Server, NEW k \in DOMAIN outbox[t], outbox[t][k] = ReloadOf(rows[d].party, d)
              PROVE  Joining(d)'
          <5>1. k \in DOMAIN outbox'[t] /\ outbox'[t][k] = outbox[t][k]
            BY <3>2, <3>3, <3>4, <4>2
          <5> QED BY <3>6, <4>2, <5>1 DEF Joining, ReloadOf
        <4> QED BY <3>6, <4>1, <4>2 DEF Joining
      <3> QED BY <3>5, <3>6
    <2> QED BY <1>7, <2>1, <2>2
  <1>9. Covered'
    <2>1. ASSUME NEW d \in Char, rows'[d] # NoRow, zone'[d] # NoServer, ~InParty(d)'
          PROVE  d \in reload' \/ (d \notin moving' /\ Joining(d)')
      <3>1. d # c /\ zone'[d] = zone[d] /\ rows'[d] = rows[d] /\ ~InParty(d)
        BY <1>1, <1>5, <2>1
      <3>2. d \in reload \/ (d \notin moving /\ Joining(d))
        BY <1>2, <2>1, <3>1 DEF Calm, Covered
      <3> QED BY <1>1, <1>8, <3>1, <3>2
    <2> QED BY <2>1 DEF Covered
  <1>10. Calm'
    BY <1>1, <1>4, <1>5, <1>8, <1>9 DEF Calm, Ordered
  <1> QED BY <1>3, <1>10 DEF LeaderInv, Phase

LEMMA TravelLeader ==
  ASSUME PartyInv, LeaderInv, Trouble = {}, NEW c \in Char, Travel(c)
  PROVE  LeaderInv'
  BY RequestZoneLeader, LoginLeader, ZoneOutLeader, ZoneInLeader, LogoutLeader, LoseSessionLeader DEF Travel

\* Who the relay picks on server t is one of those whom the message is for.
LEMMA AddresseeIs ==
  ASSUME NEW m, NEW t, m.type \notin {"invite", "answer"}
  PROVE  /\ Addressee(m, t) # NoChar =>
               /\ Addressee(m, t) \in Char /\ server_addr[Addressee(m, t)] = t
               /\ rows[Addressee(m, t)].party = m.party
         /\ \A c \in Char : server_addr[c] = t /\ rows[c].party = m.party => Addressee(m, t) # NoChar
  <1> DEFINE cs == {c \in Char :
                       /\ server_addr[c] = t
                       /\ IF m.type = "invite" THEN c = m.char
                          ELSE IF m.type = "answer" THEN c = m.party
                          ELSE rows[c].party = m.party}
  <1>1. Addressee(m, t) = IF cs = {} THEN NoChar ELSE CHOOSE c \in cs : \A d \in cs : c <= d
    BY DEF Addressee
  <1>2. cs \in SUBSET Nat /\ NoChar \notin cs
    BY PartyAssumption
  <1>3. ASSUME cs # {}  PROVE  Addressee(m, t) \in cs
    <2> HIDE DEF cs
    <2>1. \E c \in cs : \A d \in cs : c <= d
      BY <1>2, <1>3, LeastNumber
    <2> QED BY <1>1, <1>3, <2>1
  <1>4. Addressee(m, t) # NoChar => cs # {}
    BY <1>1
  <1>5. \A c \in Char : server_addr[c] = t /\ rows[c].party = m.party => cs # {}
    OBVIOUS
  <1>6. \A c \in cs : c \in Char /\ server_addr[c] = t /\ rows[c].party = m.party
    OBVIOUS
  <1> HIDE DEF cs
  <1> QED BY <1>2, <1>3, <1>4, <1>5, <1>6

LEMMA AnswerAddressee ==
  ASSUME NEW i, NEW c, NEW m, m = Answer(i, c), NEW t, Addressee(m, t) # NoChar
  PROVE  server_addr[i] = t
  BY DEF Addressee, Answer

\* In a phase with somebody to be told, whoever has a row is not travelling.
LEMMA StillThere ==
  ASSUME PartyInv, Whereabouts, NEW x, Still(x), NEW c \in Char, rows[c] # NoRow
  PROVE  c \notin moving /\ server_addr[c] = zone[c] /\ zone[c] \in Server
         /\ \E p \in parties : c \in p.members
  <1>1. \E p \in parties : c \in p.members
    BY DEF Still, Housed
  <1>2. c \notin moving
    BY DEF Still, Resting
  <1> QED BY <1>1, <1>2, HousedThere DEF Whereabouts

LEMMA PartyRow ==
  ASSUME NEW c, NEW x \in Char, rows[c].party = x
  PROVE  rows[c] # NoRow
  BY PartyAssumption DEF NoRow

\* The one message goes out to the servers that have a session of the kind.
LEMMA RelayAlone ==
  ASSUME PartyInv, NEW m, Alone(m), NEW s \in Server, Relay(s)
  PROVE  /\ Passed(m)' /\ Alone(m)' /\ UNCHANGED <<rows, where, parties, reload, pending>>
         /\ \A t \in Server : inbox'[t] = IF Addressee(m, t) = NoChar THEN <<>>
                                          ELSE <<Wrap(m, Addressee(m, t))>>
         /\ \A t \in Server : Addressee(m, t) # NoChar => Addressee(m, t) \in Char /\ Untold(t)'
  <1>1. /\ outbox[s] # <<>> /\ outbox' = [outbox EXCEPT ![s] = Tail(@)]
        /\ UNCHANGED <<rows, where, parties, reload, pending>>
        /\ outbox \in [Server -> Seq(OutMessage)]
    BY DEF Relay, PartyInv, Out
  <1>2. Sent(m) /\ outbox[s] = <<m>> /\ \A t \in Server : t # s => outbox[t] = <<>>
    BY <1>1 DEF Alone, Sent, Passed
  <1>3. Head(outbox[s]) = m /\ Tail(outbox[s]) = <<>>
    BY <1>2
  <1>4. \A t \in Server : outbox'[t] = <<>>
    BY <1>1, <1>2, <1>3
  <1>5. ASSUME NEW t \in Server
        PROVE  inbox'[t] = IF Addressee(m, t) = NoChar THEN <<>> ELSE <<Wrap(m, Addressee(m, t))>>
    <2>1. inbox[t] = <<>>
      BY <1>2 DEF Sent
    <2>2. inbox'[t] = IF Addressee(m, t) = NoChar THEN inbox[t]
                      ELSE Append(inbox[t], Wrap(m, Addressee(m, t)))
      BY <1>3 DEF Relay, Wrap
    <2> QED BY <2>1, <2>2
  <1>6. \A t \in Server : Addressee(m, t) # NoChar => Addressee(m, t) \in Char
    BY AddresseeTyped
  <1>7. Passed(m)'
    BY <1>4, <1>5, <1>6 DEF Passed, Wrap
  <1>8. Alone(m)'
    BY <1>7 DEF Alone
  <1>9. ASSUME NEW t \in Server, Addressee(m, t) # NoChar  PROVE  Untold(t)'
    <2>1. PICK w : w = Wrap(m, Addressee(m, t))
      OBVIOUS
    <2>2. inbox'[t] = <<w>> /\ <<w>> # <<>>
      BY <1>5, <1>9, <2>1
    <2> QED BY <2>2 DEF Untold
  <1> QED BY <1>1, <1>5, <1>6, <1>7, <1>8, <1>9

\* Everybody whom it concerns is told.
LEMMA RelayTells ==
  ASSUME PartyInv, Whereabouts, NEW x, Still(x), NEW m, NEW n \in Char, m.party = n,
         m.type \notin {"invite", "answer"}, Alone(m), NEW s \in Server, Relay(s)
  PROVE  /\ Told(n)' /\ Still(x)'
         /\ \A c \in Char : rows[c].party = n => Untold(zone[c])'
  <1>1. /\ UNCHANGED <<rows, where, parties, reload, pending>>
        /\ \A t \in Server : inbox'[t] = IF Addressee(m, t) = NoChar THEN <<>>
                                          ELSE <<Wrap(m, Addressee(m, t))>>
        /\ \A t \in Server : Addressee(m, t) # NoChar => Addressee(m, t) \in Char /\ Untold(t)'
    BY RelayAlone
  <1>2. Still(x)'
    BY <1>1 DEF Still, where
  <1>3. ASSUME NEW t \in Server, inbox'[t] # <<>>
        PROVE  rows'[Head(inbox'[t]).first].party = n /\ zone'[Head(inbox'[t]).first] = t
    <2>1. PICK a \in Char : a = Addressee(m, t) /\ inbox'[t] = <<Wrap(m, a)>>
      BY <1>1, <1>3
    <2>2. Head(inbox'[t]).first = a
      BY <2>1 DEF Wrap
    <2>3. rows[a].party = n /\ server_addr[a] = t
      BY <1>1, <1>3, <2>1, AddresseeIs
    <2>4. zone[a] = t
      BY <2>3, PartyRow, StillThere
    <2> QED BY <1>1, <2>2, <2>3, <2>4 DEF where
  <1>4. ASSUME NEW c \in Char, rows[c].party = n  PROVE  Untold(zone[c])'
    <2>1. server_addr[c] = zone[c] /\ zone[c] \in Server
      BY <1>4, PartyRow, StillThere
    <2>2. Addressee(m, zone[c]) # NoChar
      BY <1>4, <2>1, AddresseeIs
    <2> QED BY <1>1, <2>1, <2>2 DEF Untold, where
  <1> QED BY <1>2, <1>3, <1>4 DEF Told

LEMMA RelayCalm ==
  ASSUME PartyInv, Whereabouts, Calm, NEW s \in Server, Relay(s)
  PROVE  Calm'
  <1>1. /\ outbox[s] # <<>> /\ outbox' = [outbox EXCEPT ![s] = Tail(@)]
        /\ UNCHANGED <<rows, where, parties, reload, pending>>
        /\ outbox \in [Server -> Seq(OutMessage)]
        /\ inbox \in [Server -> Seq(InMessage)]
    BY DEF Relay, PartyInv, Out, In
  <1>2. PICK o \in Seq(OutMessage) : o = outbox[s] /\ o # <<>>
    BY <1>1
  <1>3. PICK m \in OutMessage : m = o[1] /\ m = Head(outbox[s])
    BY <1>2
  <1>4. /\ outbox'[s] = Tail(o) /\ \A t \in Server : t # s => outbox'[t] = outbox[t]
        /\ \A k \in DOMAIN Tail(o) : k + 1 \in DOMAIN o /\ Tail(o)[k] = o[k + 1]
        /\ \A k \in DOMAIN o : k = 1 \/ (k - 1 \in DOMAIN Tail(o) /\ Tail(o)[k - 1] = o[k])
        /\ 1 \in DOMAIN o
    BY <1>1, <1>2
  <1>5. ASSUME NEW t \in Server
        PROVE  /\ \A k \in DOMAIN inbox[t] : k \in DOMAIN inbox'[t] /\ inbox'[t][k] = inbox[t][k]
               /\ \A k \in DOMAIN inbox'[t] :
                     k \in DOMAIN inbox[t] \/ inbox'[t][k].type = m.type
               /\ Addressee(m, t) # NoChar =>
                     \E k \in DOMAIN inbox'[t] : inbox'[t][k].type = m.type /\ inbox'[t][k].char = m.char
    <2>1. PICK b \in Seq(InMessage) : b = inbox[t]
      BY <1>1
    <2>2. PICK w : w = Wrap(m, Addressee(m, t))
      OBVIOUS
    <2>3. w.type = m.type /\ w.char = m.char
      BY <2>2 DEF Wrap
    <2>4. inbox'[t] = IF Addressee(m, t) = NoChar THEN b ELSE Append(b, w)
      BY <1>3, <2>1, <2>2 DEF Relay, Wrap
    <2>5. /\ \A k \in DOMAIN b : k \in DOMAIN Append(b, w) /\ Append(b, w)[k] = b[k]
          /\ \A k \in DOMAIN Append(b, w) : k \in DOMAIN b \/ Append(b, w)[k] = w
          /\ \E k \in DOMAIN Append(b, w) : Append(b, w)[k] = w
      <3>1. \A k \in DOMAIN b : k \in DOMAIN Append(b, w) /\ Append(b, w)[k] = b[k]
        OBVIOUS
      <3>2. \A k \in DOMAIN Append(b, w) : k \in DOMAIN b \/ Append(b, w)[k] = w
        OBVIOUS
      <3>3. Len(b) + 1 \in DOMAIN Append(b, w) /\ Append(b, w)[Len(b) + 1] = w
        OBVIOUS
      <3> QED BY <3>1, <3>2, <3>3
    <2> QED BY <2>1, <2>3, <2>4, <2>5
  <1>6. m.type \notin {"answer", "disband"} /\ \A k \in DOMAIN o : o[k].type \notin {"answer", "disband"}
    BY <1>2, <1>3, <1>4 DEF Calm, Harmless
  <1>7. Harmless'
    <2>1. ASSUME NEW t \in Server, NEW k \in DOMAIN outbox'[t]
          PROVE  outbox'[t][k].type \notin {"answer", "disband"}
      <3>1. CASE t = s
        BY <1>4, <1>6, <2>1, <3>1
      <3>2. CASE t # s
        BY <1>4, <2>1, <3>2 DEF Calm, Harmless
      <3> QED BY <3>1, <3>2
    <2>2. ASSUME NEW t \in Server, NEW k \in DOMAIN inbox'[t]
          PROVE  inbox'[t][k].type \notin {"answer", "disband"}
      <3>1. CASE k \in DOMAIN inbox[t]
        BY <1>5, <3>1 DEF Calm, Harmless
      <3>2. CASE k \notin DOMAIN inbox[t]
        BY <1>5, <1>6, <2>2, <3>2
      <3> QED BY <3>1, <3>2
    <2> QED BY <2>1, <2>2 DEF Harmless
  <1>8. ASSUME NEW c \in Char, rows[c] # NoRow, zone[c] # NoServer, c \notin moving, Joining(c)
        PROVE  Joining(c)'
    <2>1. zone[c] \in Server /\ server_addr[c] = zone[c]
      BY <1>8 DEF PartyInv, Places, Whereabouts
    <2>2. CASE \E k \in DOMAIN inbox[zone[c]] :
                  inbox[zone[c]][k].type = "reload_of" /\ inbox[zone[c]][k].char = c
      BY <1>1, <1>5, <2>1, <2>2 DEF Joining, where
    <2>3. ASSUME NEW t \in Server, NEW k \in DOMAIN outbox[t], outbox[t][k] = ReloadOf(rows[c].party, c),
                 t # s \/ k # 1
          PROVE  Joining(c)'
      <3>1. \E j \in DOMAIN outbox'[t] : outbox'[t][j] = ReloadOf(rows[c].party, c)
        <4>1. CASE t # s
          BY <1>4, <2>3, <4>1
        <4>2. CASE t = s
          <5>1. k \in DOMAIN o /\ k # 1 /\ o[k] = ReloadOf(rows[c].party, c)
            BY <1>2, <2>3, <4>2
          <5>2. k - 1 \in DOMAIN Tail(o) /\ Tail(o)[k - 1] = o[k]
            BY <1>4, <5>1
          <5> QED BY <1>4, <4>2, <5>1, <5>2
        <4> QED BY <4>1, <4>2
      <3> QED BY <1>1, <3>1 DEF Joining, ReloadOf
    <2>4. CASE outbox[s][1] = ReloadOf(rows[c].party, c)
      <3>1. m.type = "reload_of" /\ m.party = rows[c].party /\ m.char = c
        BY <1>2, <1>3, <2>4 DEF ReloadOf
      <3>2. Addressee(m, zone[c]) # NoChar
        BY <2>1, <3>1, AddresseeIs
      <3>3. PICK k \in DOMAIN inbox'[zone[c]] :
               inbox'[zone[c]][k].type = "reload_of" /\ inbox'[zone[c]][k].char = c
        BY <1>5, <2>1, <3>1, <3>2
      <3> QED BY <1>1, <3>3 DEF Joining, where
    <2> QED BY <1>8, <2>2, <2>3, <2>4 DEF Joining
  <1>9. Covered'
    <2>1. ASSUME NEW c \in Char, rows'[c] # NoRow, zone'[c] # NoServer, ~InParty(c)'
          PROVE  c \in reload' \/ (c \notin moving' /\ Joining(c)')
      <3>1. rows[c] # NoRow /\ zone[c] # NoServer /\ ~InParty(c)
        BY <1>1, <2>1 DEF InParty, where
      <3>2. c \in reload \/ (c \notin moving /\ Joining(c))
        BY <3>1 DEF Calm, Covered
      <3> QED BY <1>1, <1>8, <3>1, <3>2 DEF where
    <2> QED BY <2>1 DEF Covered
  <1> QED BY <1>1, <1>7, <1>9 DEF Calm

LEMMA RelayLeader ==
  ASSUME PartyInv, LeaderInv, NEW s \in Server, Relay(s)
  PROVE  LeaderInv'
  <1>1. Whereabouts /\ UNCHANGED <<rows, where, parties, reload, pending>>
    BY DEF LeaderInv, Relay
  <1>2. Whereabouts'
    BY <1>1 DEF Whereabouts, where
  <1>3. \A p \in parties : p \in PartyType /\ p.members # {} /\ p.members \subseteq Char
                           /\ \A c \in p.members : zone[c] = p.on
    BY PartyFields DEF PartyInv, Sound
  <1>4. CASE Calm
    BY <1>1, <1>2, <1>4, RelayCalm DEF LeaderInv, Phase
  <1>5. CASE Answering
    <2>1. PICK i \in Char, c \in Char : Alone(Answer(i, c)) /\ i # c /\ c \notin moving /\ zone[c] # NoServer
      BY <1>5 DEF Answering
    <2>2. PICK m : m = Answer(i, c)
      OBVIOUS
    <2>3. /\ Alone(m)'
          /\ \A t \in Server : inbox'[t] = IF Addressee(m, t) = NoChar THEN <<>>
                                            ELSE <<Wrap(m, Addressee(m, t))>>
      BY <2>1, <2>2, RelayAlone
    <2>4. \A t, u \in Server : inbox'[t] # <<>> /\ inbox'[u] # <<>> => t = u
      <3>1. ASSUME NEW t \in Server, inbox'[t] # <<>>  PROVE  server_addr[i] = t
        <4>1. Addressee(m, t) # NoChar
          BY <2>3, <3>1
        <4> QED BY <2>2, <4>1, AnswerAddressee
      <3> QED BY <3>1
    <2>5. Alone(Answer(i, c))'
      BY <2>2, <2>3 DEF Alone, Sent, Passed
    <2> QED BY <1>1, <1>2, <1>5, <2>1, <2>4, <2>5 DEF Answering, Phase, LeaderInv, Still, where
  <1>6. ASSUME NEW n \in Char, Renaming(n)  PROVE  Phase'
    <2>1. Still(NoChar) /\ Alone(Reload(n)) /\ Reload(n).party = n /\ Reload(n).type = "reload"
      BY <1>6 DEF Renaming, Reload
    <2>2. PICK m : m = Reload(n)
      OBVIOUS
    <2>3. Told(n)' /\ Still(NoChar)' /\ \A c \in Char : rows[c].party = n => Untold(zone[c])'
      BY <1>1, <2>1, RelayTells
    <2>4. Alone(m)'
      BY <2>1, <2>2, RelayAlone
    <2>5. ASSUME NEW p \in parties, Stale(p, n)  PROVE  Stale(p, n)'
      <3>1. PICK f \in p.members : TRUE
        BY <1>3
      <3>2. Untold(zone[f])' /\ zone[f] = p.on
        BY <1>3, <2>3, <2>5, <3>1 DEF Stale
      <3>3. Untold(p.on)'
        BY <1>1, <3>2 DEF Untold, where
      <3> QED BY <1>1, <2>5, <3>3 DEF Stale
    <2>6. Alone(Reload(n))'
      BY <2>2, <2>4 DEF Alone, Sent, Passed
    <2> QED BY <1>1, <1>6, <2>3, <2>5, <2>6 DEF Renaming, Phase
  <1>7. ASSUME NEW n \in Char, Disbandment(n)  PROVE  Phase'
    <2>1. Still(n) /\ Alone(Disband(n)) /\ Disband(n).party = n /\ Disband(n).type = "disband"
      BY <1>7 DEF Disbandment, Disband
    <2>2. PICK m : m = Disband(n)
      OBVIOUS
    <2>3. Told(n)' /\ Still(n)' /\ \A c \in Char : rows[c].party = n => Untold(zone[c])'
      BY <1>1, <2>1, RelayTells
    <2>4. Alone(m)'
      BY <2>1, <2>2, RelayAlone
    <2>5. Alone(Disband(n))'
      BY <2>2, <2>4 DEF Alone, Sent, Passed
    <2>6. \A c \in Char : rows'[c].party = n => ~ rows'[c].leader /\ Untold(zone[c])'
      BY <1>1, <1>7, <2>3 DEF Disbandment
    <2> QED BY <1>1, <1>7, <2>3, <2>5, <2>6 DEF Disbandment, Phase
  <1>8. ASSUME NEW n \in Char, NEW d \in Char, Kicking(n, d)  PROVE  Phase'
    <2>1. /\ Still(NoChar) /\ Alone(ReloadOf(n, d))
          /\ ReloadOf(n, d).party = n /\ ReloadOf(n, d).type = "reload_of"
      BY <1>8 DEF Kicking, ReloadOf
    <2>2. PICK m : m = ReloadOf(n, d)
      OBVIOUS
    <2>3. Still(NoChar)' /\ \A c \in Char : rows[c].party = n => Untold(zone[c])'
      BY <1>1, <2>1, RelayTells
    <2>4. Alone(m)'
      BY <2>1, <2>2, RelayAlone
    <2>5. ASSUME NEW p \in parties, Outdated(p, n, d)  PROVE  Outdated(p, n, d)'
      <3>1. PICK f \in p.members : f # d
        BY <2>5 DEF Outdated
      <3>2. Untold(zone[f])' /\ zone[f] = p.on
        BY <1>3, <2>3, <2>5, <3>1 DEF Outdated
      <3>3. Untold(p.on)'
        BY <1>1, <3>2 DEF Untold, where
      <3> QED BY <1>1, <2>5, <3>3 DEF Outdated
    <2>6. Alone(ReloadOf(n, d))'
      BY <2>2, <2>4 DEF Alone, Sent, Passed, ReloadOf
    <2> QED BY <1>1, <1>8, <2>3, <2>5, <2>6 DEF Kicking, Phase
  <1> QED BY <1>2, <1>4, <1>5, <1>6, <1>7, <1>8 DEF LeaderInv, Phase

-----------------------------------------------------------------------------
(***************************************************************************)
(* The handlers of the message threads.                                    *)
(***************************************************************************)
LEMMA TakeIs ==
  ASSUME PartyInv, NEW s \in Server, NEW t, Take(s, t)
  PROVE  LET h == Head(inbox[s]) IN
         /\ h \in InMessage /\ h.type = t /\ h = inbox[s][1] /\ 1 \in DOMAIN inbox[s]
         /\ \A u \in Server : u # s => inbox'[u] = inbox[u]
         /\ \A k \in DOMAIN inbox'[s] : \E j \in DOMAIN inbox[s] : inbox'[s][k] = inbox[s][j]
         /\ \A k \in DOMAIN inbox[s] : k = 1 \/ \E j \in DOMAIN inbox'[s] : inbox'[s][j] = inbox[s][k]
  <1>1. inbox' = [inbox EXCEPT ![s] = Tail(@)] /\ inbox \in [Server -> Seq(InMessage)]
        /\ inbox[s] # <<>> /\ Head(inbox[s]).type = t
    BY DEF Take, PartyInv, In
  <1>2. PICK b \in Seq(InMessage) : b = inbox[s] /\ b # <<>>
    BY <1>1
  <1>3. Head(b) \in InMessage /\ Head(b) = b[1] /\ 1 \in DOMAIN b
    BY <1>2
  <1>4. \A k \in DOMAIN Tail(b) : k + 1 \in DOMAIN b /\ Tail(b)[k] = b[k + 1]
    BY <1>2
  <1>5. \A k \in DOMAIN b : k = 1 \/ (k - 1 \in DOMAIN Tail(b) /\ Tail(b)[k - 1] = b[k])
    BY <1>2
  <1>6. inbox'[s] = Tail(b) /\ \A u \in Server : u # s => inbox'[u] = inbox[u]
    BY <1>1, <1>2
  <1> QED BY <1>1, <1>2, <1>3, <1>4, <1>5, <1>6

\* The one message that is under way has arrived.
LEMMA TakeAlone ==
  ASSUME PartyInv, NEW m, Alone(m), NEW s \in Server, NEW t, Take(s, t)
  PROVE  LET h == Head(inbox[s]) IN
         /\ h \in InMessage /\ m.type = t /\ h.party = m.party /\ h.char = m.char
         /\ inbox[s] # <<>> /\ inbox'[s] = <<>> /\ \A u \in Server : u # s => inbox'[u] = inbox[u]
         /\ \A u \in Server : outbox[u] = <<>>
         /\ UNCHANGED outbox => Alone(m)'
  <1>1. inbox' = [inbox EXCEPT ![s] = Tail(@)] /\ inbox \in [Server -> Seq(InMessage)]
        /\ inbox[s] # <<>> /\ Head(inbox[s]).type = t
    BY DEF Take, PartyInv, In
  <1>2. Passed(m)
    BY <1>1 DEF Alone, Sent
  <1>3. PICK c \in Char : inbox[s] = <<Wrap(m, c)>>
    BY <1>1, <1>2 DEF Passed
  <1>4. PICK w : w = Wrap(m, c)
    OBVIOUS
  <1>5. w.type = m.type /\ w.party = m.party /\ w.char = m.char
    BY <1>4 DEF Wrap
  <1>6. Head(inbox[s]) = w /\ Tail(inbox[s]) = <<>>
    BY <1>3, <1>4
  <1>7. Head(inbox[s]) \in InMessage
    BY TakeIs
  <1>8. inbox'[s] = <<>> /\ \A u \in Server : u # s => inbox'[u] = inbox[u]
    BY <1>1, <1>6
  <1>9. UNCHANGED outbox => Alone(m)'
    BY <1>2, <1>8 DEF Passed, Alone
  <1>10. \A u \in Server : outbox[u] = <<>>
    BY <1>2 DEF Passed
  <1> QED BY <1>1, <1>5, <1>6, <1>7, <1>8, <1>9, <1>10

\* A message taken when no change is being told.
LEMMA TakeCalm ==
  ASSUME PartyInv, Calm, NEW s \in Server, NEW t, Take(s, t),
         UNCHANGED <<rows, where, parties, outbox>>, reload \subseteq reload',
         t = "reload_of" /\ zone[Head(inbox[s]).char] = s => Head(inbox[s]).char \in reload'
  PROVE  Calm'
  <1>1. PICK h \in InMessage :
         /\ h = Head(inbox[s]) /\ h.type = t /\ h = inbox[s][1] /\ 1 \in DOMAIN inbox[s]
         /\ \A u \in Server : u # s => inbox'[u] = inbox[u]
         /\ \A k \in DOMAIN inbox'[s] : \E j \in DOMAIN inbox[s] : inbox'[s][k] = inbox[s][j]
         /\ \A k \in DOMAIN inbox[s] : k = 1 \/ \E j \in DOMAIN inbox'[s] : inbox'[s][j] = inbox[s][k]
    BY TakeIs
  <1>2. Harmless'
    <2>1. ASSUME NEW u \in Server, NEW k \in DOMAIN inbox'[u]
          PROVE  inbox'[u][k].type \notin {"answer", "disband"}
      <3>1. PICK j \in DOMAIN inbox[u] : inbox'[u][k] = inbox[u][j]
        BY <1>1, <2>1
      <3> QED BY <3>1 DEF Calm, Harmless
    <2> QED BY <2>1 DEF Calm, Harmless
  <1>3. ASSUME NEW c \in Char, zone[c] # NoServer, Joining(c)
        PROVE  c \in reload' \/ Joining(c)'
    <2>1. zone[c] \in Server
      BY <1>3 DEF PartyInv, Places
    <2>2. CASE \E u \in Server : \E k \in DOMAIN outbox[u] : outbox[u][k] = ReloadOf(rows[c].party, c)
      BY <2>2 DEF Joining, ReloadOf
    <2>3. ASSUME NEW k \in DOMAIN inbox[zone[c]],
                 inbox[zone[c]][k].type = "reload_of" /\ inbox[zone[c]][k].char = c
          PROVE  c \in reload' \/ Joining(c)'
      <3>1. CASE zone[c] = s /\ k = 1
        BY <1>1, <2>3, <3>1
      <3>2. CASE ~(zone[c] = s /\ k = 1)
        <4>1. PICK j \in DOMAIN inbox'[zone[c]] : inbox'[zone[c]][j] = inbox[zone[c]][k]
          BY <1>1, <2>1, <2>3, <3>2
        <4> QED BY <2>3, <4>1 DEF Joining, where
      <3> QED BY <3>1, <3>2
    <2> QED BY <1>3, <2>2, <2>3 DEF Joining
  <1>4. Covered'
    <2>1. ASSUME NEW c \in Char, rows'[c] # NoRow, zone'[c] # NoServer, ~InParty(c)'
          PROVE  c \in reload' \/ (c \notin moving' /\ Joining(c)')
      <3>1. rows[c] # NoRow /\ zone[c] # NoServer /\ ~InParty(c)
        BY <2>1 DEF InParty, where
      <3>2. c \in reload \/ (c \notin moving /\ Joining(c))
        BY <3>1 DEF Calm, Covered
      <3> QED BY <1>3, <3>1, <3>2 DEF where
    <2> QED BY <2>1 DEF Covered
  <1> QED BY <1>2, <1>4 DEF Calm

\* Looking at the rows is for those who are there.
LEMMA WhereReload ==
  ASSUME Whereabouts, UNCHANGED <<rows, where>>, \A c \in Char : c \in reload' => zone[c] # NoServer
  PROVE  Whereabouts'
  BY DEF Whereabouts, where

LEMMA HandleReloadLeader ==
  ASSUME PartyInv, LeaderInv, NEW s \in Server, HandleReload(s)
  PROVE  LeaderInv'
  <1>1. PICK c \in Char :
         /\ c = Head(inbox[s]).first
         /\ Take(s, "reload") /\ UNCHANGED <<rows, where, parties, pending, outbox>>
         /\ reload' = IF ~ IsHere(s, c) THEN reload
                      ELSE reload \cup (IF InParty(c) THEN PParty(c).members ELSE {c})
    <2>1. Take(s, "reload")
      BY DEF HandleReload
    <2>2. Head(inbox[s]).first \in Char
      BY <2>1, TakeIs DEF InMessage
    <2> QED BY <2>1, <2>2 DEF HandleReload
  <1>2. Whereabouts /\ rows \in [Char -> RowType] /\ Sound(parties, zone) /\ reload \subseteq reload'
    BY <1>1 DEF LeaderInv, PartyInv, Rows
  <1>3. Whereabouts'
    <2>1. ASSUME NEW d \in Char, d \in reload', d \notin reload  PROVE  zone[d] = s
      <3>1. CASE InParty(c)
        <4>1. d \in PParty(c).members /\ zone[c] = s
          BY <1>1, <2>1, <3>1 DEF IsHere
        <4>2. PParty(c) \in parties /\ zone[c] = PParty(c).on
          BY <3>1, Member
        <4> QED BY <1>2, <4>1, <4>2 DEF Sound
      <3>2. CASE ~InParty(c)
        BY <1>1, <2>1, <3>2 DEF IsHere
      <3> QED BY <3>1, <3>2
    <2>2. \A d \in Char : d \in reload' => zone[d] # NoServer
      BY <1>2, <2>1, PartyAssumption DEF Whereabouts
    <2> QED BY <1>1, <1>2, <2>2, WhereReload
  <1>4. CASE Calm
    <2>1. Calm'
      BY <1>1, <1>2, <1>4, TakeCalm
    <2> QED BY <1>3, <2>1 DEF LeaderInv, Phase
  <1>5. ASSUME NEW m, Alone(m)  PROVE  m.type = "reload"
    BY <1>1, <1>5, TakeAlone
  <1>6. CASE Answering
    BY <1>5, <1>6 DEF Answering, Answer
  <1>7. ASSUME NEW n \in Char, Disbandment(n)  PROVE FALSE
    BY <1>5, <1>7 DEF Disbandment, Disband
  <1>8. ASSUME NEW n \in Char, NEW d \in Char, Kicking(n, d)  PROVE FALSE
    BY <1>5, <1>8 DEF Kicking, ReloadOf
  <1>9. ASSUME NEW n \in Char, Renaming(n)  PROVE  LeaderInv'
    <2>1. PICK m : m = Reload(n) /\ Alone(m)
      BY <1>9 DEF Renaming
    <2>2. /\ inbox[s] # <<>> /\ inbox'[s] = <<>> /\ \A u \in Server : u # s => inbox'[u] = inbox[u]
          /\ \A u \in Server : outbox[u] = <<>>
          /\ Alone(m)'
      BY <1>1, <2>1, TakeAlone
    <2>3. rows[c].party = n /\ zone[c] = s /\ Told(n)'
      <3>1. rows[c].party = n /\ zone[c] = s
        BY <1>1, <1>9, <2>2 DEF Renaming, Told
      <3>2. Told(n)'
        BY <1>1, <1>9, <2>2 DEF Renaming, Told, where
      <3> QED BY <3>1, <3>2
    <2>4. rows[c] # NoRow
      BY <2>3, PartyRow
    <2>5. InParty(c)
      BY <1>9, <2>4, InPartyIs DEF Renaming, Still, Housed
    <2>6. PParty(c) \in parties /\ c \in PParty(c).members /\ PParty(c).on = s
      BY <2>3, <2>5, Member
    <2>7. reload' = reload \cup PParty(c).members
      BY <1>1, <2>3, <2>5 DEF IsHere
    <2>8. ASSUME NEW p \in parties, Stale(p, n)  PROVE  Stale(p, n)'
      <3>1. CASE p.on # s
        <4>1. p.on \in Server
          BY <1>2, PartyFields DEF Sound
        <4>2. Untold(p.on) => Untold(p.on)'
          BY <1>1, <2>2, <3>1, <4>1 DEF Untold
        <4> QED BY <1>1, <1>2, <2>8, <4>2 DEF Stale
      <3>2. CASE p.on = s
        <4>1. PICK f \in p.members : TRUE
          BY <1>2 DEF Sound
        <4>2. rows[f].party = n
          BY <2>8, <4>1 DEF Stale
        <4>3. p = PParty(c)
          BY <1>9, <2>3, <2>4, <2>6, <3>2, <4>1, <4>2 DEF Renaming, Still, Ordered, Unique
        <4> QED BY <1>1, <2>7, <2>8, <4>3 DEF Stale
      <3> QED BY <3>1, <3>2
    <2>9. Alone(Reload(n))'
      BY <2>1, <2>2 DEF Alone, Sent, Passed
    <2>10. Renaming(n)'
      BY <1>1, <1>9, <2>3, <2>8, <2>9 DEF Renaming, Still, where
    <2> QED BY <1>3, <2>10 DEF LeaderInv, Phase
  <1> QED BY <1>4, <1>5, <1>6, <1>7, <1>8, <1>9 DEF LeaderInv, Phase

LEMMA HandleReloadOfLeader ==
  ASSUME PartyInv, LeaderInv, NEW s \in Server, HandleReloadOf(s)
  PROVE  LeaderInv'
  <1>1. PICK m \in InMessage : m = Head(inbox[s]) /\ m.char \in Char /\ m.first \in Char
    <2>1. Take(s, "reload_of")
      BY DEF HandleReloadOf
    <2>2. Head(inbox[s]) \in InMessage /\ Head(inbox[s]).type = "reload_of"
      BY <2>1, TakeIs
    <2>3. Head(inbox[s]).char \in Char /\ Head(inbox[s]).first \in Char
      BY <2>2 DEF InMessage
    <2> QED BY <2>2, <2>3
  <1>2. /\ Take(s, "reload_of") /\ UNCHANGED <<rows, where, parties, pending, outbox>>
        /\ reload' = reload \/ \E c \in Char : zone[c] = s /\ reload' = reload \cup {c}
        /\ zone[m.char] = s => reload' = reload \cup {m.char}
    <2> DEFINE second == {c \in Char : IsHere(s, c) /\ InParty(c) /\ PParty(c).id = m.char}
               found == IF IsHere(s, m.char) THEN {m.char}
                        ELSE IF second # {} THEN second
                        ELSE {c \in {m.first} : IsHere(s, c)}
    <2>1. /\ Take(s, "reload_of") /\ UNCHANGED <<rows, where, parties, pending, outbox>>
          /\ IF found = {} THEN UNCHANGED reload
             ELSE \E c \in found : reload' = reload \cup {c}
      BY <1>1 DEF HandleReloadOf
    <2>2. \A c \in found : c \in Char /\ zone[c] = s
      BY <1>1 DEF IsHere
    <2>3. zone[m.char] = s => found = {m.char}
      BY DEF IsHere
    <2> HIDE DEF found
    <2> QED BY <2>1, <2>2, <2>3
  <1>3. Whereabouts /\ Sound(parties, zone) /\ reload \subseteq reload'
    BY <1>2 DEF LeaderInv, PartyInv
  <1>4. Whereabouts'
    <2>1. \A d \in Char : d \in reload' => zone[d] # NoServer
      BY <1>2, <1>3, PartyAssumption DEF Whereabouts
    <2> QED BY <1>2, <1>3, <2>1, WhereReload
  <1>5. CASE Calm
    <2>1. Calm'
      BY <1>1, <1>2, <1>3, <1>5, TakeCalm
    <2> QED BY <1>4, <2>1 DEF LeaderInv, Phase
  <1>6. ASSUME NEW n, Alone(n)  PROVE  n.type = "reload_of"
    BY <1>2, <1>6, TakeAlone
  <1>7. CASE Answering
    BY <1>6, <1>7 DEF Answering, Answer
  <1>8. ASSUME NEW n \in Char, Renaming(n) \/ Disbandment(n)  PROVE FALSE
    BY <1>6, <1>8 DEF Disbandment, Disband, Renaming, Reload
  <1>9. ASSUME NEW n \in Char, NEW d \in Char, Kicking(n, d)  PROVE  LeaderInv'
    <2>1. PICK r : r = ReloadOf(n, d) /\ Alone(r)
      BY <1>9 DEF Kicking
    <2>2. r.char = d
      BY <2>1 DEF ReloadOf
    <2>3. /\ m.char = d /\ inbox'[s] = <<>> /\ \A u \in Server : u # s => inbox'[u] = inbox[u]
          /\ \A u \in Server : outbox[u] = <<>>
          /\ Alone(r)'
      BY <1>1, <1>2, <2>1, <2>2, TakeAlone
    <2>4. ASSUME NEW p \in parties, Outdated(p, n, d)  PROVE  Outdated(p, n, d)'
      <3>0. p.on \in Server /\ \A c \in p.members : zone[c] = p.on
        BY <1>3, PartyFields DEF Sound
      <3>1. Untold(p.on)' \/ d \in reload'
        <4>1. CASE p.on # s
          <5>1. Untold(p.on) => Untold(p.on)'
            BY <1>2, <2>3, <3>0, <4>1 DEF Untold
          <5> QED BY <1>3, <2>4, <5>1 DEF Outdated
        <4>2. CASE p.on = s
          <5>1. zone[d] = s
            BY <2>4, <3>0, <4>2 DEF Outdated
          <5> QED BY <1>2, <2>3, <5>1
        <4> QED BY <4>1, <4>2
      <3>2. reload' \cap p.members \subseteq {d}
        <4>1. CASE p.on # s
          BY <1>2, <2>4, <3>0, <4>1 DEF Outdated
        <4>2. CASE p.on = s
          <5>1. zone[d] = s
            BY <2>4, <3>0, <4>2 DEF Outdated
          <5>2. reload' = reload \cup {d}
            BY <1>2, <2>3, <5>1
          <5> QED BY <2>4, <5>2 DEF Outdated
        <4> QED BY <4>1, <4>2
      <3> QED BY <1>2, <2>4, <3>1, <3>2 DEF Outdated
    <2>5. Alone(ReloadOf(n, d))'
      BY <2>1, <2>3 DEF Alone, Sent, Passed, ReloadOf
    <2>6. Kicking(n, d)'
      BY <1>2, <1>9, <2>4, <2>5 DEF Kicking, Still, where
    <2> QED BY <1>4, <2>6 DEF LeaderInv, Phase
  <1> QED BY <1>5, <1>7, <1>8, <1>9 DEF LeaderInv, Phase

LEMMA HandleInviteLeader ==
  ASSUME PartyInv, LeaderInv, NEW s \in Server, HandleInvite(s)
  PROVE  LeaderInv'
  <1>1. Take(s, "invite") /\ UNCHANGED <<rows, where, parties, reload, outbox>> /\ Whereabouts
    BY DEF HandleInvite, LeaderInv
  <1>2. Whereabouts'
    BY <1>1 DEF Whereabouts, where
  <1>3. CASE Calm
    <2>1. Calm'
      BY <1>1, <1>3, TakeCalm
    <2> QED BY <1>2, <2>1 DEF LeaderInv, Phase
  <1>4. ASSUME NEW n, Alone(n)  PROVE  n.type = "invite"
    BY <1>1, <1>4, TakeAlone
  <1>5. CASE Answering
    BY <1>4, <1>5 DEF Answering, Answer
  <1>6. ASSUME NEW n \in Char, Renaming(n) \/ Disbandment(n)  PROVE FALSE
    BY <1>4, <1>6 DEF Disbandment, Disband, Renaming, Reload
  <1>7. ASSUME NEW n \in Char, NEW d \in Char, Kicking(n, d)  PROVE FALSE
    BY <1>4, <1>7 DEF Kicking, ReloadOf
  <1> QED BY <1>3, <1>5, <1>6, <1>7 DEF LeaderInv, Phase

\* The rows of an object's members go, and the object with them.
LEMMA HandleDisbandLeader ==
  ASSUME PartyInv, LeaderInv, NEW s \in Server, HandleDisband(s)
  PROVE  LeaderInv'
  <1>1. PICK c \in Char :
         /\ c = Head(inbox[s]).first
         /\ Take(s, "disband") /\ UNCHANGED <<where, reload, pending>>
         /\ IF IsHere(s, c) /\ InParty(c)
            THEN DisbandParty(PParty(c), PParty(c).id, rows, FALSE)
            ELSE UNCHANGED <<rows, parties, outbox>>
    <2>1. Take(s, "disband")
      BY DEF HandleDisband
    <2>2. Head(inbox[s]).first \in Char
      BY <2>1, TakeIs DEF InMessage
    <2> QED BY <2>1, <2>2 DEF HandleDisband
  <1>2. Whereabouts /\ rows \in [Char -> RowType] /\ Sound(parties, zone)
    BY DEF LeaderInv, PartyInv, Rows
  <1>3. ~Calm
    <2>1. ASSUME Calm  PROVE  FALSE
      <3>1. inbox[s][1].type = "disband" /\ 1 \in DOMAIN inbox[s]
        BY <1>1, TakeIs
      <3> QED BY <2>1, <3>1 DEF Calm, Harmless
    <2> QED BY <2>1
  <1>4. ASSUME NEW m, Alone(m)  PROVE  m.type = "disband"
    BY <1>1, <1>4, TakeAlone
  <1>5. ASSUME Answering  PROVE  FALSE
    <2>1. PICK j \in Char, d \in Char : Alone(Answer(j, d))
      BY <1>5 DEF Answering
    <2>2. Answer(j, d).type = "disband"
      BY <1>4, <2>1
    <2> QED BY <2>2 DEF Answer
  <1>6. ASSUME NEW n \in Char, Renaming(n)  PROVE FALSE
    BY <1>4, <1>6 DEF Renaming, Reload
  <1>7. ASSUME NEW n \in Char, NEW d \in Char, Kicking(n, d)  PROVE FALSE
    BY <1>4, <1>7 DEF Kicking, ReloadOf
  <1>8. PICK n \in Char : Disbandment(n)
    BY <1>3, <1>5, <1>6, <1>7 DEF LeaderInv, Phase
  <1>9. PICK m : m = Disband(n) /\ Alone(m)
    BY <1>8 DEF Disbandment
  <1>10. /\ inbox[s] # <<>> /\ inbox'[s] = <<>> /\ \A u \in Server : u # s => inbox'[u] = inbox[u]
         /\ \A u \in Server : outbox[u] = <<>>
         /\ UNCHANGED outbox => Alone(m)'
    BY <1>1, <1>9, TakeAlone
  <1>11. /\ rows[c].party = n /\ zone[c] = s /\ rows[c] # NoRow
    <2>1. rows[c].party = n /\ zone[c] = s
      BY <1>1, <1>8, <1>10 DEF Disbandment, Told
    <2> QED BY <2>1, PartyRow
  <1>12. InParty(c)
    BY <1>8, <1>11, InPartyIs DEF Disbandment, Still, Housed
  <1>13. PICK p \in PartyType : p = PParty(c) /\ p \in parties /\ c \in p.members /\ p.on = s
    BY <1>11, <1>12, Member
  <1>14. Fresh(p, rows) /\ p.members \subseteq Char /\ \A d \in p.members : zone[d] = s
    BY <1>2, <1>8, <1>13, PartyFields DEF Disbandment, AllFresh, Sound
  <1>15. p.id = n
    BY <1>11, <1>13, <1>14 DEF Fresh
  <1>16. /\ parties' = parties \ {p} /\ outbox' = outbox
         /\ \A d \in Char : rows'[d] = IF d \in p.members THEN NoRow ELSE rows[d]
    BY <1>1, <1>11, <1>12, <1>13 DEF DisbandParty, IsHere
  <1>17. /\ Flagged(rows, n) /\ Unique(parties, rows) /\ AllFresh(parties, rows)
         /\ Housed(parties, rows) /\ Resting(moving, zone, rows)
    BY <1>8 DEF Disbandment, Still, Ordered
  <1>18. Whereabouts'
    <2>1. \A d \in Char : rows'[d] # NoRow => rows[d] # NoRow
      BY <1>16
    <2> QED BY <1>1, <1>2, <2>1 DEF Whereabouts, where
  <1>19. ASSUME NEW r \in parties'
         PROVE  r \in parties /\ r.members \cap p.members = {} /\ r.members \subseteq Char
    BY <1>2, <1>13, <1>16, PartyFields DEF Sound
  <1>20. Unique(parties', rows') /\ AllFresh(parties', rows')
    <2>1. \A r \in parties' : \A d \in r.members : rows'[d] = rows[d]
      BY <1>16, <1>19
    <2>2. Unique(parties', rows) /\ AllFresh(parties', rows)
      BY <1>17, <1>19 DEF Unique, AllFresh
    <2> QED BY <2>1, <2>2, OthersRows
  <1>21. Flagged(rows', n)
    <2>1. \A d \in Char : rows'[d].leader => rows'[d].party = d
      BY <1>16, <1>17 DEF Flagged, NoRow
    <2>2. ASSUME NEW d \in Char, rows'[d] # NoRow, rows'[d].party # n  PROVE  Headed(rows', rows'[d].party)
      <3>1. rows'[d] = rows[d] /\ rows[d] # NoRow /\ rows[d] \in RowType
        BY <1>2, <1>16, <2>2
      <3>2. PICK j \in Char : j = rows[d].party /\ j # n
        BY <2>2, <3>1, RowFacts
      <3>3. Headed(rows, j)
        BY <1>17, <3>1, <3>2 DEF Flagged
      <3>4. rows[j].party = j
        BY <3>3 DEF Headed
      <3>5. j \notin p.members
        BY <1>14, <1>15, <3>2, <3>4 DEF Fresh
      <3>6. rows'[j] = rows[j]
        BY <1>16, <3>5
      <3>7. Headed(rows', j)
        BY <3>3, <3>6 DEF Headed
      <3> QED BY <3>1, <3>2, <3>7
    <2> QED BY <2>1, <2>2 DEF Flagged
  <1>22. Housed(parties', rows')
    <2>1. ASSUME NEW d \in Char, rows'[d] # NoRow  PROVE  \E r \in parties' : d \in r.members
      <3>1. d \notin p.members /\ rows[d] # NoRow
        BY <1>16, <2>1
      <3>2. PICK r \in parties : d \in r.members
        BY <1>17, <3>1 DEF Housed
      <3> QED BY <1>16, <3>1, <3>2
    <2> QED BY <2>1 DEF Housed
  <1>23. Still(n)'
    <2>1. Resting(moving', zone', rows')
      <3>1. moving \subseteq Char
        BY DEF PartyInv, Places
      <3> QED BY <1>1, <1>16, <1>17, <3>1 DEF Resting, where
    <2> QED BY <1>20, <1>21, <1>22, <2>1 DEF Still, Ordered
  <1>24. Told(n)'
    <2>1. ASSUME NEW t \in Server, inbox'[t] # <<>>
          PROVE  rows'[Head(inbox'[t]).first].party = n /\ zone'[Head(inbox'[t]).first] = t
      <3>1. t # s /\ inbox'[t] = inbox[t]
        BY <1>10, <2>1
      <3>2. PICK g \in Char : g = Head(inbox[t]).first
        <4>1. inbox[t] \in Seq(InMessage)
          BY DEF PartyInv, In
        <4>2. Head(inbox[t]) \in InMessage
          BY <2>1, <3>1, <4>1
        <4> QED BY <4>2 DEF InMessage
      <3>3. rows[g].party = n /\ zone[g] = t
        BY <1>8, <2>1, <3>1, <3>2 DEF Disbandment, Told
      <3>4. g \notin p.members
        BY <1>14, <3>1, <3>3
      <3>5. rows'[g] = rows[g] /\ zone' = zone
        BY <1>1, <1>16, <3>4 DEF where
      <3> QED BY <3>1, <3>2, <3>3, <3>5
    <2> QED BY <2>1 DEF Told
  <1>25. ASSUME NEW d \in Char, rows'[d].party = n  PROVE  ~ rows'[d].leader /\ Untold(zone[d])'
    <2>1. d \notin p.members /\ rows'[d] = rows[d]
      BY <1>16, <1>25, PartyAssumption DEF NoRow
    <2>2. ~ rows[d].leader /\ Untold(zone[d]) /\ rows[d] # NoRow
      BY <1>8, <1>25, <2>1, PartyRow DEF Disbandment
    <2>3. PICK r \in parties : d \in r.members
      BY <1>17, <2>2 DEF Housed
    <2>4. r # p /\ zone[d] = r.on /\ r.on \in Server
      BY <1>2, <2>1, <2>3, PartyFields DEF Sound
    <2>5. zone[d] # s
      <3>1. rows[d].party = rows[c].party
        BY <1>11, <1>25, <2>1
      <3> QED BY <1>13, <1>17, <2>2, <2>3, <2>4, <3>1 DEF Unique
    <2>6. inbox[zone[d]] # <<>>
      BY <1>10, <2>2 DEF Untold
    <2>7. inbox'[zone[d]] # <<>> /\ zone' = zone
      BY <1>1, <1>10, <2>4, <2>5, <2>6 DEF where
    <2> QED BY <2>1, <2>2, <2>7 DEF Untold
  <1>26. Alone(Disband(n))'
    <2>1. Alone(m)'
      BY <1>10, <1>16
    <2> QED BY <1>9, <2>1 DEF Alone, Sent, Passed
  <1>27. Disbandment(n)'
    BY <1>20, <1>23, <1>24, <1>25, <1>26 DEF Disbandment
  <1> QED BY <1>18, <1>27 DEF LeaderInv, Phase

\* MSG_PT_INV_RES: the party of the inviter takes the member in.
LEMMA HandleAnswerLeader ==
  ASSUME PartyInv, LeaderInv, NEW s \in Server, HandleAnswer(s)
  PROVE  LeaderInv'
  <1>1. PICK i \in Char, c \in Char :
         /\ i = Head(inbox[s]).party /\ c = Head(inbox[s]).char
         /\ Take(s, "answer") /\ UNCHANGED <<where, reload, pending>>
         /\ IF zone[i] = s THEN AddMemberElsewhere(i, c) ELSE UNCHANGED <<rows, parties, outbox>>
    <2>1. Take(s, "answer")
      BY DEF HandleAnswer
    <2>2. Head(inbox[s]) \in InMessage /\ Head(inbox[s]).type = "answer"
      BY <2>1, TakeIs
    <2>3. Head(inbox[s]).party \in Char /\ Head(inbox[s]).char \in Char
      BY <2>2 DEF InMessage
    <2> QED BY <2>1, <2>3 DEF HandleAnswer, IsHere
  <1>2. Whereabouts /\ rows \in [Char -> RowType] /\ Sound(parties, zone)
    BY DEF LeaderInv, PartyInv, Rows
  <1>3. ~Calm
    <2>1. ASSUME Calm  PROVE  FALSE
      <3>1. inbox[s][1].type = "answer" /\ 1 \in DOMAIN inbox[s]
        BY <1>1, TakeIs
      <3> QED BY <2>1, <3>1 DEF Calm, Harmless
    <2> QED BY <2>1
  <1>4. ASSUME NEW m, Alone(m)  PROVE  m.type = "answer"
    BY <1>1, <1>4, TakeAlone
  <1>5. ASSUME NEW n \in Char, Renaming(n) \/ Disbandment(n)  PROVE FALSE
    BY <1>4, <1>5 DEF Disbandment, Disband, Renaming, Reload
  <1>6. ASSUME NEW n \in Char, NEW d \in Char, Kicking(n, d)  PROVE FALSE
    BY <1>4, <1>6 DEF Kicking, ReloadOf
  <1>7. Answering
    BY <1>3, <1>5, <1>6 DEF LeaderInv, Phase
  <1>8. /\ Ordered(parties, rows, NoChar) /\ AllFresh(parties, rows) /\ Housed(parties, rows)
        /\ Resting(moving, zone, rows)
    BY <1>7 DEF Answering, Still
  <1>9. /\ \A u \in Server : inbox'[u] = <<>> /\ outbox[u] = <<>>
        /\ c \notin moving /\ zone[c] # NoServer
    <2>1. PICK j \in Char, d \in Char : Alone(Answer(j, d)) /\ d \notin moving /\ zone[d] # NoServer
      BY <1>7 DEF Answering
    <2>2. PICK m : m = Answer(j, d) /\ Alone(m) /\ m.char = d
      BY <2>1 DEF Answer
    <2>3. /\ Head(inbox[s]).char = m.char
          /\ inbox[s] # <<>> /\ inbox'[s] = <<>> /\ \A u \in Server : u # s => inbox'[u] = inbox[u]
          /\ \A u \in Server : outbox[u] = <<>>
      BY <1>1, <2>2, TakeAlone
    <2>4. \A u \in Server : u # s => inbox[u] = <<>>
      BY <1>7, <2>3 DEF Answering
    <2> QED BY <1>1, <2>1, <2>2, <2>3, <2>4
  <1>10. UNCHANGED <<server_addr, zone, moving, reload>>
    BY <1>1 DEF where
  <1>11. CASE zone[i] # s
    <2>1. UNCHANGED <<rows, parties, outbox>>
      BY <1>1, <1>11
    <2>2. Covered'
      BY <1>8, <2>1, InPartyIs DEF Covered, Housed, InParty
    <2>3. Harmless'
      BY <1>9, <2>1 DEF Harmless
    <2>4. Calm' /\ Whereabouts'
      BY <1>2, <1>8, <1>10, <2>1, <2>2, <2>3 DEF Calm, Whereabouts
    <2> QED BY <2>4 DEF LeaderInv, Phase
  <1>12. CASE zone[i] = s
    <2>1. PICK p, db, P :
            /\ p = PartyOf(i) /\ P = parties \cup {p}
            /\ db = (IF InParty(i) THEN rows ELSE FoundedRows(i))
      OBVIOUS
    <2>2. server_addr[i] # NoServer /\ server_addr[c] # NoServer
      <3>1. i \notin moving
        BY <1>8, <1>12, PartyAssumption DEF Resting
      <3> QED BY <1>2, <1>9, <1>12, <3>1, PartyAssumption DEF Whereabouts
    <2>3. /\ p \in PartyType /\ p.on = zone[i] /\ i \in p.members /\ db \in [Char -> RowType]
          /\ Sound(P, zone) /\ Ordered(P, db, NoChar) /\ AllFresh(P, db) /\ Housed(P, db)
          /\ Headed(db, p.id) /\ Fresh(p, db)
          /\ \A d \in Char : rows[d] # NoRow \/ d # i => db[d] = rows[d]
          /\ ~InParty(i) => p.leader = i /\ p.id = i
      BY <1>8, <1>12, <2>1, <2>2, HostStep
    <2>4. p.id \in Char
      BY <2>3, PartyFields
    <2>5. PICK free \in BOOLEAN : free <=> p.leader = i /\ db[c] = NoRow
      OBVIOUS
    <2>6. /\ parties' = P /\ rows' = IF free THEN Inserted(db, c, p.id) ELSE db
          /\ Send(s, (IF InParty(i) THEN <<>> ELSE <<Reload(i)>>)
                         \o (IF free THEN <<ReloadOf(p.id, c)>> ELSE <<>>))
      BY <1>1, <1>12, <2>1, <2>3, <2>5 DEF AddMemberElsewhere, PartyOf
    <2>7. /\ Ordered(P, rows', NoChar) /\ AllFresh(P, rows')
          /\ \A d \in Char : d # c => rows'[d] = db[d]
          /\ free => rows'[c].party = p.id
          /\ ~free => rows' = db
      <3>1. CASE free
        <4>1. rows' = Inserted(db, c, p.id) /\ db[c] = NoRow
          BY <2>5, <2>6, <3>1
        <4>2. Ordered(P, rows', NoChar) /\ AllFresh(P, rows')
              /\ rows'[c].party = p.id /\ \A d \in Char : d # c => rows'[d] = db[d]
          BY <2>2, <2>3, <2>4, <4>1, MemberRow
        <4> QED BY <3>1, <4>2
      <3>2. CASE ~free
        BY <2>3, <2>6, <3>2
      <3> QED BY <3>1, <3>2
    <2>8. /\ outbox \in [Server -> Seq(OutMessage)] /\ outbox[s] = <<>>
      BY <1>9 DEF PartyInv, Out
    <2>9. /\ Harmless'
          /\ free => \E k \in DOMAIN outbox'[s] : outbox'[s][k] = ReloadOf(p.id, c)
      <3>1. PICK m \in Safe, r \in Safe : m = Reload(i) /\ r = ReloadOf(p.id, c)
        BY <2>4, SentTyped, SentAboutTyped DEF Safe, Reload, ReloadOf
      <3>2. PICK a \in Seq(Safe), b \in Seq(Safe) :
              a = (IF InParty(i) THEN <<>> ELSE <<m>>) /\ b = (IF free THEN <<r>> ELSE <<>>)
        <4>1. <<>> \in Seq(Safe) /\ <<m>> \in Seq(Safe) /\ <<r>> \in Seq(Safe)
          OBVIOUS
        <4> QED BY <4>1
      <3>3. PICK ms \in Seq(Safe) : ms = a \o b
        <4>1. a \o b \in Seq(Safe)
          OBVIOUS
        <4> QED BY <4>1
      <3>4. outbox' = [outbox EXCEPT ![s] = @ \o ms]
        BY <2>6, <3>1, <3>2, <3>3 DEF Send
      <3>5. outbox'[s] = <<>> \o ms /\ \A t \in Server : t # s => outbox'[t] = <<>>
        BY <1>9, <2>8, <3>4
      <3>6. outbox'[s] = ms
        BY <3>5
      <3>7. \A k \in DOMAIN ms : ms[k].type \notin {"answer", "disband"}
        <4>1. \A k \in DOMAIN ms : ms[k] \in Safe
          OBVIOUS
        <4> QED BY <4>1 DEF Safe
      <3>8. Harmless'
        BY <1>9, <3>5, <3>6, <3>7 DEF Harmless
      <3>9. ASSUME free  PROVE  \E k \in DOMAIN ms : ms[k] = r
        <4>1. b = <<r>>
          BY <3>2, <3>9
        <4>2. Len(a) + 1 \in DOMAIN ms /\ ms[Len(a) + 1] = b[1] /\ b[1] = r
          BY <3>3, <4>1
        <4> QED BY <4>2
      <3> QED BY <3>1, <3>6, <3>8, <3>9
    <2>10. Covered'
      <3>1. ASSUME NEW d \in Char, rows'[d] # NoRow, ~InParty(d)'
            PROVE  d \notin moving' /\ Joining(d)'
        <4>1. db[d] = NoRow
          BY <2>3, <2>6, <3>1 DEF Housed, InParty
        <4>2. d = c /\ free
          BY <2>7, <3>1, <4>1
        <4>3. PICK k \in DOMAIN outbox'[s] : outbox'[s][k] = ReloadOf(rows'[d].party, d)
          BY <2>7, <2>9, <4>2
        <4>4. Joining(d)'
          BY <4>3 DEF Joining, ReloadOf
        <4> QED BY <1>9, <1>10, <4>2, <4>4
      <3> QED BY <3>1 DEF Covered
    <2>11. Calm'
      BY <2>6, <2>7, <2>9, <2>10 DEF Calm
    <2>12. Whereabouts'
      <3>1. ASSUME NEW d \in Char, rows'[d] # NoRow  PROVE  server_addr[d] # NoServer
        <4>1. d = c \/ d = i \/ rows[d] # NoRow
          BY <2>3, <2>7, <3>1
        <4> QED BY <1>2, <2>2, <4>1 DEF Whereabouts
      <3> QED BY <1>2, <1>10, <3>1 DEF Whereabouts
    <2> QED BY <2>11, <2>12 DEF LeaderInv, Phase
  <1> QED BY <1>11, <1>12

LEMMA DeliverLeader ==
  ASSUME PartyInv, LeaderInv, NEW s \in Server, Deliver(s)
  PROVE  LeaderInv'
  BY RelayLeader, HandleReloadLeader, HandleReloadOfLeader, HandleDisbandLeader, HandleInviteLeader,
     HandleAnswerLeader DEF Deliver

-----------------------------------------------------------------------------
(***************************************************************************)
(* PostTick.                                                               *)
(***************************************************************************)
\* RefreshFlags: with a leader's row the pointer is as the rows have it.
LEMMA RefreshedPointed ==
  ASSUME NEW db \in [Char -> RowType], NEW x, Flagged(db, x), NEW q \in PartyType
  PROVE  LET r == Refreshed(q, db) IN
         /\ r \in PartyType /\ r.on = q.on /\ r.id = q.id /\ r.members = q.members
         /\ Headed(db, q.id) \/ Pointed(q) => Pointed(r)
  <1> DEFINE leaders == {c \in RowsOf(db, q.id) : db[c].leader}
             l == CHOOSE c \in leaders : TRUE
             k == IF l \in q.members THEN l ELSE NoChar
  <1>1. q.id \in Char
    BY PartyFields
  <1>2. \A c \in leaders : c = q.id
    BY DEF RowsOf, Flagged
  <1>3. CASE leaders = {}
    <2>1. Refreshed(q, db) = q
      BY <1>3 DEF Refreshed
    <2>2. ~Headed(db, q.id)
      <3>1. ASSUME Headed(db, q.id)  PROVE  FALSE
        <4>1. db[q.id].party = q.id /\ db[q.id].leader = TRUE
          BY <3>1 DEF Headed
        <4>2. q.id \in leaders
          BY <1>1, <4>1 DEF RowsOf
        <4> QED BY <1>3, <4>2
      <3> QED BY <3>1
    <2> QED BY <2>1, <2>2
  <1>4. CASE leaders # {}
    <2>1. l = q.id
      <3> HIDE DEF leaders
      <3>1. l \in leaders
        BY <1>4
      <3> QED BY <1>2, <3>1
    <2>2. k \in Char \cup {NoChar} /\ k = IF q.id \in q.members THEN q.id ELSE NoChar
      BY <1>1, <2>1
    <2>3. Refreshed(q, db) = [q EXCEPT !.leader = k]
      BY <1>4 DEF Refreshed
    <2> HIDE DEF k
    <2>4. PICK r : r = [q EXCEPT !.leader = k]
      OBVIOUS
    <2>5. r \in PartyType /\ r.on = q.on /\ r.id = q.id /\ r.members = q.members /\ r.leader = k
      BY <2>2, <2>4 DEF PartyType
    <2>6. Pointed(r)
      BY <2>2, <2>5, PartyAssumption DEF Pointed
    <2> QED BY <2>3, <2>4, <2>5, <2>6
  <1> QED BY <1>3, <1>4

\* ReloadParty of a member: his object takes his party's name.
LEMMA RejoinIs ==
  ASSUME PartyInv, NEW c \in Char, zone[c] # NoServer, rows[c] # NoRow, InParty(c), Rejoin(c),
         NEW x, Flagged(rows, x)
  PROVE  \E p \in parties : \E r \in PartyType :
         /\ p \in PartyType /\ c \in p.members
         /\ r.on = p.on /\ r.id = rows[c].party /\ r.members = p.members
         /\ parties' = Swapped(parties, p, r) /\ reload' = reload \ p.members
         /\ Headed(rows, r.id) \/ (Pointed(p) /\ p.id = r.id) => Pointed(r)
  <1>1. PICK p \in PartyType : p = PParty(c) /\ p \in parties /\ c \in p.members
    BY Member
  <1>2. rows \in [Char -> RowType]
    BY DEF PartyInv, Rows
  <1>3. PICK i \in Char : i = rows[c].party
    <2>1. rows[c] \in RowType
      BY <1>2
    <2> QED BY <2>1, RowFacts
  <1>4. PICK q : q = [p EXCEPT !.id = i]
    OBVIOUS
  <1>5. q \in PartyType /\ q.on = p.on /\ q.id = i /\ q.members = p.members /\ q.leader = p.leader
    BY <1>4 DEF PartyType
  <1>6. PICK r \in PartyType :
         /\ r = Refreshed(q, rows) /\ r.on = q.on /\ r.id = q.id /\ r.members = q.members
         /\ Headed(rows, q.id) \/ Pointed(q) => Pointed(r)
    BY <1>2, <1>5, RefreshedPointed
  <1>7. parties' = Replaced(p, Refreshed(q, rows)) /\ reload' = reload \ q.members
    BY <1>1, <1>3, <1>4 DEF Rejoin
  <1>8. parties' = Swapped(parties, p, r)
    BY <1>6, <1>7 DEF Replaced, Swapped
  <1>9. Pointed(p) /\ p.id = i => Pointed(q)
    BY <1>5 DEF Pointed
  <1>10. reload' = reload \ p.members /\ r.members = p.members /\ r.on = p.on /\ r.id = rows[c].party
    BY <1>3, <1>5, <1>6, <1>7
  <1>11. Headed(rows, r.id) \/ (Pointed(p) /\ p.id = r.id) => Pointed(r)
    BY <1>5, <1>6, <1>9
  <1> QED BY <1>1, <1>8, <1>10, <1>11

\* ReloadParty of a character who is in no object: he enters one, or founds it.
LEMMA EnterIs ==
  ASSUME PartyInv, NEW c \in Char, zone[c] # NoServer, rows[c] # NoRow, ~InParty(c), Rejoin(c),
         NEW x, Flagged(rows, x)
  PROVE  \E p, r \in PartyType :
         /\ p \in parties \/ (p.members = {} /\ \A t \in parties : ~ (t.on = p.on /\ t.id = p.id))
         /\ r.on = p.on /\ r.id = rows[c].party /\ p.id = r.id /\ r.members = p.members \cup {c}
         /\ parties' = Swapped(parties, p, r) /\ reload' = reload \ r.members
         /\ Headed(rows, r.id) => Pointed(r)
  <1>1. rows \in [Char -> RowType] /\ zone[c] \in Server /\ Sound(parties, zone)
    BY DEF PartyInv, Rows, Places
  <1>2. PICK i \in Char, s \in Server : i = rows[c].party /\ s = zone[c]
    <2>1. rows[c] \in RowType
      BY <1>1
    <2>2. rows[c].party \in Char
      BY <2>1, RowFacts
    <2> QED BY <1>1, <2>2
  <1> DEFINE same == {t \in parties : t.on = zone[c] /\ t.id = rows[c].party}
             new == [on |-> zone[c], id |-> rows[c].party, leader |-> NoChar, members |-> {}]
             May == IF InParty(c) THEN {PParty(c)} ELSE IF same = {} THEN {new} ELSE same
             To(p) == IF InParty(c) THEN [p EXCEPT !.id = rows[c].party]
                      ELSE [p EXCEPT !.members = @ \cup {c},
                                     !.leader = IF rows[c].leader THEN c ELSE @]
  <1>3. PICK p \in May :
          parties' = Replaced(p, Refreshed(To(p), rows)) /\ reload' = reload \ To(p).members
    BY DEF Rejoin
  <1>4. /\ p \in PartyType /\ p.on = s /\ p.id = i
        /\ p \in parties \/ (p.members = {} /\ \A t \in parties : ~ (t.on = p.on /\ t.id = p.id))
    <2>1. CASE same = {}
      <3>1. p = new
        BY <1>3, <2>1
      <3>2. new \in PartyType /\ new.on = s /\ new.id = i /\ new.members = {}
        BY <1>2 DEF PartyType
      <3>3. \A t \in parties : ~ (t.on = s /\ t.id = i)
        BY <1>2, <2>1
      <3> HIDE DEF new, same
      <3> QED BY <3>1, <3>2, <3>3
    <2>2. CASE same # {}
      BY <1>1, <1>2, <1>3, <2>2 DEF Sound
    <2> QED BY <2>1, <2>2
  <1> HIDE DEF same, new, May
  <1>5. PICK ms \in SUBSET Char, l \in Char \cup {NoChar, Gone} :
          ms = p.members \cup {c} /\ l = IF rows[c].leader THEN c ELSE p.leader
    <2>1. p.members \cup {c} \in SUBSET Char /\ p.leader \in Char \cup {NoChar, Gone}
      BY <1>4, PartyFields
    <2> QED BY <2>1
  <1>6. PICK q : q = [p EXCEPT !.members = ms, !.leader = l]
    OBVIOUS
  <1>7. q \in PartyType /\ q.on = p.on /\ q.id = p.id /\ q.members = ms
    BY <1>4, <1>6 DEF PartyType
  <1>8. To(p) = q
    BY <1>5, <1>6
  <1> HIDE DEF To
  <1>9. PICK r \in PartyType :
         /\ r = Refreshed(q, rows) /\ r.on = q.on /\ r.id = q.id /\ r.members = q.members
         /\ Headed(rows, q.id) \/ Pointed(q) => Pointed(r)
    BY <1>1, <1>7, RefreshedPointed
  <1>10. parties' = Swapped(parties, p, r)
    BY <1>3, <1>8, <1>9 DEF Replaced, Swapped
  <1>11. /\ r.on = p.on /\ r.id = rows[c].party /\ p.id = r.id /\ r.members = p.members \cup {c}
         /\ reload' = reload \ r.members
         /\ Headed(rows, r.id) => Pointed(r)
    BY <1>2, <1>3, <1>4, <1>5, <1>7, <1>8, <1>9
  <1> QED BY <1>4, <1>10, <1>11

\* An object with the same members, or more, keeps everybody housed.
LEMMA HousedStill ==
  ASSUME NEW P, NEW p, NEW r, NEW d, \E t \in P : d \in t.members, d \in p.members => d \in r.members
  PROVE  \E t \in Swapped(P, p, r) : d \in t.members
  <1>1. PICK t \in P : d \in t.members
    OBVIOUS
  <1>2. CASE t = p
    BY <1>1, <1>2 DEF Swapped
  <1>3. CASE t # p
    BY <1>1, <1>3 DEF Swapped
  <1> QED BY <1>2, <1>3

LEMMA WhereLess ==
  ASSUME PartyInv, LeaderInv, UNCHANGED <<rows, where>>, reload' \subseteq reload
  PROVE  Whereabouts'
  <1>1. \A c \in Char : c \in reload' => zone[c] # NoServer
    BY DEF LeaderInv, Whereabouts
  <1> QED BY <1>1, WhereReload DEF LeaderInv

\* What the phases say of the messages.
LEMMA QueuesKept ==
  ASSUME UNCHANGED <<rows, where, outbox, inbox>>
  PROVE  /\ \A i, c \in Char : Alone(Answer(i, c)) => Alone(Answer(i, c))'
         /\ \A n \in Char : Alone(Reload(n)) => Alone(Reload(n))'
         /\ \A n \in Char : Alone(Disband(n)) => Alone(Disband(n))'
         /\ \A n, d \in Char : Alone(ReloadOf(n, d)) => Alone(ReloadOf(n, d))'
         /\ \A n \in Char : Told(n) => Told(n)'
         /\ \A s : Untold(s) => Untold(s)'
         /\ Harmless => Harmless'
         /\ \A c \in Char : Joining(c) => Joining(c)'
  <1>1. \A m : Alone(m) => Alone(m)'
    BY DEF Alone, Sent, Passed
  <1>2. \A i, c \in Char : Alone(Answer(i, c)) => Alone(Answer(i, c))'
    BY DEF Alone, Sent, Passed, Answer
  <1>3. \A n \in Char : Alone(Reload(n)) => Alone(Reload(n))'
    BY DEF Alone, Sent, Passed, Reload
  <1>4. \A n \in Char : Alone(Disband(n)) => Alone(Disband(n))'
    BY DEF Alone, Sent, Passed, Disband
  <1>5. \A n, d \in Char : Alone(ReloadOf(n, d)) => Alone(ReloadOf(n, d))'
    BY DEF Alone, Sent, Passed, ReloadOf
  <1>6. \A n \in Char : Told(n) => Told(n)'
    BY DEF Told, where
  <1>7. /\ \A s : Untold(s) => Untold(s)'
        /\ Harmless => Harmless'
        /\ \A c \in Char : Joining(c) => Joining(c)'
    BY DEF Untold, Harmless, Joining, where
  <1> QED BY <1>2, <1>3, <1>4, <1>5, <1>6, <1>7

\* The object of a character with a row is brought up to date.
LEMMA RejoinStill ==
  ASSUME PartyInv, Phase, NEW c \in Char, c \in reload, zone[c] # NoServer, rows[c] # NoRow, InParty(c),
         Rejoin(c), UNCHANGED <<where, inbox>>
  PROVE  Phase'
  <1>1. rows \in [Char -> RowType] /\ Sound(parties, zone) /\ UNCHANGED <<rows, outbox>>
    BY DEF PartyInv, Rows, Rejoin
  <1>2. PICK i \in Char : i = rows[c].party
    <2>1. rows[c] \in RowType
      BY <1>1
    <2> QED BY <2>1, RowFacts
  <1>3. ASSUME NEW x, Flagged(rows, x), i # x  PROVE  Headed(rows, i)
    BY <1>2, <1>3 DEF Flagged
  <1>4. ASSUME NEW x, Flagged(rows, x), Unique(parties, rows)
        PROVE  \E p \in parties : \E r \in PartyType :
               /\ p \in PartyType /\ c \in p.members
               /\ r.on = p.on /\ r.id = i /\ r.members = p.members
               /\ parties' = Swapped(parties, p, r) /\ reload' = reload \ p.members
               /\ Headed(rows, i) \/ (Pointed(p) /\ p.id = i) => Pointed(r)
               /\ Fresh(p, rows) => Fresh(r, rows)
               /\ (\A d \in p.members : rows[d].party = i) /\ Headed(rows, i) => Fresh(r, rows)
               /\ Unique(parties', rows')
               /\ \A d \in Char : (\E t \in parties : d \in t.members) => \E t \in parties' : d \in t.members
               /\ \A t \in parties' : t = r \/ (t \in parties /\ t # p /\ t.members \cap p.members = {})
    <2>1. PICK p \in parties, r \in PartyType :
           /\ p \in PartyType /\ c \in p.members
           /\ r.on = p.on /\ r.id = i /\ r.members = p.members
           /\ parties' = Swapped(parties, p, r) /\ reload' = reload \ p.members
           /\ Headed(rows, i) \/ (Pointed(p) /\ p.id = i) => Pointed(r)
      BY <1>2, <1>4, RejoinIs
    <2>2. Fresh(p, rows) => Fresh(r, rows)
      BY <1>2, <2>1 DEF Fresh
    <2>3. (\A d \in p.members : rows[d].party = i) /\ Headed(rows, i) => Fresh(r, rows)
      BY <2>1 DEF Fresh
    <2>4. Unique(parties', rows')
      BY <1>1, <1>4, <2>1, SameMembersUnique
    <2>5. \A d \in Char : (\E t \in parties : d \in t.members) => \E t \in parties' : d \in t.members
      BY <2>1, HousedStill
    <2>6. \A t \in parties' : t = r \/ (t \in parties /\ t # p /\ t.members \cap p.members = {})
      BY <1>1, <2>1, SwappedIs DEF Sound
    <2> QED BY <2>1, <2>2, <2>3, <2>4, <2>5, <2>6
  <1>5. /\ \A j, d \in Char : Alone(Answer(j, d)) => Alone(Answer(j, d))'
        /\ \A n \in Char : Alone(Reload(n)) => Alone(Reload(n))'
        /\ \A n \in Char : Alone(Disband(n)) => Alone(Disband(n))'
        /\ \A n, d \in Char : Alone(ReloadOf(n, d)) => Alone(ReloadOf(n, d))'
        /\ \A n \in Char : Told(n) => Told(n)'
        /\ \A s : Untold(s) => Untold(s)'
        /\ Harmless => Harmless'
        /\ \A d \in Char : Joining(d) => Joining(d)'
    BY <1>1, QueuesKept
  <1>6. ASSUME NEW x, Still(x), Unique(parties', rows'),
               \A d \in Char : (\E t \in parties : d \in t.members) => \E t \in parties' : d \in t.members
        PROVE  Still(x)'
    <2>1. Housed(parties', rows')
      BY <1>1, <1>6 DEF Still, Housed
    <2> QED BY <1>1, <1>6, <2>1 DEF Still, Ordered, where
  <1>7. ASSUME NEW x, Flagged(rows, x), Unique(parties, rows), AllFresh(parties, rows)
        PROVE  AllFresh(parties', rows')
    <2>1. PICK p \in parties, r \in PartyType :
           /\ Fresh(p, rows) => Fresh(r, rows)
           /\ \A t \in parties' : t = r \/ (t \in parties /\ t # p /\ t.members \cap p.members = {})
      BY <1>4, <1>7
    <2> QED BY <1>1, <1>7, <2>1 DEF AllFresh
  <1>8. CASE Calm
    <2>1. Flagged(rows, NoChar) /\ Unique(parties, rows) /\ AllFresh(parties, rows)
      BY <1>8 DEF Calm, Ordered
    <2>2. PICK p \in parties :
           /\ reload' = reload \ p.members /\ Unique(parties', rows')
           /\ \A d \in Char : (\E t \in parties : d \in t.members) => \E t \in parties' : d \in t.members
      BY <1>4, <2>1
    <2>3. Covered'
      <3>1. ASSUME NEW d \in Char, rows'[d] # NoRow, zone'[d] # NoServer, ~InParty(d)'
            PROVE  d \in reload' \/ (d \notin moving' /\ Joining(d)')
        <4>1. ~InParty(d) /\ d \notin p.members
          BY <2>2, <3>1 DEF InParty
        <4>2. d \in reload \/ (d \notin moving /\ Joining(d))
          BY <1>1, <1>8, <3>1, <4>1 DEF Calm, Covered, where
        <4> QED BY <1>5, <2>2, <4>1, <4>2 DEF where
      <3> QED BY <3>1 DEF Covered
    <2>4. Calm'
      BY <1>1, <1>5, <1>7, <1>8, <2>1, <2>2, <2>3 DEF Calm, Ordered
    <2> QED BY <2>4 DEF Phase
  <1>9. CASE Answering
    <2>1. Flagged(rows, NoChar) /\ Unique(parties, rows) /\ AllFresh(parties, rows) /\ Still(NoChar)
      BY <1>9 DEF Answering, Still, Ordered
    <2>2. Still(NoChar)' /\ AllFresh(parties, rows)'
      BY <1>4, <1>6, <1>7, <2>1
    <2>3. Answering'
      BY <1>5, <1>9, <2>2 DEF Answering, where
    <2> QED BY <2>3 DEF Phase
  <1>10. ASSUME NEW n \in Char, Disbandment(n)  PROVE  Phase'
    <2>1. Flagged(rows, n) /\ Unique(parties, rows) /\ AllFresh(parties, rows) /\ Still(n)
      BY <1>10 DEF Disbandment, Still, Ordered
    <2>2. Still(n)' /\ AllFresh(parties, rows)'
      BY <1>4, <1>6, <1>7, <2>1
    <2>3. \A d \in Char : rows'[d].party = n => ~ rows'[d].leader /\ Untold(zone[d])'
      BY <1>1, <1>5, <1>10 DEF Disbandment, where, Untold
    <2>4. Disbandment(n)'
      BY <1>5, <1>10, <2>2, <2>3 DEF Disbandment
    <2> QED BY <2>4 DEF Phase
  <1>11. ASSUME NEW n \in Char, Renaming(n)  PROVE  Phase'
    <2>1. Flagged(rows, NoChar) /\ Unique(parties, rows) /\ Still(NoChar)
      BY <1>11 DEF Renaming, Still, Ordered
    <2>2. Headed(rows, i)
      BY <1>3, <2>1, PartyAssumption
    <2>3. PICK p \in parties, r \in PartyType :
           /\ p \in PartyType /\ c \in p.members /\ reload' = reload \ p.members
           /\ Fresh(p, rows) => Fresh(r, rows)
           /\ (\A d \in p.members : rows[d].party = i) /\ Headed(rows, i) => Fresh(r, rows)
           /\ Unique(parties', rows')
           /\ \A d \in Char : (\E t \in parties : d \in t.members) => \E t \in parties' : d \in t.members
           /\ \A t \in parties' : t = r \/ (t \in parties /\ t # p /\ t.members \cap p.members = {})
      BY <1>4, <2>1
    <2>4. Fresh(r, rows)
      <3>1. CASE Fresh(p, rows)
        BY <2>3, <3>1
      <3>2. CASE Stale(p, n)
        <4>1. \A d \in p.members : rows[d].party = i
          BY <1>2, <2>3, <3>2 DEF Stale
        <4> QED BY <2>2, <2>3, <4>1
      <3> QED BY <1>11, <3>1, <3>2 DEF Renaming
    <2>5. ASSUME NEW t \in parties'  PROVE  Fresh(t, rows)' \/ Stale(t, n)'
      <3>1. CASE t = r
        BY <1>1, <2>4, <3>1
      <3>2. CASE t \in parties /\ t.members \cap p.members = {}
        <4>1. CASE Fresh(t, rows)
          BY <1>1, <4>1
        <4>2. CASE Stale(t, n)
          BY <1>1, <1>5, <2>3, <3>2, <4>2 DEF Stale
        <4> QED BY <1>11, <3>2, <4>1, <4>2 DEF Renaming
      <3> QED BY <2>3, <3>1, <3>2
    <2>6. Still(NoChar)'
      BY <1>6, <2>1, <2>3
    <2>7. Renaming(n)'
      BY <1>5, <1>11, <2>5, <2>6 DEF Renaming
    <2> QED BY <2>7 DEF Phase
  <1>12. ASSUME NEW n \in Char, NEW d \in Char, Kicking(n, d)  PROVE  Phase'
    <2>1. Flagged(rows, NoChar) /\ Unique(parties, rows) /\ Still(NoChar)
      BY <1>12 DEF Kicking, Still, Ordered
    <2>2. PICK p \in parties, r \in PartyType :
           /\ p \in PartyType /\ c \in p.members /\ reload' = reload \ p.members
           /\ Fresh(p, rows) => Fresh(r, rows)
           /\ Unique(parties', rows')
           /\ \A e \in Char : (\E t \in parties : e \in t.members) => \E t \in parties' : e \in t.members
           /\ \A t \in parties' : t = r \/ (t \in parties /\ t # p /\ t.members \cap p.members = {})
      BY <1>4, <2>1
    <2>3. Fresh(r, rows)
      <3>1. ~Outdated(p, n, d)
        BY <2>2 DEF Outdated
      <3> QED BY <1>12, <2>2, <3>1 DEF Kicking
    <2>4. ASSUME NEW t \in parties'  PROVE  Fresh(t, rows)' \/ Outdated(t, n, d)'
      <3>1. CASE t = r
        BY <1>1, <2>3, <3>1
      <3>2. CASE t \in parties /\ t.members \cap p.members = {}
        <4>1. CASE Fresh(t, rows)
          BY <1>1, <4>1
        <4>2. CASE Outdated(t, n, d)
          BY <1>1, <1>5, <2>2, <3>2, <4>2 DEF Outdated
        <4> QED BY <1>12, <3>2, <4>1, <4>2 DEF Kicking
      <3> QED BY <2>2, <3>1, <3>2
    <2>5. Still(NoChar)'
      BY <1>6, <2>1, <2>2
    <2>6. Kicking(n, d)'
      BY <1>5, <1>12, <2>4, <2>5 DEF Kicking
    <2> QED BY <2>6 DEF Phase
  <1> QED BY <1>8, <1>9, <1>10, <1>11, <1>12 DEF Phase

\* Who is in no object and has a row: only when no change is being told.
LEMMA EnterCalm ==
  ASSUME PartyInv, Phase, NEW c \in Char, zone[c] # NoServer, rows[c] # NoRow, ~InParty(c),
         Rejoin(c), UNCHANGED <<where, inbox>>
  PROVE  Calm'
  <1>1. rows \in [Char -> RowType] /\ Sound(parties, zone) /\ UNCHANGED <<rows, outbox>>
    BY DEF PartyInv, Rows, Rejoin
  <1>2. Calm
    <2>1. ASSUME NEW x, Still(x)  PROVE  FALSE
      BY <2>1, InPartyIs DEF Still, Housed
    <2> QED BY <2>1 DEF Phase, Answering, Renaming, Kicking, Disbandment
  <1>3. Flagged(rows, NoChar) /\ Unique(parties, rows) /\ AllFresh(parties, rows)
    BY <1>2 DEF Calm, Ordered
  <1>4. PICK p \in PartyType, r \in PartyType :
         /\ p \in parties \/ (p.members = {} /\ \A t \in parties : ~ (t.on = p.on /\ t.id = p.id))
         /\ r.on = p.on /\ r.id = rows[c].party /\ p.id = r.id /\ r.members = p.members \cup {c}
         /\ parties' = Swapped(parties, p, r) /\ reload' = reload \ r.members
         /\ Headed(rows, r.id) => Pointed(r)
    BY <1>3, EnterIs
  <1>5. Fresh(r, rows)
    <2>1. Headed(rows, r.id)
      BY <1>3, <1>4, PartyFields, PartyAssumption DEF Flagged
    <2>2. \A d \in p.members : rows[d].party = r.id
      BY <1>3, <1>4 DEF AllFresh, Fresh
    <2> QED BY <1>4, <2>1, <2>2 DEF Fresh
  <1>6. Unique(parties', rows') /\ AllFresh(parties', rows')
    <2>1. Unique(Swapped(parties, p, r), rows)
      BY <1>1, <1>3, <1>4, <1>5, EnterUnique
    <2>2. AllFresh(Swapped(parties, p, r), rows)
      BY <1>3, <1>5, SwappedFresh
    <2> QED BY <1>1, <1>4, <2>1, <2>2
  <1>7. ASSUME NEW d \in Char, ~InParty(d)'  PROVE  ~InParty(d) /\ d \notin r.members
    <2>1. d \notin r.members
      BY <1>4, <1>7 DEF InParty, Swapped
    <2>2. ~InParty(d)
      BY <1>4, <1>7, HousedStill DEF InParty
    <2> QED BY <2>1, <2>2
  <1>8. Harmless' /\ \A d \in Char : Joining(d) => Joining(d)'
    BY <1>1, <1>2, QueuesKept DEF Calm
  <1>9. Covered'
    <2>1. ASSUME NEW d \in Char, rows'[d] # NoRow, zone'[d] # NoServer, ~InParty(d)'
          PROVE  d \in reload' \/ (d \notin moving' /\ Joining(d)')
      <3>1. ~InParty(d) /\ d \notin r.members
        BY <1>7, <2>1
      <3>2. d \in reload \/ (d \notin moving /\ Joining(d))
        BY <1>1, <1>2, <2>1, <3>1 DEF Calm, Covered, where
      <3> QED BY <1>4, <1>8, <3>1, <3>2 DEF where
    <2> QED BY <2>1 DEF Covered
  <1> QED BY <1>1, <1>3, <1>6, <1>8, <1>9 DEF Calm, Ordered

\* A character without a row and without an object has nothing to look at.
LEMMA IdleTick ==
  ASSUME PartyInv, Phase, NEW c \in Char, rows[c] = NoRow, ~InParty(c), reload' = reload \ {c},
         UNCHANGED <<rows, where, parties, outbox, inbox>>
  PROVE  Phase'
  <1>1. /\ \A j, d \in Char : Alone(Answer(j, d)) => Alone(Answer(j, d))'
        /\ \A n \in Char : Alone(Reload(n)) => Alone(Reload(n))'
        /\ \A n \in Char : Alone(Disband(n)) => Alone(Disband(n))'
        /\ \A n, d \in Char : Alone(ReloadOf(n, d)) => Alone(ReloadOf(n, d))'
        /\ \A n \in Char : Told(n) => Told(n)'
        /\ \A s : Untold(s) => Untold(s)'
        /\ Harmless => Harmless'
        /\ \A d \in Char : Joining(d) => Joining(d)'
    BY QueuesKept
  <1>2. \A p \in parties : c \notin p.members
    BY InPartyIs
  <1>3. \A x : Still(x) => Still(x)'
    BY DEF Still, where
  <1>4. CASE Calm
    <2>1. Covered'
      <3>1. ASSUME NEW d \in Char, rows'[d] # NoRow, zone'[d] # NoServer, ~InParty(d)'
            PROVE  d \in reload' \/ (d \notin moving' /\ Joining(d)')
        <4>1. d # c /\ ~InParty(d)
          BY <3>1 DEF InParty
        <4>2. d \in reload \/ (d \notin moving /\ Joining(d))
          BY <1>4, <3>1, <4>1 DEF Calm, Covered, where
        <4> QED BY <1>1, <4>1, <4>2 DEF where
      <3> QED BY <3>1 DEF Covered
    <2>2. Calm'
      BY <1>1, <1>4, <2>1 DEF Calm
    <2> QED BY <2>2 DEF Phase
  <1>5. CASE Answering
    <2>1. Answering'
      BY <1>1, <1>3, <1>5 DEF Answering, where
    <2> QED BY <2>1 DEF Phase
  <1>6. ASSUME NEW n \in Char, Disbandment(n)  PROVE  Phase'
    <2>1. \A d \in Char : rows'[d].party = n => ~ rows'[d].leader /\ Untold(zone[d])'
      BY <1>1, <1>6 DEF Disbandment, where, Untold
    <2>2. Disbandment(n)'
      BY <1>1, <1>3, <1>6, <2>1 DEF Disbandment
    <2> QED BY <2>2 DEF Phase
  <1>7. ASSUME NEW n \in Char, Renaming(n)  PROVE  Phase'
    <2>1. \A p \in parties : Stale(p, n) => Stale(p, n)'
      BY <1>1, <1>2 DEF Stale
    <2>2. Renaming(n)'
      BY <1>1, <1>3, <1>7, <2>1 DEF Renaming
    <2> QED BY <2>2 DEF Phase
  <1>8. ASSUME NEW n \in Char, NEW d \in Char, Kicking(n, d)  PROVE  Phase'
    <2>1. \A p \in parties : Outdated(p, n, d) => Outdated(p, n, d)'
      BY <1>1, <1>2 DEF Outdated
    <2>2. Kicking(n, d)'
      BY <1>1, <1>3, <1>8, <2>1 DEF Kicking
    <2> QED BY <2>2 DEF Phase
  <1> QED BY <1>4, <1>5, <1>6, <1>7, <1>8 DEF Phase

\* Only who was put out of the party has lost the row and not the object.
LEMMA DelMemberStill ==
  ASSUME PartyInv, Phase, NEW c \in Char, rows[c] = NoRow, InParty(c), DelMember(c),
         UNCHANGED <<where, inbox>>
  PROVE  Phase' /\ UNCHANGED rows /\ reload' \subseteq reload
  <1>1. PICK p \in PartyType : p = PParty(c) /\ p \in parties /\ c \in p.members
    BY Member
  <1>2. rows \in [Char -> RowType] /\ Sound(parties, zone) /\ p.members \subseteq Char /\ p.id \in Char
    BY <1>1, PartyFields DEF PartyInv, Rows
  <1>3. ~Fresh(p, rows)
    BY <1>1, <1>2, FreshMembers
  <1>4. ASSUME AllFresh(parties, rows)  PROVE  FALSE
    BY <1>1, <1>3, <1>4 DEF AllFresh
  <1>5. ASSUME NEW n \in Char, Renaming(n)  PROVE  FALSE
    <2>1. Stale(p, n)
      BY <1>1, <1>3, <1>5 DEF Renaming
    <2>2. rows[c].party = n
      BY <1>1, <2>1 DEF Stale
    <2> QED BY <2>2, PartyRow
  <1>6. PICK n \in Char, d \in Char : Kicking(n, d)
    BY <1>4, <1>5 DEF Phase, Calm, Answering, Disbandment
  <1>7. /\ Still(NoChar) /\ Alone(ReloadOf(n, d)) /\ n # d
        /\ Flagged(rows, NoChar) /\ Unique(parties, rows) /\ Housed(parties, rows)
        /\ \A t \in parties : Fresh(t, rows) \/ Outdated(t, n, d)
    BY <1>6 DEF Kicking, Still, Ordered
  <1>8. Outdated(p, n, d)
    BY <1>1, <1>3, <1>7
  <1>9. c = d
    <2>1. ASSUME c # d  PROVE  FALSE
      <3>1. rows[c].party = n
        BY <1>1, <1>8, <2>1 DEF Outdated
      <3> QED BY <3>1, PartyRow
    <2> QED BY <2>1
  <1>10. ~Leads(c)
    <2>1. p.leader # c
      BY <1>7, <1>8, <1>9, PartyAssumption DEF Outdated, Pointed
    <2> QED BY <1>1, <2>1 DEF Leads
  <1>11. PICK ms \in SUBSET Char : ms = p.members \ {c}
    BY <1>2
  <1>12. PICK q \in PartyType : q = [p EXCEPT !.members = ms] /\ q.on = p.on /\ q.id = p.id /\ q.members = ms
    BY NewMembers
  <1>13. PICK r \in PartyType :
          /\ r = Refreshed(q, rows) /\ r.on = q.on /\ r.id = q.id /\ r.members = q.members
          /\ Headed(rows, q.id) \/ Pointed(q) => Pointed(r)
    BY <1>2, <1>7, RefreshedPointed
  <1>14. /\ parties' = Replaced(p, Refreshed(q, rows)) /\ UNCHANGED <<rows, outbox>>
         /\ reload' = reload \ p.members
    BY <1>1, <1>10, <1>11, <1>12 DEF DelMember
  <1>15. parties' = Swapped(parties, p, r)
    BY <1>13, <1>14 DEF Replaced, Swapped
  <1>16. Fresh(r, rows)
    <2>1. \A e \in r.members : rows[e].party = r.id
      BY <1>8, <1>9, <1>11, <1>12, <1>13 DEF Outdated
    <2>2. PICK f \in p.members : f # d
      BY <1>8 DEF Outdated
    <2>3. rows[f].party = q.id /\ q.id \in Char
      BY <1>2, <1>8, <1>12, <2>2 DEF Outdated
    <2>4. Headed(rows, q.id)
      BY <1>2, <1>7, <2>2, <2>3, NotHeaded
    <2> QED BY <1>13, <2>1, <2>4 DEF Fresh
  <1>17. Unique(parties', rows')
    <2>1. r.members \subseteq p.members /\ r.on = p.on
      BY <1>11, <1>12, <1>13
    <2> QED BY <1>1, <1>7, <1>14, <1>15, <2>1, SameMembersUnique
  <1>18. Housed(parties', rows')
    <2>1. ASSUME NEW e \in Char, rows[e] # NoRow  PROVE  \E t \in parties' : e \in t.members
      <3>1. \E t \in parties : e \in t.members
        BY <1>7, <2>1 DEF Housed
      <3>2. e \in p.members => e \in r.members
        BY <1>11, <1>12, <1>13, <2>1
      <3>3. \E t \in Swapped(parties, p, r) : e \in t.members
        BY <3>1, <3>2, HousedStill
      <3> QED BY <1>15, <3>3
    <2> QED BY <1>14, <2>1 DEF Housed
  <1>19. Still(NoChar)'
    BY <1>7, <1>14, <1>17, <1>18 DEF Still, Ordered, where
  <1>20. ASSUME NEW t \in parties'  PROVE  Fresh(t, rows)'
    <2>1. t = r \/ (t \in parties /\ t # p)
      BY <1>15, SwappedIs
    <2>2. CASE t = r
      BY <1>14, <1>16, <2>2
    <2>3. CASE t \in parties /\ t # p
      <3>1. c \notin t.members
        BY <1>1, <1>2, <2>3 DEF Sound
      <3>2. Fresh(t, rows)
        BY <1>7, <1>9, <2>3, <3>1 DEF Outdated
      <3> QED BY <1>14, <3>2
    <2> QED BY <2>1, <2>2, <2>3
  <1>21. Alone(ReloadOf(n, d))'
    BY <1>7, <1>14, QueuesKept
  <1>22. Kicking(n, d)'
    BY <1>7, <1>19, <1>20, <1>21 DEF Kicking
  <1> QED BY <1>14, <1>22 DEF Phase

LEMMA PostTickLeader ==
  ASSUME PartyInv, LeaderInv, NEW c \in Char, PostTick(c)
  PROVE  LeaderInv'
  <1>1. /\ c \in reload /\ zone[c] # NoServer /\ UNCHANGED <<where, pending, inbox>>
        /\ Phase /\ reload \subseteq Char
    BY DEF PostTick, LeaderInv, PartyInv, Places
  <1>2. CASE rows[c] # NoRow
    <2>1. Rejoin(c) /\ UNCHANGED rows
      BY <1>2 DEF PostTick, Rejoin
    <2>2. reload' \subseteq reload
      BY <1>1, <1>2, <2>1, RejoinSound
    <2>3. Whereabouts'
      BY <1>1, <2>1, <2>2, WhereLess
    <2>4. Phase'
      <3>1. CASE InParty(c)
        BY <1>1, <1>2, <2>1, <3>1, RejoinStill
      <3>2. CASE ~InParty(c)
        <4>1. Calm'
          BY <1>1, <1>2, <2>1, <3>2, EnterCalm
        <4> QED BY <4>1 DEF Phase
      <3> QED BY <3>1, <3>2
    <2> QED BY <2>3, <2>4 DEF LeaderInv
  <1>3. CASE rows[c] = NoRow /\ InParty(c)
    <2>1. DelMember(c)
      BY <1>3 DEF PostTick
    <2>2. Phase' /\ UNCHANGED rows /\ reload' \subseteq reload
      BY <1>1, <1>3, <2>1, DelMemberStill
    <2>3. Whereabouts'
      BY <1>1, <2>2, WhereLess
    <2> QED BY <2>2, <2>3 DEF LeaderInv
  <1>4. CASE rows[c] = NoRow /\ ~InParty(c)
    <2>1. reload' = reload \ {c} /\ UNCHANGED <<rows, parties, outbox>>
      BY <1>4 DEF PostTick
    <2>2. Phase'
      BY <1>1, <1>4, <2>1, IdleTick
    <2>3. Whereabouts'
      BY <1>1, <2>1, WhereLess
    <2> QED BY <2>2, <2>3 DEF LeaderInv
  <1> QED BY <1>2, <1>3, <1>4

-----------------------------------------------------------------------------
LEMMA LeaderInit == Init => LeaderInv
  <1> SUFFICES ASSUME Init PROVE LeaderInv
    OBVIOUS
  <1>1. /\ \A c \in Char : rows[c] = NoRow /\ zone[c] = server_addr[c]
        /\ moving = {} /\ parties = {} /\ reload = {}
        /\ \A s \in Server : outbox[s] = <<>> /\ inbox[s] = <<>>
    BY DEF Init
  <1>2. Whereabouts
    BY <1>1 DEF Whereabouts
  <1>3. Ordered(parties, rows, NoChar) /\ AllFresh(parties, rows)
    BY <1>1 DEF Ordered, Flagged, Unique, AllFresh, NoRow
  <1>4. Covered /\ Harmless
    BY <1>1 DEF Covered, Harmless
  <1> QED BY <1>2, <1>3, <1>4 DEF LeaderInv, Phase, Calm

LEMMA LeaderStutter ==
  ASSUME LeaderInv, UNCHANGED vars
  PROVE  LeaderInv'
  <1>1. Whereabouts'
    BY DEF LeaderInv, Whereabouts, vars
  <1>2. /\ \A j, d \in Char : Alone(Answer(j, d)) => Alone(Answer(j, d))'
        /\ \A n \in Char : Alone(Reload(n)) => Alone(Reload(n))'
        /\ \A n \in Char : Alone(Disband(n)) => Alone(Disband(n))'
        /\ \A n, d \in Char : Alone(ReloadOf(n, d)) => Alone(ReloadOf(n, d))'
        /\ \A n \in Char : Told(n) => Told(n)'
        /\ \A s : Untold(s) => Untold(s)'
        /\ Harmless => Harmless'
        /\ \A d \in Char : Joining(d) => Joining(d)'
    BY QueuesKept DEF vars, where
  <1>3. \A x : Still(x) => Still(x)'
    BY DEF Still, vars
  <1>4. CASE Calm
    <2>1. Covered'
      BY <1>2, <1>4 DEF Calm, Covered, InParty, vars
    <2>2. Calm'
      BY <1>2, <1>4, <2>1 DEF Calm, vars
    <2> QED BY <1>1, <2>2 DEF LeaderInv, Phase
  <1>5. CASE Answering
    <2>1. Answering'
      BY <1>2, <1>3, <1>5 DEF Answering, vars
    <2> QED BY <1>1, <2>1 DEF LeaderInv, Phase
  <1>6. ASSUME NEW n \in Char, Disbandment(n)  PROVE  LeaderInv'
    <2>1. \A d \in Char : rows'[d].party = n => ~ rows'[d].leader /\ Untold(zone[d])'
      BY <1>6 DEF Disbandment, vars, Untold
    <2>2. Disbandment(n)'
      BY <1>2, <1>3, <1>6, <2>1 DEF Disbandment, vars
    <2> QED BY <1>1, <2>2 DEF LeaderInv, Phase
  <1>7. ASSUME NEW n \in Char, Renaming(n)  PROVE  LeaderInv'
    <2>1. \A p \in parties : Stale(p, n) => Stale(p, n)'
      BY <1>2 DEF Stale, vars
    <2>2. Renaming(n)'
      BY <1>2, <1>3, <1>7, <2>1 DEF Renaming, vars
    <2> QED BY <1>1, <2>2 DEF LeaderInv, Phase
  <1>8. ASSUME NEW n \in Char, NEW d \in Char, Kicking(n, d)  PROVE  LeaderInv'
    <2>1. \A p \in parties : Outdated(p, n, d) => Outdated(p, n, d)'
      BY <1>2 DEF Outdated, vars
    <2>2. Kicking(n, d)'
      BY <1>2, <1>3, <1>8, <2>1 DEF Kicking, vars
    <2> QED BY <1>1, <2>2 DEF LeaderInv, Phase
  <1> QED BY <1>4, <1>5, <1>6, <1>7, <1>8 DEF LeaderInv, Phase

LEMMA LeaderNext ==
  ASSUME Trouble = {}
  PROVE  PartyInv /\ LeaderInv /\ [Next]_vars => LeaderInv'
  <1> SUFFICES ASSUME PartyInv, LeaderInv, [Next]_vars PROVE LeaderInv'
    OBVIOUS
  <1> QED BY LeaderStutter, PlayerLeader, TravelLeader, DeliverLeader, PostTickLeader DEF Next

LEMMA LeaderIsOne ==
  ASSUME PartyInv, LeaderInv
  PROVE  OneLeader
  <1>1. rows \in [Char -> RowType] /\ Whereabouts
    BY DEF PartyInv, Rows, LeaderInv
  <1>2. PICK x \in Char \cup {NoChar} : Flagged(rows, x) /\ (x = NoChar \/ (x \in Char /\ Disbandment(x)))
    BY DEF LeaderInv, Phase, Calm, Answering, Renaming, Kicking, Disbandment, Still, Ordered
  <1>3. ASSUME NEW c \in Char, rows[c] # NoRow, NEW id, id = rows[c].party,
               NEW leaders, leaders = {d \in RowsOf(rows, id) : rows[d].leader}
        PROVE  leaders = {id} \/ (leaders = {} /\ Disbanding(id))
    <2>1. id \in Char
      <3>1. rows[c] \in RowType
        BY <1>1
      <3> QED BY <1>3, <3>1, RowFacts
    <2>2. \A d \in leaders : d = id
      BY <1>2, <1>3 DEF RowsOf, Flagged
    <2>3. CASE id # x
      <3>1. Headed(rows, id)
        BY <1>2, <1>3, <2>3 DEF Flagged
      <3>2. rows[id].party = id /\ rows[id].leader = TRUE
        BY <3>1 DEF Headed
      <3>3. id \in leaders
        BY <1>3, <2>1, <3>2 DEF RowsOf
      <3> QED BY <2>2, <3>3
    <2>4. CASE id = x
      <3>1. Disbandment(id)
        BY <1>2, <2>1, <2>4, PartyAssumption
      <3>2. leaders = {}
        BY <1>3, <3>1 DEF Disbandment, RowsOf
      <3>3. zone[c] \in Server
        BY <1>1, <1>3, <3>1, StillThere DEF Disbandment
      <3>4. Untold(zone[c])
        BY <1>3, <3>1 DEF Disbandment
      <3>5. PICK m : m = Disband(id) /\ Alone(m) /\ m.type = "disband" /\ m.party = id
        BY <3>1 DEF Disbandment, Disband
      <3>6. ASSUME NEW s \in Server, NEW w, w.type = "disband", w.party = id,
                   outbox[s] = <<w>> \/ inbox[s] = <<w>>
            PROVE  Disbanding(id)
        <4>1. 1 \in DOMAIN <<w>> /\ <<w>>[1] = w
          OBVIOUS
        <4>2. w \in Range(outbox[s]) \cup Range(inbox[s])
          BY <3>6, <4>1 DEF Range
        <4> QED BY <3>6, <4>2 DEF Disbanding
      <3>7. ASSUME Sent(m)  PROVE  Disbanding(id)
        BY <3>5, <3>6, <3>7 DEF Sent
      <3>8. ASSUME Passed(m)  PROVE  Disbanding(id)
        <4>1. inbox[zone[c]] # <<>>
          BY <3>4, <3>8 DEF Untold, Passed
        <4>2. PICK f \in Char : inbox[zone[c]] = <<Wrap(m, f)>>
          BY <3>3, <3>8, <4>1 DEF Passed
        <4>3. PICK w : w = Wrap(m, f)
          OBVIOUS
        <4>4. w.type = "disband" /\ w.party = id
          BY <3>5, <4>3 DEF Wrap
        <4>5. inbox[zone[c]] = <<w>>
          BY <4>2, <4>3
        <4> QED BY <3>3, <3>6, <4>4, <4>5
      <3>9. Disbanding(id)
        BY <3>5, <3>7, <3>8 DEF Alone
      <3> QED BY <3>2, <3>9
    <2> QED BY <2>3, <2>4
  <1> QED BY <1>3 DEF OneLeader

LEMMA SettledAgree ==
  ASSUME PartyInv, LeaderInv
  PROVE  Agree
  <1> SUFFICES ASSUME Settled PROVE Agree
    BY DEF Agree
  <1>1. /\ Perfect /\ rows \in [Char -> RowType] /\ Sound(parties, zone)
        /\ Unique(parties, rows) /\ AllFresh(parties, rows) /\ Housed(parties, rows) /\ Flagged(rows, NoChar)
    BY SettledPerfect DEF Perfect, Ordered, PartyInv, Rows
  <1> DEFINE Shown(p) == [p EXCEPT !.leader = IF @ = Gone THEN NoChar ELSE @]
             Due(s, id) == [on |-> s, id |-> id, leader |-> IF zone[id] = s THEN id ELSE NoChar,
                            members |-> {c \in Here(s) : rows[c].party = id}]
             Ids(s) == {rows[c].party : c \in Here(s)} \ {NoChar}
  <1>2. ASSUME NEW p \in parties
        PROVE  Shown(p) = Due(p.on, p.id) /\ p.id \in Ids(p.on)
    <2>1. p \in PartyType /\ Fresh(p, rows) /\ p.id \in Char /\ p.members \subseteq Char /\ p.on \in Server
          /\ \A c \in p.members : zone[c] = p.on /\ rows[c].party = p.id
      BY <1>1, PartyFields DEF Sound, AllFresh, Fresh
    <2>2. PICK f \in p.members : TRUE
      BY <1>1 DEF Sound
    <2>3. p.id \in Ids(p.on)
      BY <2>1, <2>2, PartyAssumption DEF Here
    <2>4. ASSUME NEW c \in Char, zone[c] = p.on, rows[c].party = p.id  PROVE  c \in p.members
      <3>1. rows[c] # NoRow
        BY <2>1, <2>4, PartyRow
      <3>2. PICK r \in parties : c \in r.members
        BY <1>1, <3>1 DEF Housed
      <3>3. r.on = p.on
        BY <1>1, <2>4, <3>2 DEF Sound
      <3>4. r = p
        BY <1>1, <2>1, <2>2, <2>4, <3>1, <3>2, <3>3 DEF Unique
      <3> QED BY <3>2, <3>4
    <2>5. p.members = {c \in Here(p.on) : rows[c].party = p.id}
      BY <2>1, <2>4 DEF Here
    <2>6. rows[p.id].party = p.id
      <3>1. PICK i \in Char, e \in Char : i = p.id /\ rows[e].party = i
        BY <2>1, <2>2
      <3>2. rows[i].party = i
        BY <1>1, <3>1, NotHeaded
      <3> QED BY <3>1, <3>2
    <2>7. zone[p.id] = p.on <=> p.id \in p.members
      BY <2>1, <2>4, <2>6
    <2>8. PICK l : l = IF p.leader = Gone THEN NoChar ELSE p.leader
      OBVIOUS
    <2>9. l = IF zone[p.id] = p.on THEN p.id ELSE NoChar
      BY <2>1, <2>7, <2>8, PartyFields, PartyAssumption DEF Fresh, Pointed
    <2>10. Shown(p) = [p EXCEPT !.leader = l]
      BY <2>8
    <2>11. [p EXCEPT !.leader = l] = [on |-> p.on, id |-> p.id, leader |-> l, members |-> p.members]
      BY <2>1 DEF PartyType
    <2> QED BY <2>3, <2>5, <2>9, <2>10, <2>11
  <1>3. ASSUME NEW s \in Server, NEW id \in Ids(s)
        PROVE  \E p \in parties : p.on = s /\ p.id = id
    <2>1. PICK c \in Char : zone[c] = s /\ id = rows[c].party /\ id # NoChar
      BY DEF Here
    <2>2. rows[c] # NoRow
      BY <2>1 DEF NoRow
    <2>3. PICK p \in parties : c \in p.members
      BY <1>1, <2>2 DEF Housed
    <2> QED BY <1>1, <2>1, <2>3 DEF Sound, AllFresh, Fresh
  <1> HIDE DEF Shown, Due, Ids
  <1>4. ASSUME NEW s \in Server
        PROVE  {Shown(p) : p \in {q \in parties : q.on = s}} = {Due(s, id) : id \in Ids(s)}
    <2>1. ASSUME NEW p \in parties, p.on = s  PROVE  \E id \in Ids(s) : Shown(p) = Due(s, id)
      BY <1>2, <2>1
    <2>2. ASSUME NEW id \in Ids(s)  PROVE  \E p \in parties : p.on = s /\ Due(s, id) = Shown(p)
      <3>1. PICK p \in parties : p.on = s /\ p.id = id
        BY <1>3
      <3> QED BY <1>2, <3>1
    <2> QED BY <2>1, <2>2
  <1> QED BY <1>4 DEF Agree, Shown, Due, Ids

\* A party has one leader, its namesake, unless it is being disbanded: where
\* players wait for the last change to be told before they make the next, and
\* characters come and log in meanwhile (CParty::SetLeader, RemovePartyLeader,
\* DisbandParty; charutils::ReloadParty).
THEOREM OneLeaderAlways ==
  ASSUME Trouble = {}
  PROVE  Spec => []OneLeader
  <1>1. PartyInv /\ LeaderInv => OneLeader
    BY LeaderIsOne
  <1>2. PartyInv /\ LeaderInv /\ [Next]_vars => LeaderInv'
    BY LeaderNext
  <1> QED BY <1>1, <1>2, PartyInit, PartyNext, LeaderInit, PTL DEF Spec

\* Every server shows the members that the rows give it, in one object each with
\* the right name and leader, as soon as nothing is under way and nobody is
\* between two zones: in the same circumstances.
THEOREM AgreeAlways ==
  ASSUME Trouble = {}
  PROVE  Spec => []Agree
  <1>1. PartyInv /\ LeaderInv => Agree
    BY SettledAgree
  <1>2. PartyInv /\ LeaderInv /\ [Next]_vars => LeaderInv'
    BY LeaderNext
  <1> QED BY <1>1, <1>2, PartyInit, PartyNext, LeaderInit, PTL DEF Spec
=============================================================================
