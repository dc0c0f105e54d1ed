------------------------------- MODULE Party -------------------------------
(***************************************************************************)
(* Parties of characters who play on several map servers.  The rows of      *)
(* accounts_parties say who is in which party and who leads it; each server *)
(* keeps a CParty of its own with the members it has in its zones, changes   *)
(* the rows and tells the other servers through the relay of the login      *)
(* server to look at the rows again.                                        *)
(*                                                                          *)
(* A handler, a step of the message thread and a PostTick are each one       *)
(* step: the statements of two servers are not interleaved within them.     *)
(* Alliances, level sync and the quartermaster are left out, and so is the   *)
(* invitation of a whole party, which makes an alliance.                    *)
(***************************************************************************)
EXTENDS Naturals, Sequences, FiniteSets, Functions

CONSTANTS
    Char,       \* charids; a party is called after its leader
    Server,     \* map servers
    Six,        \* how many members a party may have
    Trouble,    \* the circumstances that may occur (see the actions)
    MaxMessages,\* bound: messages under way when somebody acts
    MaxInvites, \* bound: invitations not answered yet
    NoChar,     \* 0, or the null pointer
    NoServer,
    Gone        \* a pointer to an entity that has left the zone

Troubles == {"far_kick", "quick", "quick_zone", "crash_zoning"}

ASSUME PartyAssumption ==
    /\ Char \subseteq Nat /\ Six \in Nat \ {0}
    /\ NoChar \notin Char /\ Gone \notin Char /\ NoServer \notin Server
    /\ Trouble \subseteq Troubles

VARIABLES
    rows,        \* accounts_parties, by charid
    server_addr, \* accounts_sessions.server_addr, by charid
    zone,        \* the server in one of whose zones the character's entity is
    moving,      \* characters that have been sent elsewhere and are not there
    parties,     \* the CParty objects of all servers
    reload,      \* m_reloadParty
    pending,     \* InvitePending.id
    outbox,      \* message_queue of each server
    inbox        \* what the relay has passed on to each server

vars == <<rows, server_addr, zone, moving, parties, reload, pending, outbox, inbox>>

where == <<server_addr, zone, moving>>

NoRow == [party |-> NoChar, leader |-> FALSE]

Init ==
    /\ rows = [c \in Char |-> NoRow]
    /\ server_addr \in [Char -> Server]
    /\ zone = server_addr
    /\ moving = {} /\ parties = {} /\ reload = {}
    /\ pending = [c \in Char |-> NoChar]
    /\ outbox = [s \in Server |-> <<>>]
    /\ inbox = [s \in Server |-> <<>>]

-----------------------------------------------------------------------------
(* The rows and the objects.                                               *)

RowsOf(db, id) == {c \in Char : db[c].party = id}

InParty(c) == \E p \in parties : c \in p.members

(* PChar->PParty.                                                          *)
PParty(c) == CHOOSE p \in parties : c \in p.members

Leads(c) == InParty(c) /\ PParty(c).leader = c

Without(db, c) == [db EXCEPT ![c] = NoRow]

(* INSERT: a character that has a row keeps it, and one that has no session *)
(* gets none.                                                               *)
Inserted(db, c, id) ==
    IF db[c] # NoRow \/ server_addr[c] = NoServer THEN db
    ELSE [db EXCEPT ![c] = [party |-> id, leader |-> FALSE]]

(* A variant in error: the old leader keeps the flag.                      *)
LedRowsBoth(db, id, n) ==
    [c \in Char |->
        LET r == IF db[c].party = id THEN [db[c] EXCEPT !.party = n] ELSE db[c]
        IN IF c = n /\ r # NoRow THEN [r EXCEPT !.leader = TRUE] ELSE r]

(* The statements of SetLeader: the party is called after its new leader.  *)
LedRows(db, id, n) ==
    [c \in Char |->
        LET r == IF db[c].party = id THEN [party |-> n, leader |-> FALSE] ELSE db[c]
        IN IF c = n /\ r # NoRow THEN [r EXCEPT !.leader = TRUE] ELSE r]

(* What SetLeader does to the object: a leader elsewhere is a null pointer. *)
Led(p, n) ==
    [p EXCEPT !.id = n, !.leader = IF n \in p.members THEN n ELSE NoChar]

(* RefreshFlags: without a leader's row the pointer stays what it was.     *)
Refreshed(p, db) ==
    LET leader == {c \in RowsOf(db, p.id) : db[c].leader}
    IN IF leader = {} THEN p
       ELSE \* the last one found; with one leader there is no choice
            [p EXCEPT !.leader =
                LET l == CHOOSE c \in leader : TRUE
                IN IF l \in p.members THEN l ELSE NoChar]

(* Object p is now q; one without members is deleted, or nothing finds it.  *)
Replaced(p, q) == (parties \ {p}) \cup (IF q.members = {} THEN {} ELSE {q})

(* zoneutils::GetChar on server s.                                         *)
IsHere(s, c) == zone[c] = s

Send(s, ms) == outbox' = [outbox EXCEPT ![s] = @ \o ms]

Reload(id) == [type |-> "reload", party |-> id, char |-> NoChar]
ReloadOf(id, c) == [type |-> "reload_of", party |-> id, char |-> c]
Disband(id) == [type |-> "disband", party |-> id, char |-> NoChar]

-----------------------------------------------------------------------------
(* The operations of CParty.                                               *)

(* DisbandParty: the rows of the members that are here, and those only; the *)
(* object is called id by now.                                              *)
DisbandParty(p, id, db, told) ==
    /\ parties' = parties \ {p}
    /\ rows' = [c \in Char |-> IF c \in p.members THEN NoRow ELSE db[c]]
    /\ IF told THEN Send(p.on, <<Disband(id)>>) ELSE UNCHANGED outbox

(* The part of RemoveMember for a member that does not lead: object p, as    *)
(* far as it is changed already q, loses c.                                 *)
Erased(p, q, db, c) ==
    /\ parties' = Replaced(p, [q EXCEPT !.members = @ \ {c}])
    /\ rows' = Without(db, c)
    /\ Send(p.on, <<Reload(q.id)>>)

(* RemovePartyLeader: the lead goes to the oldest row without it; rows of    *)
(* the same second are in any order.                                        *)
RemovePartyLeader(c) ==
    LET p == PParty(c)
        others == {d \in RowsOf(rows, p.id) : ~ rows[d].leader}
    IN \/ others = {} /\ DisbandParty(p, p.id, rows, TRUE)
       \/ \E n \in others :
             LET db == LedRows(rows, p.id, n)
             IN IF n = c THEN DisbandParty(p, n, db, TRUE)
                ELSE Erased(p, Led(p, n), db, c)

RemoveMember(c) ==
    IF Leads(c) THEN RemovePartyLeader(c) ELSE Erased(PParty(c), PParty(c), rows, c)

(* The party a character starts: CParty(PEntity).                          *)
Founded(c) == [on |-> zone[c], id |-> c, leader |-> c, members |-> {c}]

FoundedRows(c) == LedRows(Inserted(rows, c, c), c, c)

(* AddMember(PEntity) by the party of i, which i starts if there is none.  *)
AddMember(i, c) ==
    LET p == IF InParty(i) THEN PParty(i) ELSE Founded(i)
        db == IF InParty(i) THEN rows ELSE FoundedRows(i)
    IN /\ parties' = (parties \ {p}) \cup {[p EXCEPT !.members = @ \cup {c}]}
       /\ rows' = Inserted(db, c, p.id)
       /\ Send(p.on, (IF InParty(i) THEN <<>> ELSE <<Reload(i)>>) \o <<Reload(p.id)>>)

-----------------------------------------------------------------------------
(* What players do.                                                        *)

UnderWay ==
    FoldFunction(LAMBDA q, n : n + Len(q), 0, outbox)
        + FoldFunction(LAMBDA q, n : n + Len(q), 0, inbox)

(* Nothing is under way and nobody has the rows still to look at.          *)
Quiet ==
    /\ \A s \in Server : outbox[s] = <<>> /\ inbox[s] = <<>>
    /\ reload = {}

(* "quick": while the servers are still telling each other of the last      *)
(* change; "quick_zone": while somebody is between two zones.               *)
MayAct(c) ==
    /\ zone[c] # NoServer /\ c \notin moving
    /\ UnderWay < MaxMessages
    /\ "quick" \in Trouble \/ Quiet
    /\ "quick_zone" \in Trouble \/ moving = {}

(* 0x06E to a character in a zone of this server, or through the relay.    *)
Invite(c, d) ==
    /\ MayAct(c) /\ c # d
    /\ Cardinality({e \in Char : pending[e] # NoChar}) < MaxInvites
    /\ InParty(c) => Leads(c) /\ Cardinality(PParty(c).members) < Six
    /\ IF IsHere(zone[c], d)
       THEN /\ pending[d] = NoChar /\ ~ InParty(d)
            /\ pending' = [pending EXCEPT ![d] = c]
            /\ UNCHANGED outbox
       ELSE /\ Send(zone[c], <<[type |-> "invite", party |-> c, char |-> d]>>)
            /\ UNCHANGED pending
    /\ UNCHANGED <<rows, where, parties, reload, inbox>>

(* 0x074, accepted, the inviter being in a zone of this server, as ever.    *)
AcceptHere(c) ==
    LET i == pending[c]
    IN /\ MayAct(c) /\ i # NoChar /\ IsHere(zone[c], i)
       /\ pending' = [pending EXCEPT ![c] = NoChar]
       /\ IF /\ ~ InParty(c)
             /\ InParty(i) => /\ PParty(i).leader = i
                              /\ Cardinality(PParty(i).members) < Six
          THEN AddMember(i, c)
          ELSE ~ (Leads(c) /\ Leads(i)) /\ UNCHANGED <<rows, parties, outbox>>
       /\ UNCHANGED <<where, reload, inbox>>

(* 0x074, the inviter being elsewhere, or here again after a change of zone *)
(* with another targid: the answer goes after him.  Nobody invites himself. *)
AcceptElsewhere(c) ==
    LET i == pending[c]
    IN /\ MayAct(c) /\ i \notin {NoChar, c}
       /\ pending' = [pending EXCEPT ![c] = NoChar]
       /\ Send(zone[c], <<[type |-> "answer", party |-> i, char |-> c]>>)
       /\ UNCHANGED <<rows, where, parties, reload, inbox>>

(* 0x074, declined.                                                        *)
Decline(c) ==
    /\ MayAct(c) /\ pending[c] # NoChar
    /\ pending' = [pending EXCEPT ![c] = NoChar]
    /\ UNCHANGED <<rows, where, parties, reload, outbox, inbox>>

(* 0x06F.                                                                  *)
Leave(c) ==
    /\ MayAct(c) /\ InParty(c)
    /\ RemoveMember(c)
    /\ UNCHANGED <<where, reload, pending, inbox>>

(* 0x070.                                                                  *)
Breakup(c) ==
    /\ MayAct(c) /\ Leads(c)
    /\ DisbandParty(PParty(c), PParty(c).id, rows, TRUE)
    /\ UNCHANGED <<where, reload, pending, inbox>>

(* 0x071 of a member on this server.                                       *)
KickHere(c, d) ==
    /\ MayAct(c) /\ Leads(c) /\ d \in PParty(c).members
    /\ RemoveMember(d)
    /\ UNCHANGED <<where, reload, pending, inbox>>

(* 0x071 of somebody elsewhere: the row goes, then the servers of the rows  *)
(* that are left are told.  "far_kick": also if none of them is d's.        *)
KickElsewhere(c, d) ==
    /\ "far_kick" \in Trouble
          \/ \E e \in RowsOf(rows, c) \ {d} : server_addr[e] = server_addr[d]
    /\ MayAct(c) /\ Leads(c) /\ d \notin PParty(c).members
    /\ rows[d].party = c
    /\ rows' = Without(rows, d)
    /\ Send(zone[c], <<ReloadOf(PParty(c).id, d)>>)
    /\ UNCHANGED <<where, parties, reload, pending, inbox>>

(* 0x077 and AssignPartyRole.  The name is one of the client's list.       *)
GiveLead(c, n) ==
    LET p == PParty(c)
    IN /\ MayAct(c) /\ Leads(c)
       /\ rows[n].party = p.id /\ server_addr[n] # NoServer
       /\ parties' = (parties \ {p}) \cup {Led(p, n)}
       /\ rows' = LedRows(rows, p.id, n)
       /\ Send(zone[c], <<Reload(n)>>)
       /\ UNCHANGED <<where, reload, pending, inbox>>

-----------------------------------------------------------------------------
(* Coming and going.                                                       *)

(* SendToZone: the session's row names the next server at once.            *)
RequestZone(c, s) ==
    /\ zone[c] # NoServer /\ c \notin moving
    /\ "quick_zone" \in Trouble \/ Quiet
    /\ moving' = moving \cup {c}
    /\ server_addr' = [server_addr EXCEPT ![c] = s]
    /\ UNCHANGED <<rows, zone, parties, reload, pending, outbox, inbox>>

(* A variant in error: the object keeps the member.                        *)
ZoneOutKeeps(c, told) ==
    /\ c \in moving /\ zone[c] # NoServer
    /\ zone' = [zone EXCEPT ![c] = NoServer]
    /\ pending' = [pending EXCEPT ![c] = NoChar]
    /\ reload' = reload \ {c}
    /\ IF InParty(c) /\ told THEN Send(zone[c], <<Reload(PParty(c).id)>>)
       ELSE UNCHANGED outbox
    /\ UNCHANGED <<rows, server_addr, moving, parties, inbox>>

(* 0x00D and CharZoneOut, PopMember: the object forgets the member, not     *)
(* that it leads.  Out of a mog house nobody is told.                       *)
ZoneOut(c, told) ==
    /\ c \in moving /\ zone[c] # NoServer
    /\ zone' = [zone EXCEPT ![c] = NoServer]
    /\ pending' = [pending EXCEPT ![c] = NoChar]
    /\ reload' = reload \ {c}
    /\ IF InParty(c)
       THEN LET p == PParty(c)
            IN /\ parties' = Replaced(p,
                      [p EXCEPT !.members = @ \ {c},
                                !.leader = IF @ = c THEN Gone ELSE @])
               /\ IF told THEN Send(p.on, <<Reload(p.id)>>) ELSE UNCHANGED outbox
       ELSE UNCHANGED <<parties, outbox>>
    /\ UNCHANGED <<rows, server_addr, moving, inbox>>

(* 0x00A and CharZoneIn.                                                   *)
ZoneIn(c) ==
    /\ c \in moving /\ zone[c] = NoServer
    /\ zone' = [zone EXCEPT ![c] = server_addr[c]]
    /\ moving' = moving \ {c}
    /\ reload' = reload \cup {c}
    /\ UNCHANGED <<rows, server_addr, parties, pending, outbox, inbox>>

(* 0x00D of a character that logs out, or has been silent too long: its      *)
(* session's row takes its row of accounts_parties along.                   *)
Logout(c) ==
    /\ MayAct(c)
    /\ zone' = [zone EXCEPT ![c] = NoServer]
    /\ server_addr' = [server_addr EXCEPT ![c] = NoServer]
    /\ pending' = [pending EXCEPT ![c] = NoChar]
    /\ reload' = reload \ {c}
    /\ IF InParty(c) THEN RemoveMember(c)
       ELSE rows' = Without(rows, c) /\ UNCHANGED <<parties, outbox>>
    /\ UNCHANGED <<moving, inbox>>

(* A client that is lost between two zones: its session is cleaned up, and   *)
(* nobody takes the party over.  "crash_zoning": even if it leads one.      *)
LoseSession(c) ==
    /\ "crash_zoning" \in Trouble \/ ~ rows[c].leader
    /\ c \in moving /\ zone[c] = NoServer
    /\ moving' = moving \ {c}
    /\ server_addr' = [server_addr EXCEPT ![c] = NoServer]
    /\ rows' = Without(rows, c)
    /\ UNCHANGED <<zone, parties, reload, pending, outbox, inbox>>

(* The first zone-in of a login.                                           *)
Login(c, s) ==
    /\ server_addr[c] = NoServer
    /\ server_addr' = [server_addr EXCEPT ![c] = s]
    /\ moving' = moving \cup {c}
    /\ UNCHANGED <<rows, zone, parties, reload, pending, outbox, inbox>>

-----------------------------------------------------------------------------
(* The relay, the message threads and PostTick.                            *)

(* The character a message is for on server t, if it is for t.              *)
Addressee(m, t) ==
    LET cs == {c \in Char :
                  /\ server_addr[c] = t
                  /\ IF m.type = "invite" THEN c = m.char
                     ELSE IF m.type = "answer" THEN c = m.party
                     ELSE rows[c].party = m.party}
    IN IF cs = {} THEN NoChar ELSE CHOOSE c \in cs : \A d \in cs : c <= d

(* message_server_parse: to each server that has a session of the kind, for *)
(* the smallest charid there.                                               *)
Relay(s) ==
    /\ outbox[s] # <<>>
    /\ outbox' = [outbox EXCEPT ![s] = Tail(@)]
    /\ LET m == Head(outbox[s])
       IN inbox' = [t \in Server |->
              IF Addressee(m, t) = NoChar THEN inbox[t]
              ELSE Append(inbox[t], [type |-> m.type, first |-> Addressee(m, t),
                                     party |-> m.party, char |-> m.char])]
    /\ UNCHANGED <<rows, where, parties, reload, pending>>

(* The head of the inbox is a message of type t, and taken.                *)
Take(s, t) ==
    /\ inbox[s] # <<>> /\ Head(inbox[s]).type = t
    /\ inbox' = [inbox EXCEPT ![s] = Tail(@)]

(* MSG_PT_RELOAD for the addressee and the members with him (ForAlliance).  *)
HandleReload(s) ==
    LET c == Head(inbox[s]).first
    IN /\ Take(s, "reload")
       /\ reload' = IF ~ IsHere(s, c) THEN reload
                    ELSE reload \cup (IF InParty(c) THEN PParty(c).members ELSE {c})
       /\ UNCHANGED <<rows, where, parties, pending, outbox>>

(* A variant in error: the addressee looks, not the one it is about.        *)
HandleReloadOfFirst(s) ==
    LET c == Head(inbox[s]).first
    IN /\ Take(s, "reload_of")
       /\ reload' = IF IsHere(s, c) THEN reload \cup {c} ELSE reload
       /\ UNCHANGED <<rows, where, parties, pending, outbox>>

(* MSG_PT_RELOAD about one character; GetCharToUpdate looks for it, then for *)
(* somebody of the party called after it, then for the addressee.           *)
HandleReloadOf(s) ==
    LET m == Head(inbox[s])
        second == {c \in Char : IsHere(s, c) /\ InParty(c) /\ PParty(c).id = m.char}
        found == IF IsHere(s, m.char) THEN {m.char}
                 ELSE IF second # {} THEN second
                 ELSE {c \in {m.first} : IsHere(s, c)}
    IN /\ Take(s, "reload_of")
       /\ IF found = {} THEN UNCHANGED reload
          ELSE \E c \in found : reload' = reload \cup {c}
       /\ UNCHANGED <<rows, where, parties, pending, outbox>>

(* MSG_PT_DISBAND: the party of the addressee, whichever it is now.        *)
HandleDisband(s) ==
    LET c == Head(inbox[s]).first
    IN /\ Take(s, "disband")
       /\ IF IsHere(s, c) /\ InParty(c)
          THEN DisbandParty(PParty(c), PParty(c).id, rows, FALSE)
          ELSE UNCHANGED <<rows, parties, outbox>>
       /\ UNCHANGED <<where, reload, pending>>

(* MSG_PT_INVITE; the refusal is a packet to the inviter.                  *)
HandleInvite(s) ==
    LET m == Head(inbox[s])
    IN /\ Take(s, "invite")
       /\ pending' = IF IsHere(s, m.char) /\ pending[m.char] = NoChar /\ ~ InParty(m.char)
                     THEN [pending EXCEPT ![m.char] = m.party] ELSE pending
       /\ UNCHANGED <<rows, where, parties, reload, outbox>>

(* AddMember(id): the new member's server is told to look at the rows.     *)
AddMemberElsewhere(i, c) ==
    LET p == IF InParty(i) THEN PParty(i) ELSE Founded(i)
        db == IF InParty(i) THEN rows ELSE FoundedRows(i)
        free == p.leader = i /\ db[c] = NoRow
    IN /\ parties' = parties \cup {p}
       /\ rows' = IF free THEN Inserted(db, c, p.id) ELSE db
       /\ Send(p.on, (IF InParty(i) THEN <<>> ELSE <<Reload(i)>>)
                         \o (IF free THEN <<ReloadOf(p.id, c)>> ELSE <<>>))

(* MSG_PT_INV_RES, accepted.  Whether the party is full is not asked.      *)
HandleAnswer(s) ==
    LET m == Head(inbox[s])
    IN /\ Take(s, "answer")
       /\ IF IsHere(s, m.party) THEN ~ (rows[m.party].leader /\ rows[m.char].leader)
                                     /\ AddMemberElsewhere(m.party, m.char)
          ELSE UNCHANGED <<rows, parties, outbox>>
       /\ UNCHANGED <<where, reload, pending>>

(* charutils::ReloadParty of a character with a row: into the object of its  *)
(* party here, or a new one; then the object's own ReloadParty.             *)
Rejoin(c) ==
    LET s == zone[c]
        id == rows[c].party
        same == {p \in parties : p.on = s /\ p.id = id}
        new == [on |-> s, id |-> id, leader |-> NoChar, members |-> {}]
    IN \E p \in (IF InParty(c) THEN {PParty(c)} ELSE IF same = {} THEN {new} ELSE same) :
          LET q == IF InParty(c) THEN [p EXCEPT !.id = id]
                   ELSE [p EXCEPT !.members = @ \cup {c},
                                  !.leader = IF rows[c].leader THEN c ELSE @]
          IN /\ parties' = Replaced(p, Refreshed(q, rows))
             /\ reload' = reload \ q.members
             /\ UNCHANGED <<rows, outbox>>

(* The same of a character without: DelMember, and the object's ReloadParty *)
(* for those who stay.  After DisbandParty the code calls it on an object   *)
(* that is deleted: there is nobody left in it, and nothing is said of it.  *)
DelMember(c) ==
    LET p == PParty(c)
        q == [p EXCEPT !.members = @ \ {c}]
    IN /\ IF Leads(c) THEN RemovePartyLeader(c)
          ELSE parties' = Replaced(p, Refreshed(q, rows)) /\ UNCHANGED <<rows, outbox>>
       /\ reload' = reload \ p.members

(* CCharEntity::PostTick.                                                  *)
PostTick(c) ==
    /\ c \in reload /\ zone[c] # NoServer
    /\ IF rows[c] # NoRow THEN Rejoin(c)
       ELSE IF InParty(c) THEN DelMember(c)
       ELSE reload' = reload \ {c} /\ UNCHANGED <<rows, parties, outbox>>
    /\ UNCHANGED <<where, pending, inbox>>

-----------------------------------------------------------------------------
Player(c) ==
    \/ \E d \in Char : Invite(c, d) \/ KickHere(c, d) \/ KickElsewhere(c, d) \/ GiveLead(c, d)
    \/ AcceptHere(c) \/ AcceptElsewhere(c) \/ Decline(c)
    \/ Leave(c) \/ Breakup(c)

Travel(c) ==
    \/ \E s \in Server : RequestZone(c, s) \/ Login(c, s)
    \/ \E told \in BOOLEAN : ZoneOut(c, told)
    \/ ZoneIn(c) \/ Logout(c) \/ LoseSession(c)

Deliver(s) ==
    \/ Relay(s)
    \/ HandleReload(s) \/ HandleReloadOf(s) \/ HandleDisband(s)
    \/ HandleInvite(s) \/ HandleAnswer(s)

Next ==
    \/ \E c \in Char : Player(c) \/ Travel(c) \/ PostTick(c)
    \/ \E s \in Server : Deliver(s)

Spec == Init /\ [][Next]_vars

-----------------------------------------------------------------------------
(* Properties.                                                             *)

Messages == [type : {"reload", "reload_of", "disband", "invite", "answer"},
             party : Char, char : Char \cup {NoChar}]

(* Every variable holds values of the kind the program gives it.           *)
TypeOK ==
    /\ rows \in [Char -> [party : Char \cup {NoChar}, leader : BOOLEAN]]
    /\ server_addr \in [Char -> Server \cup {NoServer}]
    /\ zone \in [Char -> Server \cup {NoServer}]
    /\ moving \subseteq Char /\ reload \subseteq Char
    /\ parties \subseteq [on : Server, id : Char, leader : Char \cup {NoChar, Gone},
                          members : SUBSET Char]
    /\ pending \in [Char -> Char \cup {NoChar}]
    /\ outbox \in [Server -> Seq(Messages)]

(* A character is in at most one CParty, and only of the server it is on:   *)
(* none is left with a pointer to an entity that has gone, and none without *)
(* a member, which nobody could find any more.                              *)
OneParty ==
    /\ \A p \in parties : p.members # {}
    /\ \A p, q \in parties : p.members \cap q.members # {} => p = q
    /\ \A p \in parties : \A c \in p.members : zone[c] = p.on

(* A disband of the party is under way.                                    *)
Disbanding(id) ==
    \E s \in Server : \E m \in Range(outbox[s]) \cup Range(inbox[s]) :
        m.type = "disband" /\ m.party = id

(* A party has one leader, after whom it is called, unless it is being      *)
(* disbanded.                                                               *)
OneLeader ==
    \A c \in Char : rows[c] # NoRow =>
        LET id == rows[c].party
            leaders == {d \in RowsOf(rows, id) : rows[d].leader}
        IN leaders = {id} \/ (leaders = {} /\ Disbanding(id))

Settled == Quiet /\ moving = {}

Here(s) == {c \in Char : zone[c] = s}

(* When nothing is under way, every server has the members it should have  *)
(* in one object, with the name and the leader that the rows give.          *)
Agree ==
    Settled => \A s \in Server :
        {[p EXCEPT !.leader = IF @ = Gone THEN NoChar ELSE @] :
             p \in {q \in parties : q.on = s}} =
            {[on |-> s, id |-> id,
              leader |-> IF zone[id] = s THEN id ELSE NoChar,
              members |-> {c \in Here(s) : rows[c].party = id}] :
                 id \in {rows[c].party : c \in Here(s)} \ {NoChar}}
=============================================================================
