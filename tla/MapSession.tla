----------------------------- MODULE MapSession -----------------------------
(***************************************************************************)
(* How one account gets into the world, moves between map servers and is    *)
(* let go: the login server's lobby, the accounts_sessions row in the       *)
(* database, the session lists of the map servers and their clean-up.       *)
(* An account has at most one row (UNIQUE KEY accid), so the row is one     *)
(* variable.  A datagram is here handled at once or lost at once, with its  *)
(* answer received or lost: what delay and repetition do to the exchange    *)
(* of datagrams is the subject of PacketStream.  What does stay under way   *)
(* is the login server's message to a map server (loginMsg).                *)
(***************************************************************************)
EXTENDS Integers, FiniteSets

CONSTANTS
    Server,    \* map servers: processes, each with zones of its own
    Zone,      \* the zones of the world
    ServerOf,  \* zone_settings: the server a zone runs on
    Char,      \* the characters of the account
    Port,      \* UDP ports the client may send from
    Byte,      \* the radix of one byte of the session key
    Word,      \* the radix of the key word the map server counts in
    Key,       \* the key words a client may start with
    Trouble,   \* the circumstances that may occur (see the actions)
    NoChar, NoZone, NoServer, NoPort

Troubles == {"restart", "outage", "lost_dezone", "again_dezone",
             "crash_zoning", "late_login", "quick_login"}

ASSUME ServersAssumption ==
    /\ ServerOf \in [Zone -> Server]
    /\ Trouble \subseteq Troubles
    /\ NoChar \notin Char /\ NoZone \notin Zone
    /\ NoServer \notin Server /\ NoPort \notin Port

(* The lobby counts in one byte of the key and the map server in the whole *)
(* word: keys next to the end of the byte are left to the hazards.          *)
ASSUME KeyAssumption ==
    /\ Byte \in Nat /\ Word \in Nat /\ 6 < Byte /\ Byte < Word /\ Word % Byte = 0
    /\ \A k \in Key : k \in 0 .. Word - 1 /\ k % Byte \in 2 .. Byte - 5

VARIABLES
    row,        \* the account's row of accounts_sessions, or NoRow
    pos_zone,   \* chars.pos_zone: where each character was last sent
    newChars,   \* the characters with pos_prevzone = 0
    session,    \* map_session_list of each server, by client port
    loginMsg,   \* MSG_LOGIN messages on their way to map servers
    client      \* the game client

vars == <<row, pos_zone, newChars, session, loginMsg, client>>

Closed == [char |-> NoChar, key |-> 0, status |-> "none", zone |-> NoZone,
           dest |-> NoZone, shuttingDown |-> 0, idle |-> FALSE]

(* A session mapsession_createsession has made and no character fills yet. *)
WithoutChar == [Closed EXCEPT !.status = "empty"]

NoRow == [char |-> NoChar, key |-> 0, server |-> NoServer, port |-> NoPort]

(* client_port = 0: the lobby's row, which no map server has taken up.     *)
Unused == NoPort

Offline == [state |-> "out", char |-> NoChar, key |-> 0, server |-> NoServer,
            port |-> NoPort, dest |-> NoZone]

Init ==
    /\ row = NoRow
    /\ pos_zone \in [Char -> Zone]
    /\ newChars = Char
    /\ session = [at \in Server \X Port |-> Closed]
    /\ loginMsg = {}
    /\ client = Offline

(***************************************************************************)
(* The key.  The lobby takes 2 from byte 16 (a new character's gets 6       *)
(* more) and each zone-in adds 2 to the word that starts at that byte.      *)
(***************************************************************************)
LobbyKey(k, c) ==
    LET low == k % Byte
    IN (k - low) + ((low - 2 + (IF c \in newChars THEN 6 ELSE 0)) % Byte)

(* A variant in error: the key word does not wrap.                          *)
KeyRunsOn(k) == k + 2

NextKey(k) == (k + 2) % Word

(* What the client takes the key of its first zone-in to be.               *)
FirstKey(k, c) == (k + (IF c \in newChars THEN 6 ELSE 0)) % Word

-----------------------------------------------------------------------------
(* Parts of the handlers.                                                  *)

RowWithout(c) == IF row.char = c THEN NoRow ELSE row

(* recv_parse: the character and its key are read from the database.       *)
Loaded(c) ==
    [char |-> c, key |-> IF row.char = c THEN row.key ELSE 0,
     status |-> "disappear", zone |-> NoZone, dest |-> pos_zone[c],
     shuttingDown |-> 0, idle |-> FALSE]

(* SmallPacket0x00D: out of the zone, to log out or to go elsewhere.       *)
Dezoned(se) ==
    [se EXCEPT !.shuttingDown = IF se.status = "shutdown" THEN 1 ELSE 2,
               !.zone = NoZone,
               !.status = "disappear"]

(* A variant in error: 0x00A sent again moves the key on again.             *)
ZonedInAgain(se) ==
    [se EXCEPT !.shuttingDown = 0, !.key = NextKey(se.key), !.zone = se.dest,
               !.status = "normal", !.idle = FALSE]

(* SmallPacket0x00A: only a character that is nowhere comes in, and only    *)
(* then does the key move on.                                               *)
ZonedIn(se) ==
    IF se.status # "disappear" THEN [se EXCEPT !.idle = FALSE]
    ELSE LET left == IF se.zone # NoZone THEN Dezoned(se) ELSE se
         IN [left EXCEPT !.shuttingDown = 0,
                         !.key = NextKey(left.key),
                         !.zone = left.dest,
                         !.status = "normal",
                         !.idle = FALSE]

(* A variant in error: the UPDATE leaves client_port out.                   *)
RowKeepsPort(p, se) ==
    IF row.char # se.char THEN row
    ELSE [row EXCEPT !.key = se.key, !.server = ServerOf[se.zone]]

(* The UPDATE of the row by 0x00A: WHERE charid is the session's.          *)
RowTakenUp(p, se) ==
    IF row.char # se.char THEN row
    ELSE [row EXCEPT !.key = se.key, !.server = ServerOf[se.zone], !.port = p]

(* The end of do_sockets: a session that is shutting down is closed, and    *)
(* its row goes with it if the character is logging out (shuttingDown = 1). *)
Served(s, p, se, r) ==
    /\ session' = [session EXCEPT ![<<s, p>>] =
                       IF se.shuttingDown > 0 THEN Closed ELSE se]
    /\ row' = IF se.shuttingDown = 1 THEN RowWithout(se.char) ELSE r

(* The start of do_sockets for a datagram that no character is loaded for:  *)
(* any row of the client's address lets it have a session.                  *)
Opened(s, p) ==
    IF session[<<s, p>>] # Closed THEN [session[<<s, p>>] EXCEPT !.idle = FALSE]
    ELSE IF row = NoRow THEN Closed ELSE WithoutChar

(* map_decipher_packet: the session can read what the client sends.        *)
Reads(se) == se.char # NoChar /\ se.key = client.key

(* The client's session on the server it sends to.                         *)
Mine == session[<<client.server, client.port>>]

(* On its way from one server to another.                                  *)
Crossing ==
    /\ client.state = "zoning"
    /\ ServerOf[client.dest] # client.server

-----------------------------------------------------------------------------
(* The login server.                                                       *)

(* LOGIN_ATTEMPT: the server named in an old row is told.                  *)
LoginAttempt ==
    /\ client.state = "out"
    /\ client' = [Offline EXCEPT !.state = "lobby"]
    /\ loginMsg' = IF row = NoRow THEN loginMsg
                   ELSE loginMsg \cup {[to |-> row.server, char |-> row.char]}
    /\ UNCHANGED <<row, pos_zone, newChars, session>>

(* A variant in error: the lobby's DELETE has no client_port = 0.           *)
MayReplaceAny == TRUE

(* The rows the lobby may replace: those no map server has taken up.       *)
MayReplace == row.port = Unused

(* 0xA2: a row for the chosen character, if the account has no other now.   *)
(* "quick_login": it may also come while a session is being closed;         *)
(* "late_login": while MSG_LOGIN is still under way.                        *)
ChooseCharacter(c, k, p) ==
    /\ client.state = "lobby"
    /\ "quick_login" \in Trouble
          \/ \A at \in Server \X Port : session[at].shuttingDown = 0
    /\ "late_login" \in Trouble \/ loginMsg = {}
    /\ MayReplace
    /\ row' = [char |-> c, key |-> LobbyKey(k, c),
               server |-> ServerOf[pos_zone[c]], port |-> Unused]
    /\ newChars' = newChars \ {c}
    /\ client' = [state |-> "entering", char |-> c, key |-> FirstKey(k, c),
                  server |-> ServerOf[pos_zone[c]], port |-> p, dest |-> NoZone]
    /\ UNCHANGED <<pos_zone, session, loginMsg>>

(* 0xA2 while the account has another row: the INSERT fails, with error     *)
(* 305, after the UPDATE of pos_prevzone; the client stays in the lobby.    *)
ChooseRefused(c) ==
    /\ client.state = "lobby"
    /\ ~ MayReplace
    /\ newChars' = newChars \ {c}
    /\ UNCHANGED <<row, pos_zone, session, loginMsg, client>>

(* A variant in error: a message about an old row never deletes it.         *)
HereAnyway(s, c) == TRUE

(* zoneutils::GetChar: the character is in a zone of this server.          *)
IsHere(s, c) ==
    \E p \in Port : session[<<s, p>>].char = c /\ session[<<s, p>>].zone # NoZone

(* MSG_LOGIN on a map server: a row without its character is an old one.   *)
HandleLoginMsg(m) ==
    /\ m \in loginMsg
    /\ loginMsg' = loginMsg \ {m}
    /\ row' = IF IsHere(m.to, m.char) THEN row ELSE RowWithout(m.char)
    /\ UNCHANGED <<pos_zone, newChars, session, client>>

-----------------------------------------------------------------------------
(* Datagrams of the client.                                                *)

(* The login datagram with 0x00A.  If the answer is lost or unreadable the  *)
(* client goes on sending it.                                               *)
EnterZone(answered) ==
    LET s == client.server
        p == client.port
        old == IF Mine.char = NoChar THEN Loaded(client.char) ELSE Mine
        new == ZonedIn(old)
    IN /\ client.state = "entering"
       /\ Mine # Closed \/ row # NoRow
       /\ Served(s, p, new,
                 IF old.status = "disappear" THEN RowTakenUp(p, new) ELSE row)
       /\ client' = IF answered THEN [client EXCEPT !.state = "in"] ELSE client
       /\ answered => new.key = client.key
       /\ UNCHANGED <<pos_zone, newChars, loginMsg>>

(* SendToZone of type 2: the row and the character go to the new zone.     *)
SentTo(se, z) ==
    /\ row' = IF row.char = se.char THEN [row EXCEPT !.server = ServerOf[z]]
              ELSE row
    /\ pos_zone' = [pos_zone EXCEPT ![se.char] = z]

(* 0x05E, and the scripts and messages that send a character elsewhere.    *)
RequestZone(z) ==
    /\ client.state = "in"
    /\ Reads(Mine) /\ Mine.status = "normal"
    /\ session' = [session EXCEPT ![<<client.server, client.port>>].status = "disappear",
                                  ![<<client.server, client.port>>].dest = z,
                                  ![<<client.server, client.port>>].idle = FALSE]
    /\ SentTo(Mine, z)
    /\ client' = [client EXCEPT !.state = "zoning", !.dest = z]
    /\ UNCHANGED <<newChars, loginMsg>>

(* 0x0E7: the way out of the game.                                         *)
RequestLogout ==
    /\ client.state = "in"
    /\ Reads(Mine) /\ Mine.status = "normal"
    /\ session' = [session EXCEPT ![<<client.server, client.port>>].status = "shutdown",
                                  ![<<client.server, client.port>>].idle = FALSE]
    /\ client' = [client EXCEPT !.state = "leaving"]
    /\ UNCHANGED <<row, pos_zone, newChars, loginMsg>>

(* The client goes where it has been sent.                                 *)
Moved ==
    IF client.state = "leaving" THEN Offline
    ELSE [client EXCEPT !.state = "entering", !.key = NextKey(client.key),
                        !.server = ServerOf[client.dest], !.dest = NoZone]

(* 0x00D.  "again_dezone": the client may miss the answer and send it again  *)
(* to a server that has let it go.                                          *)
Dezone(answered) ==
    /\ client.state \in {"zoning", "leaving"}
    /\ "again_dezone" \notin Trouble => answered
    /\ Served(client.server, client.port,
              IF Reads(Mine) /\ Mine.zone # NoZone THEN Dezoned(Mine)
              ELSE Opened(client.server, client.port),
              row)
    /\ client' = IF answered THEN Moved ELSE client
    /\ UNCHANGED <<pos_zone, newChars, loginMsg>>

(* "lost_dezone": the client goes to another server and 0x00D is lost.      *)
LoseDezone ==
    /\ client.state \in {"zoning", "leaving"}
    /\ Crossing => "lost_dezone" \in Trouble
    /\ client' = Moved
    /\ UNCHANGED <<row, pos_zone, newChars, session, loginMsg>>

(* Anything else the client sends.                                         *)
KeepAlive ==
    /\ client.state = "in"
    /\ Served(client.server, client.port, Opened(client.server, client.port), row)
    /\ UNCHANGED <<pos_zone, newChars, loginMsg, client>>

(* Nobody answers: no session, or one that cannot read the client.         *)
GiveUp ==
    /\ client.state \in {"entering", "in"}
    /\ ~ Reads(Mine)
    /\ client.state = "entering" =>
          IF Mine.char = NoChar THEN row.char # client.char
          ELSE Mine.status # "disappear"
    /\ client' = Offline
    /\ UNCHANGED <<row, pos_zone, newChars, session, loginMsg>>

(* "crash_zoning": also while it goes from one server to another.          *)
ClientCrash ==
    /\ client.state # "out"
    /\ Crossing => "crash_zoning" \in Trouble
    /\ client' = Offline
    /\ UNCHANGED <<row, pos_zone, newChars, session, loginMsg>>

-----------------------------------------------------------------------------
(* The map servers on their own.                                           *)

(* The client sends to this session.                                       *)
Attached(s, p) ==
    /\ client.state \in {"entering", "in", "zoning", "leaving"}
    /\ client.server = s /\ client.port = p

(* No datagram for max_time_lastupdate seconds; "outage": even from a       *)
(* client that is sending.  A client that waits to enter gives up sooner.   *)
TimeOut(s, p) ==
    /\ session[<<s, p>>] # Closed /\ ~ session[<<s, p>>].idle
    /\ Attached(s, p) => "outage" \in Trouble /\ client.state # "entering"
    /\ session' = [session EXCEPT ![<<s, p>>].idle = TRUE]
    /\ UNCHANGED <<row, pos_zone, newChars, loginMsg, client>>

(* A variant in error: only characters in play are cleaned up.              *)
CleanupPlaying(s, p) ==
    /\ session[<<s, p>>].idle /\ session[<<s, p>>].status = "normal"
    /\ session' = [session EXCEPT
                      ![<<s, p>>] = Dezoned([session[<<s, p>>] EXCEPT !.status = "shutdown"])]
    /\ UNCHANGED <<row, pos_zone, newChars, loginMsg, client>>

(* map_cleanup, first visit: the character leaves its zone.                *)
CleanupChar(s, p) ==
    /\ session[<<s, p>>].idle /\ session[<<s, p>>].char # NoChar
    /\ session[<<s, p>>].shuttingDown = 0
    /\ session' = [session EXCEPT
                      ![<<s, p>>] = Dezoned([session[<<s, p>>] EXCEPT !.status = "shutdown"])]
    /\ UNCHANGED <<row, pos_zone, newChars, loginMsg, client>>

(* map_cleanup, the next visit: session and row go.                        *)
CleanupSession(s, p) ==
    /\ session[<<s, p>>].idle /\ session[<<s, p>>].char # NoChar
    /\ session[<<s, p>>].shuttingDown # 0
    /\ session' = [session EXCEPT ![<<s, p>>] = Closed]
    /\ row' = RowWithout(session[<<s, p>>].char)
    /\ UNCHANGED <<pos_zone, newChars, loginMsg, client>>

(* map_cleanup of a session no character ever filled.                      *)
CleanupEmpty(s, p) ==
    /\ session[<<s, p>>].idle /\ session[<<s, p>>].char = NoChar
    /\ session' = [session EXCEPT ![<<s, p>>] = Closed]
    /\ row' = IF row.port = p THEN NoRow ELSE row
    /\ UNCHANGED <<pos_zone, newChars, loginMsg, client>>

(* The process ends and do_init of the next deletes the server's rows.  A   *)
(* client that is about to leave it for another zone then sends 0x00D to a  *)
(* server that has no session of it, as in "again_dezone".                  *)
Restart(s) ==
    /\ "restart" \in Trouble
    /\ client.state = "zoning" /\ client.server = s => "again_dezone" \in Trouble
    /\ session' = [at \in Server \X Port |-> IF at[1] = s THEN Closed ELSE session[at]]
    /\ row' = IF row.server = s THEN NoRow ELSE row
    /\ UNCHANGED <<pos_zone, newChars, loginMsg, client>>

Cleanup(s, p) == CleanupChar(s, p) \/ CleanupSession(s, p) \/ CleanupEmpty(s, p)

Login == \E c \in Char, k \in Key, p \in Port : ChooseCharacter(c, k, p)

Next ==
    \/ LoginAttempt \/ Login
    \/ \E c \in Char : ChooseRefused(c)
    \/ \E m \in loginMsg : HandleLoginMsg(m)
    \/ \E answered \in BOOLEAN : EnterZone(answered) \/ Dezone(answered)
    \/ \E z \in Zone : RequestZone(z)
    \/ RequestLogout \/ LoseDezone \/ KeepAlive \/ GiveUp \/ ClientCrash
    \/ \E s \in Server, p \in Port : TimeOut(s, p) \/ Cleanup(s, p)
    \/ \E s \in Server : Restart(s)

Spec == Init /\ [][Next]_vars

-----------------------------------------------------------------------------
(***************************************************************************)
(* Fairness.  The map server's main loop and its timers run on; the message *)
(* thread delivers; a datagram that is sent again and again is answered in  *)
(* the end; and the player goes on trying to get in.                        *)
(***************************************************************************)
Fairness ==
    /\ WF_vars(LoginAttempt) /\ WF_vars(Login) /\ WF_vars(GiveUp) /\ WF_vars(KeepAlive)
    /\ WF_vars(EnterZone(FALSE)) /\ SF_vars(EnterZone(TRUE)) /\ SF_vars(Dezone(TRUE))
    /\ \A s \in Server, p \in Port : WF_vars(TimeOut(s, p)) /\ WF_vars(Cleanup(s, p))
    /\ WF_vars(\E m \in loginMsg : HandleLoginMsg(m))

FairSpec == Spec /\ Fairness

-----------------------------------------------------------------------------
(* Properties.                                                             *)

Status == {"none", "empty", "normal", "disappear", "shutdown"}

(* Every variable holds values of the kind the program gives it.           *)
TypeOK ==
    /\ row \in [char : Char \cup {NoChar}, key : 0 .. Word - 1,
                server : Server \cup {NoServer}, port : Port \cup {NoPort}]
    /\ pos_zone \in [Char -> Zone]
    /\ newChars \subseteq Char
    /\ session \in [Server \X Port ->
           [char : Char \cup {NoChar}, key : 0 .. Word - 1, status : Status,
            zone : Zone \cup {NoZone}, dest : Zone \cup {NoZone},
            shuttingDown : 0 .. 1, idle : BOOLEAN]]
    /\ loginMsg \subseteq [to : Server, char : Char]
    /\ client \in [state : {"out", "lobby", "entering", "in", "zoning", "leaving"},
                   char : Char \cup {NoChar}, key : 0 .. Word - 1,
                   server : Server \cup {NoServer}, port : Port \cup {NoPort},
                   dest : Zone \cup {NoZone}]

Playing(s, p) == session[<<s, p>>].status = "normal"

(* A character is in play at most once, and so is an account: no sequence   *)
(* of crashes, logins and zone changes leaves two copies of a character, or *)
(* two characters of the account, in the world, where the later save of one *)
(* would overwrite what the other did.                                      *)
OneInPlay ==
    \A at, bt \in Server \X Port :
        session[at].status = "normal" /\ session[bt].status = "normal" => at = bt

(* A character in play has its row, and the row names the server, the port  *)
(* and the key of its session: the row is what tells the login server that  *)
(* the account is in use and the message server where to find it.  And the  *)
(* zone, which 0x00A takes from the database without a look at it, is one   *)
(* of that server.                                                          *)
RowOfPlayer ==
    \A s \in Server, p \in Port : Playing(s, p) =>
        /\ row = [char |-> session[<<s, p>>].char, key |-> session[<<s, p>>].key,
                  server |-> s, port |-> p]
        /\ ServerOf[session[<<s, p>>].zone] = s

(* Whatever was lost or sent again on the way in, a server that has let the *)
(* client's character into a zone reads what the client sends: both have    *)
(* counted the key on the same number of times.                             *)
SameKey ==
    client.state \in {"entering", "in"} /\ Mine.status = "normal"
        => Mine.char = client.char /\ Mine.key = client.key

(* The row of a character is deleted when the character logs out, "not when *)
(* zoning": no step deletes the row of a character that is in play          *)
(* afterwards.                                                              *)
NotWhenZoning ==
    [][row # NoRow /\ row' = NoRow =>
          \A at \in Server \X Port :
             session'[at].status = "normal" => session'[at].char # row.char]_vars

(* Unless clients crash for ever, a player outside the game gets in: no     *)
(* session, row or message left behind by the last visit shuts him out for  *)
(* good.                                                                    *)
PlayerGetsIn ==
    []<><<ClientCrash>>_vars \/ (client.state = "out" ~> client.state = "in")

(* A session nobody uses any more is closed.                               *)
SessionEnds ==
    \A s \in Server, p \in Port :
        session[<<s, p>>] # Closed ~> (session[<<s, p>>] = Closed \/ Attached(s, p))
=============================================================================
