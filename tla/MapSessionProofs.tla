--------------------------- MODULE MapSessionProofs ---------------------------
(***************************************************************************)
(* What MapSession keeps for every number of servers, zones, characters and *)
(* ports and every width of the key: its types, whatever happens; and, as  *)
(* long as no 0x00D is lost, missed or overtaken, that an account is in    *)
(* play once, that the row is its session's and that the keys agree.       *)
(***************************************************************************)
EXTENDS MapSession, TLAPS

USE ServersAssumption

\* The client has chosen no character.
Away == client.state \in {"out", "lobby"}

-----------------------------------------------------------------------------
\* The key word and its low byte.
LEMMA WordArithmetic ==
  /\ \A n \in Int : n % Word \in 0 .. Word - 1
  /\ \A n \in 0 .. Word - 1 : n % Word = n
  /\ \A n \in 0 .. Byte - 1 : n % Byte = n
  BY KeyAssumption

\* Multiplication by a natural number is monotone.
LEMMA Multiples ==
  ASSUME NEW b \in Nat, NEW m \in Nat, NEW n \in Nat, m <= n
  PROVE  m * b <= n * b
  <1> DEFINE d == n - m
  <1>1. d \in Nat /\ n = m + d
    OBVIOUS
  <1>2. (m + d) * b = m * b + d * b /\ d * b \in Nat /\ m * b \in Nat
    BY <1>1
  <1> QED BY <1>1, <1>2

\* A byte that can grow by four within itself leaves the word in its range.
LEMMA RoomInWord ==
  ASSUME NEW k \in Key
  PROVE  k \in Nat /\ k + 4 < Word
  <1> DEFINE i == k \div Byte
             n == Word \div Byte
  <1>1. k \in 0 .. Word - 1 /\ (k % Byte) \in 2 .. Byte - 5
    BY KeyAssumption
  <1>2. k = Byte * i + (k % Byte) /\ i \in Nat
    BY <1>1, KeyAssumption
  <1>3. Word = Byte * n /\ n \in Nat
    BY KeyAssumption
  <1> HIDE DEF i, n
  <1>4. i < n
    <2>1. SUFFICES ASSUME n <= i PROVE FALSE
      BY KeyAssumption, <1>2, <1>3
    <2>2. n * Byte <= i * Byte
      BY KeyAssumption, <1>2, <1>3, <2>1, Multiples
    <2> QED BY <1>1, <1>2, <1>3, <2>2, KeyAssumption
  <1>5. (i + 1) * Byte <= n * Byte
    BY KeyAssumption, <1>2, <1>3, <1>4, Multiples
  <1>6. (i + 1) * Byte = Byte * i + Byte /\ n * Byte = Byte * n
    BY KeyAssumption, <1>2, <1>3
  <1> QED BY <1>1, <1>2, <1>3, <1>5, <1>6, KeyAssumption

\* Each zone-in leaves the key in its word.
LEMMA NextKeyType == \A k \in 0 .. Word - 1 : NextKey(k) \in 0 .. Word - 1
  BY WordArithmetic, KeyAssumption DEF NextKey

\* The keys of the lobby and the client before the first zone-in: one zone-in
\* later they are the same.
LEMMA FirstKeys ==
  ASSUME NEW k \in Key, NEW c \in Char
  PROVE  /\ LobbyKey(k, c) \in 0 .. Word - 1
         /\ FirstKey(k, c) \in 0 .. Word - 1
         /\ NextKey(LobbyKey(k, c)) = FirstKey(k, c)
  <1> DEFINE more == IF c \in newChars THEN 6 ELSE 0
             low == k % Byte
  <1>1. k \in 0 .. Word - 1 /\ low \in 2 .. Byte - 5 /\ low <= k
    <2>1. k \in 0 .. Word - 1 /\ low \in 2 .. Byte - 5
      BY KeyAssumption
    <2>2. k = Byte * (k \div Byte) + low /\ k \div Byte \in Nat
      BY <2>1, KeyAssumption
    <2> QED BY <2>1, <2>2, KeyAssumption
  <1>2. more \in {0, 6}
    OBVIOUS
  <1>3. LobbyKey(k, c) = (k - low) + ((low - 2 + more) % Byte)
    BY DEF LobbyKey
  <1>4. FirstKey(k, c) = (k + more) % Word
    BY DEF FirstKey
  <1> HIDE DEF more, low
  <1>5. (low - 2 + more) % Byte = low - 2 + more
    <2>1. low - 2 + more \in 0 .. Byte - 1
      BY <1>1, <1>2, KeyAssumption
    <2> QED BY <2>1, WordArithmetic
  <1>6. LobbyKey(k, c) = k - 2 + more /\ k - 2 + more \in 0 .. Word - 1
    BY <1>1, <1>2, <1>3, <1>5, RoomInWord, KeyAssumption
  <1>7. (k - 2 + more) + 2 = k + more /\ k + more \in Int
    BY <1>1, <1>2
  <1> QED BY <1>4, <1>6, <1>7, WordArithmetic DEF NextKey

-----------------------------------------------------------------------------
(***************************************************************************)
(* Types                                                                   *)
(***************************************************************************)
RowType == [char : Char \cup {NoChar}, key : 0 .. Word - 1,
            server : Server \cup {NoServer}, port : Port \cup {NoPort}]

SessionType == [char : Char \cup {NoChar}, key : 0 .. Word - 1, status : Status,
                zone : Zone \cup {NoZone}, dest : Zone \cup {NoZone},
                shuttingDown : 0 .. 1, idle : BOOLEAN]

ClientType == [state : {"out", "lobby", "entering", "in", "zoning", "leaving"},
               char : Char \cup {NoChar}, key : 0 .. Word - 1,
               server : Server \cup {NoServer}, port : Port \cup {NoPort},
               dest : Zone \cup {NoZone}]

\* A row names a character and a server.
RowNamed == row # NoRow => row.char \in Char /\ row.server \in Server

\* A client that has chosen a character knows whom it sends to, and one that
\* changes the zone knows where it goes.
ClientNamed ==
    /\ ~Away => /\ client.char \in Char
                /\ client.server \in Server /\ client.port \in Port
    /\ client.state = "zoning" => client.dest \in Zone

\* A character has somewhere to go.
SessionNamed ==
    \A s \in Server, p \in Port :
        session[<<s, p>>].char # NoChar => session[<<s, p>>].dest \in Zone

TypeInv == TypeOK /\ RowNamed /\ ClientNamed /\ SessionNamed

\* What sessions, row and client are set to at once is well typed.
LEMMA ClosedType == /\ Closed \in SessionType /\ WithoutChar \in SessionType
                    /\ Closed.char = NoChar /\ WithoutChar.char = NoChar
                    /\ NoRow \in RowType /\ Offline \in ClientType
  <1>1. 0 \in 0 .. Word - 1
    BY KeyAssumption
  <1>2. Closed \in SessionType
    BY <1>1 DEF Closed, SessionType, Status
  <1>3. WithoutChar \in SessionType
    BY <1>2 DEF WithoutChar, SessionType, Status
  <1>4. NoRow \in RowType /\ Offline \in ClientType
    BY <1>1 DEF NoRow, RowType, Offline, ClientType
  <1> QED BY <1>2, <1>3, <1>4 DEF Closed, WithoutChar

\* What the handlers make of a session is one, but that SmallPacket0x00D may
\* set shuttingDown to 2 until the end of do_sockets.
LEMMA FieldTypes ==
  ASSUME NEW se \in SessionType
  PROVE  /\ \A x \in Status : [se EXCEPT !.status = x] \in SessionType
         /\ \A x \in Zone \cup {NoZone} : [se EXCEPT !.zone = x] \in SessionType
         /\ \A x \in Zone \cup {NoZone} : [se EXCEPT !.dest = x] \in SessionType
         /\ \A x \in 0 .. Word - 1 : [se EXCEPT !.key = x] \in SessionType
         /\ \A x \in 0 .. 1 : [se EXCEPT !.shuttingDown = x] \in SessionType
         /\ \A x \in BOOLEAN : [se EXCEPT !.idle = x] \in SessionType
  BY DEF SessionType

\* SmallPacket0x00D keeps what the session is known by.
LEMMA DezonedType ==
  ASSUME NEW se \in SessionType
  PROVE  /\ se.status = "shutdown" => Dezoned(se) \in SessionType
         /\ Dezoned(se) = [se EXCEPT !.shuttingDown = IF se.status = "shutdown"
                                                      THEN 1 ELSE 2,
                                     !.zone = NoZone, !.status = "disappear"]
         /\ Dezoned(se).shuttingDown > 0
         /\ Dezoned(se).char = se.char /\ Dezoned(se).key = se.key
         /\ Dezoned(se).dest = se.dest /\ Dezoned(se).idle = se.idle
  <1>1. ASSUME se.status = "shutdown"
        PROVE  Dezoned(se) \in SessionType
    <2> DEFINE a == [se EXCEPT !.shuttingDown = 1]
               b == [a EXCEPT !.zone = NoZone]
    <2>1. a \in SessionType
      <3>1. 1 \in 0 .. 1
        OBVIOUS
      <3> QED BY <3>1, FieldTypes
    <2>2. b \in SessionType
      BY <2>1, FieldTypes
    <2>3. [b EXCEPT !.status = "disappear"] \in SessionType
      BY <2>2, FieldTypes DEF Status
    <2> QED BY <1>1, <2>3 DEF Dezoned
  <1>2. /\ Dezoned(se).shuttingDown > 0
        /\ Dezoned(se).char = se.char /\ Dezoned(se).key = se.key
        /\ Dezoned(se).dest = se.dest /\ Dezoned(se).idle = se.idle
    BY DEF Dezoned, SessionType
  <1> QED BY <1>1, <1>2 DEF Dezoned

\* 0x00A keeps the character and sets where it is, once.
LEMMA ZonedInType ==
  ASSUME NEW se \in SessionType, se.dest \in Zone
  PROVE  /\ ZonedIn(se) \in SessionType
         /\ ZonedIn(se).char = se.char /\ ZonedIn(se).dest = se.dest
         /\ se.status # "disappear" =>
               /\ ZonedIn(se).key = se.key /\ ZonedIn(se).status = se.status
               /\ ZonedIn(se).zone = se.zone
               /\ ZonedIn(se).shuttingDown = se.shuttingDown
         /\ se.status = "disappear" =>
               /\ ZonedIn(se).key = NextKey(se.key) /\ ZonedIn(se).status = "normal"
               /\ ZonedIn(se).zone = se.dest /\ ZonedIn(se).shuttingDown = 0
  <1> DEFINE come == [se EXCEPT !.shuttingDown = 0, !.key = NextKey(se.key),
                                !.zone = se.dest, !.status = "normal",
                                !.idle = FALSE]
  <1>1. CASE se.status = "disappear"
    <2>1. ZonedIn(se) = come
      <3>1. CASE se.zone = NoZone
        BY <1>1, <3>1 DEF ZonedIn, SessionType
      <3>2. CASE se.zone # NoZone
        BY <1>1, <3>2 DEF ZonedIn, Dezoned, SessionType
      <3> QED BY <3>1, <3>2
    <2>2. NextKey(se.key) \in 0 .. Word - 1
      BY NextKeyType DEF SessionType
    <2>3. /\ come \in SessionType /\ come.char = se.char /\ come.dest = se.dest
          /\ come.key = NextKey(se.key) /\ come.status = "normal"
          /\ come.zone = se.dest /\ come.shuttingDown = 0
      <3> DEFINE a == [se EXCEPT !.shuttingDown = 0]
                 b == [a EXCEPT !.key = NextKey(se.key)]
                 c == [b EXCEPT !.zone = se.dest]
                 d == [c EXCEPT !.status = "normal"]
      <3>1. a \in SessionType
        <4>1. 0 \in 0 .. 1
          OBVIOUS
        <4> QED BY <4>1, FieldTypes
      <3>2. b \in SessionType
        BY <2>2, <3>1, FieldTypes
      <3>3. c \in SessionType
        BY <3>2, FieldTypes
      <3>4. d \in SessionType
        BY <3>3, FieldTypes DEF Status
      <3>5. come \in SessionType
        BY <3>4, FieldTypes
      <3>6. /\ come.char = se.char /\ come.dest = se.dest
            /\ come.key = NextKey(se.key) /\ come.status = "normal"
            /\ come.zone = se.dest /\ come.shuttingDown = 0
        BY DEF SessionType
      <3> QED BY <3>5, <3>6
    <2> QED BY <1>1, <2>1, <2>3
  <1>2. CASE se.status # "disappear"
    <2>1. ZonedIn(se) = [se EXCEPT !.idle = FALSE]
      BY <1>2 DEF ZonedIn
    <2>2. [se EXCEPT !.idle = FALSE] \in SessionType
      BY FieldTypes
    <2> QED BY <1>2, <2>1, <2>2 DEF SessionType
  <1> QED BY <1>1, <1>2

\* The character recv_parse loads.
LEMMA LoadedType ==
  ASSUME TypeInv, NEW c \in Char
  PROVE  /\ Loaded(c) \in SessionType /\ Loaded(c).char = c
         /\ Loaded(c).dest = pos_zone[c] /\ Loaded(c).status = "disappear"
  BY KeyAssumption DEF TypeInv, TypeOK, Loaded, SessionType, Status

\* The variables, with the record types by name.
LEMMA TypeNames ==
  /\ TypeOK <=> /\ row \in RowType /\ pos_zone \in [Char -> Zone]
                /\ newChars \subseteq Char
                /\ session \in [Server \X Port -> SessionType]
                /\ loginMsg \subseteq [to : Server, char : Char]
                /\ client \in ClientType
  /\ TypeOK' <=> /\ row' \in RowType /\ pos_zone' \in [Char -> Zone]
                 /\ newChars' \subseteq Char
                 /\ session' \in [Server \X Port -> SessionType]
                 /\ loginMsg' \subseteq [to : Server, char : Char]
                 /\ client' \in ClientType
  BY DEF TypeOK, RowType, SessionType, ClientType

Named(se) == se.char # NoChar => se.dest \in Zone

\* A session that is set to one of its type.
LEMMA SessionSet ==
  ASSUME TypeInv, NEW s \in Server, NEW p \in Port,
         NEW se \in SessionType, Named(se),
         session' = [session EXCEPT ![<<s, p>>] = se]
  PROVE  /\ session' \in [Server \X Port -> SessionType]
         /\ SessionNamed'
         /\ session'[<<s, p>>] = se
         /\ \A t \in Server, q \in Port :
               <<t, q>> # <<s, p>> => session'[<<t, q>>] = session[<<t, q>>]
  <1>1. session \in [Server \X Port -> SessionType] /\ <<s, p>> \in Server \X Port
    BY TypeNames DEF TypeInv
  <1>2. /\ session' \in [Server \X Port -> SessionType]
        /\ session'[<<s, p>>] = se
        /\ \A t \in Server, q \in Port :
              <<t, q>> # <<s, p>> => session'[<<t, q>>] = session[<<t, q>>]
    BY <1>1
  <1>3. SessionNamed'
    BY <1>2 DEF SessionNamed, TypeInv, Named
  <1> QED BY <1>2, <1>3

\* A row is kept as it is or deleted.
LEMMA RowWithoutType ==
  ASSUME TypeInv, NEW c
  PROVE  /\ RowWithout(c) \in RowType
         /\ RowWithout(c) # NoRow => RowWithout(c) = row
                                     /\ row.char \in Char /\ row.server \in Server
  BY TypeNames, ClosedType DEF RowWithout, TypeInv, RowNamed

\* The end of do_sockets keeps the types.
LEMMA ServedType ==
  ASSUME TypeInv, NEW s \in Server, NEW p \in Port, NEW se, NEW r,
         (se \in SessionType /\ Named(se)) \/ se.shuttingDown > 0,
         r \in RowType, r # NoRow => r.char \in Char /\ r.server \in Server,
         Served(s, p, se, r)
  PROVE  /\ session' \in [Server \X Port -> SessionType] /\ SessionNamed'
         /\ row' \in RowType /\ RowNamed'
  <1> DEFINE new == IF se.shuttingDown > 0 THEN Closed ELSE se
  <1>1. new \in SessionType /\ Named(new)
    BY ClosedType DEF Named
  <1>2. session' = [session EXCEPT ![<<s, p>>] = new]
    BY DEF Served
  <1> HIDE DEF new
  <1>3. session' \in [Server \X Port -> SessionType] /\ SessionNamed'
    BY <1>1, <1>2, SessionSet
  <1>4. row' \in RowType /\ RowNamed'
    BY RowWithoutType DEF Served, RowNamed
  <1> QED BY <1>3, <1>4

\* do_sockets opens a session of the type.
LEMMA OpenedType ==
  ASSUME TypeInv, NEW s \in Server, NEW p \in Port
  PROVE  Opened(s, p) \in SessionType /\ Named(Opened(s, p))
  <1>1. session[<<s, p>>] \in SessionType /\ Named(session[<<s, p>>])
    BY TypeNames DEF TypeInv, SessionNamed, Named
  <1>2. [session[<<s, p>>] EXCEPT !.idle = FALSE] \in SessionType
    BY <1>1, FieldTypes
  <1>3. Named([session[<<s, p>>] EXCEPT !.idle = FALSE])
    BY <1>1 DEF Named, SessionType
  <1> QED BY <1>2, <1>3, ClosedType DEF Opened, Named

\* The client's session, once it has chosen a character.
LEMMA MineType ==
  ASSUME TypeInv, ~Away
  PROVE  /\ client.server \in Server /\ client.port \in Port
         /\ client.char \in Char
         /\ Mine = session[<<client.server, client.port>>]
         /\ Mine \in SessionType /\ Named(Mine)
  BY TypeNames DEF TypeInv, ClientNamed, SessionNamed, Mine, Named

\* The client with one field changed.
LEMMA ClientFields ==
  ASSUME NEW c \in ClientType
  PROVE  /\ \A x \in {"out", "lobby", "entering", "in", "zoning", "leaving"} :
               [c EXCEPT !.state = x] \in ClientType
         /\ \A x \in 0 .. Word - 1 : [c EXCEPT !.key = x] \in ClientType
         /\ \A x \in Server : [c EXCEPT !.server = x] \in ClientType
         /\ \A x \in Zone \cup {NoZone} : [c EXCEPT !.dest = x] \in ClientType
  BY DEF ClientType

\* The client moves on to the zone it was sent to.
LEMMA MovedType ==
  ASSUME TypeInv, client.state \in {"zoning", "leaving"}
  PROVE  /\ Moved \in ClientType
         /\ client.state = "leaving" => Moved = Offline
         /\ client.state = "zoning" =>
               /\ Moved.state = "entering" /\ Moved.char = client.char
               /\ Moved.key = NextKey(client.key) /\ Moved.port = client.port
               /\ Moved.server = ServerOf[client.dest] /\ Moved.server \in Server
  <1>1. client \in ClientType
    BY TypeNames DEF TypeInv
  <1>2. CASE client.state = "leaving"
    BY <1>2, ClosedType DEF Moved
  <1>3. CASE client.state = "zoning"
    <2>1. ServerOf[client.dest] \in Server /\ NextKey(client.key) \in 0 .. Word - 1
      BY <1>1, <1>3, NextKeyType DEF TypeInv, ClientNamed, ClientType
    <2> DEFINE a == [client EXCEPT !.state = "entering"]
               b == [a EXCEPT !.key = NextKey(client.key)]
               c == [b EXCEPT !.server = ServerOf[client.dest]]
    <2>2. a \in ClientType
      BY <1>1, ClientFields
    <2>3. b \in ClientType
      BY <2>1, <2>2, ClientFields
    <2>4. c \in ClientType
      BY <2>1, <2>3, ClientFields
    <2>5. [c EXCEPT !.dest = NoZone] \in ClientType
      BY <2>4, ClientFields
    <2>6. Moved = [c EXCEPT !.dest = NoZone]
      BY <1>1, <1>3 DEF Moved, ClientType
    <2>7. /\ Moved.state = "entering" /\ Moved.char = client.char
          /\ Moved.key = NextKey(client.key) /\ Moved.port = client.port
          /\ Moved.server = ServerOf[client.dest]
      BY <1>1, <1>3 DEF Moved, ClientType
    <2> QED BY <1>3, <2>1, <2>5, <2>6, <2>7
  <1> QED BY <1>2, <1>3

\* The initial states are well typed.
LEMMA TypeInit == Init => TypeInv
  <1> SUFFICES ASSUME Init PROVE TypeInv
    OBVIOUS
  <1>1. TypeOK
    BY ClosedType, TypeNames DEF Init
  <1>2. RowNamed /\ SessionNamed /\ ClientNamed
    BY DEF Init, RowNamed, SessionNamed, ClientNamed, Away, Offline, Closed
  <1> QED BY <1>1, <1>2 DEF TypeInv

\* The login server keeps the types.
LEMMA TypeLogin ==
  ASSUME TypeInv,
         \/ LoginAttempt \/ Login
         \/ \E c \in Char : ChooseRefused(c)
         \/ \E m \in loginMsg : HandleLoginMsg(m)
  PROVE  TypeInv'
  <1>1. /\ row \in RowType /\ pos_zone \in [Char -> Zone] /\ newChars \subseteq Char
        /\ session \in [Server \X Port -> SessionType]
        /\ loginMsg \subseteq [to : Server, char : Char] /\ client \in ClientType
    BY TypeNames DEF TypeInv
  <1>2. CASE LoginAttempt
    <2>1. [Offline EXCEPT !.state = "lobby"] \in ClientType
      BY ClosedType, ClientFields
    <2>2. row # NoRow => [to |-> row.server, char |-> row.char] \in [to : Server, char : Char]
      BY DEF TypeInv, RowNamed
    <2>3. TypeOK'
      BY <1>1, <1>2, <2>1, <2>2, TypeNames DEF LoginAttempt
    <2>4. client'.state = "lobby"
      BY <1>2 DEF LoginAttempt, Offline
    <2> QED BY <1>2, <2>3, <2>4
         DEF LoginAttempt, TypeInv, RowNamed, SessionNamed, ClientNamed, Away
  <1>3. ASSUME NEW c \in Char, NEW k \in Key, NEW p \in Port, ChooseCharacter(c, k, p)
        PROVE  TypeInv'
    <2>1. ServerOf[pos_zone[c]] \in Server
      BY <1>1
    <2>2. row' \in RowType /\ row'.char \in Char /\ row'.server \in Server
      BY <1>3, <2>1, FirstKeys DEF ChooseCharacter, RowType, Unused
    <2>3. /\ client' \in ClientType /\ client'.state = "entering"
          /\ client'.char \in Char /\ client'.server \in Server /\ client'.port \in Port
      BY <1>3, <2>1, FirstKeys DEF ChooseCharacter, ClientType
    <2>4. TypeOK'
      BY <1>1, <1>3, <2>2, <2>3, TypeNames DEF ChooseCharacter
    <2>5. SessionNamed'
      BY <1>3 DEF ChooseCharacter, TypeInv, SessionNamed
    <2> QED BY <2>2, <2>3, <2>4, <2>5 DEF TypeInv, RowNamed, ClientNamed
  <1>4. ASSUME NEW m \in loginMsg, HandleLoginMsg(m)
        PROVE  TypeInv'
    <2>1. row' \in RowType /\ RowNamed'
      BY <1>1, <1>4, RowWithoutType DEF HandleLoginMsg, TypeInv, RowNamed
    <2>2. TypeOK'
      BY <1>1, <1>4, <2>1, TypeNames DEF HandleLoginMsg
    <2> QED BY <1>4, <2>1, <2>2
         DEF HandleLoginMsg, TypeInv, SessionNamed, ClientNamed, Away
  <1>5. ASSUME NEW c \in Char, ChooseRefused(c)
        PROVE  TypeInv'
    <2>1. TypeOK'
      BY <1>1, <1>5, TypeNames DEF ChooseRefused
    <2> QED BY <1>5, <2>1
         DEF ChooseRefused, TypeInv, RowNamed, SessionNamed, ClientNamed, Away
  <1> QED BY <1>2, <1>3, <1>4, <1>5 DEF Login

\* The zone-in keeps the types.
LEMMA TypeEnterZone ==
  ASSUME TypeInv, NEW answered \in BOOLEAN, EnterZone(answered)
  PROVE  TypeInv'
  <1> DEFINE old == IF Mine.char = NoChar THEN Loaded(client.char) ELSE Mine
             new == ZonedIn(old)
             r == IF old.status = "disappear" THEN RowTakenUp(client.port, new) ELSE row
  <1>1. ~Away
    BY DEF EnterZone, Away
  <1>2. old \in SessionType /\ old.dest \in Zone
    BY <1>1, MineType, LoadedType, TypeNames DEF Named, TypeInv
  <1>3. new \in SessionType /\ Named(new)
    BY <1>2, ZonedInType DEF Named
  <1>4. r \in RowType /\ (r # NoRow => r.char \in Char /\ r.server \in Server)
    <2>1. CASE old.status = "disappear" /\ row.char = new.char
      <3>1. row \in RowType /\ new.zone = old.dest /\ new.key \in 0 .. Word - 1
        <4>1. new.zone = old.dest
          BY <1>2, <2>1, ZonedInType
        <4>2. new.key \in 0 .. Word - 1
          BY <1>3 DEF SessionType
        <4> QED BY <4>1, <4>2, TypeNames DEF TypeInv
      <3>2. ServerOf[new.zone] \in Server
        BY <1>2, <3>1
      <3>3. r = [[[row EXCEPT !.key = new.key] EXCEPT !.server = ServerOf[new.zone]]
                    EXCEPT !.port = client.port]
        BY <2>1 DEF RowTakenUp
      <3>4. r \in RowType /\ r.char = row.char /\ r.server \in Server
        BY <1>1, <3>1, <3>2, <3>3, MineType DEF RowType
      <3>5. row.char \in Char
        <4>1. new.char \in Char
          <5>1. new.char = old.char
            BY <1>2, ZonedInType
          <5>2. old.char \in Char
            BY <1>1, MineType, LoadedType DEF SessionType
          <5> QED BY <5>1, <5>2
        <4> QED BY <2>1, <4>1
      <3> QED BY <3>4, <3>5
    <2>2. CASE ~(old.status = "disappear" /\ row.char = new.char)
      BY <2>2, TypeNames DEF RowTakenUp, TypeInv, RowNamed
    <2> QED BY <2>1, <2>2
  <1>5. Served(client.server, client.port, new, r)
    BY DEF EnterZone
  <1> HIDE DEF old, new, r
  <1>6. /\ session' \in [Server \X Port -> SessionType] /\ SessionNamed'
        /\ row' \in RowType /\ RowNamed'
    BY <1>1, <1>3, <1>4, <1>5, ServedType, MineType
  <1>7. client' \in ClientType /\ ClientNamed'
    <2>1. client \in ClientType /\ client.state = "entering"
      BY TypeNames DEF TypeInv, EnterZone
    <2>2. client' = client \/ client' = [client EXCEPT !.state = "in"]
      BY DEF EnterZone
    <2> QED BY <1>1, <2>1, <2>2, ClientFields
         DEF TypeInv, ClientNamed, Away, ClientType
  <1>8. UNCHANGED <<pos_zone, newChars, loginMsg>>
    BY DEF EnterZone
  <1>9. TypeOK'
    BY <1>6, <1>7, <1>8, TypeNames DEF TypeInv
  <1> QED BY <1>6, <1>7, <1>9 DEF TypeInv

\* What the client's session becomes when the client is sent to zone z, when it
\* leaves the game, and what map_cleanup makes of a session.
Sent(se, z) == [[[se EXCEPT !.status = "disappear"] EXCEPT !.dest = z] EXCEPT !.idle = FALSE]
Leaving(se) == [[se EXCEPT !.status = "shutdown"] EXCEPT !.idle = FALSE]
Removed(se) == Dezoned([se EXCEPT !.status = "shutdown"])

\* What 0x05E makes of a session.
LEMMA SentType ==
  ASSUME NEW se \in SessionType, NEW z \in Zone
  PROVE  /\ Sent(se, z) \in SessionType /\ Sent(se, z).char = se.char
         /\ Sent(se, z).key = se.key /\ Sent(se, z).status = "disappear"
         /\ Sent(se, z).zone = se.zone /\ Sent(se, z).dest = z
         /\ Sent(se, z).shuttingDown = se.shuttingDown
  <1> DEFINE a == [se EXCEPT !.status = "disappear"]
             b == [a EXCEPT !.dest = z]
  <1>1. a \in SessionType
    BY FieldTypes DEF Status
  <1>2. b \in SessionType
    BY <1>1, FieldTypes
  <1>3. [b EXCEPT !.idle = FALSE] \in SessionType
    BY <1>2, FieldTypes
  <1>4. /\ a.char = se.char /\ a.key = se.key /\ a.status = "disappear"
        /\ a.zone = se.zone /\ a.shuttingDown = se.shuttingDown
    BY DEF SessionType
  <1>5. /\ b.char = a.char /\ b.key = a.key /\ b.status = a.status
        /\ b.zone = a.zone /\ b.shuttingDown = a.shuttingDown /\ b.dest = z
    BY <1>1 DEF SessionType
  <1> QED BY <1>2, <1>3, <1>4, <1>5 DEF Sent, SessionType

\* What 0x0E7 makes of a session.
LEMMA LeavingType ==
  ASSUME NEW se \in SessionType
  PROVE  /\ Leaving(se) \in SessionType /\ Leaving(se).char = se.char
         /\ Leaving(se).key = se.key /\ Leaving(se).status = "shutdown"
         /\ Leaving(se).zone = se.zone /\ Leaving(se).dest = se.dest
         /\ Leaving(se).shuttingDown = se.shuttingDown
  <1> DEFINE a == [se EXCEPT !.status = "shutdown"]
  <1>1. a \in SessionType
    BY FieldTypes DEF Status
  <1>2. [a EXCEPT !.idle = FALSE] \in SessionType
    BY <1>1, FieldTypes
  <1>3. /\ a.char = se.char /\ a.key = se.key /\ a.status = "shutdown"
        /\ a.zone = se.zone /\ a.dest = se.dest /\ a.shuttingDown = se.shuttingDown
    BY DEF SessionType
  <1> QED BY <1>1, <1>2, <1>3 DEF Leaving, SessionType

\* What the first visit of map_cleanup makes of a session.
LEMMA RemovedType ==
  ASSUME NEW se \in SessionType
  PROVE  /\ Removed(se) \in SessionType /\ Removed(se).char = se.char
         /\ Removed(se).key = se.key /\ Removed(se).status = "disappear"
         /\ Removed(se).zone = NoZone /\ Removed(se).dest = se.dest
         /\ Removed(se).shuttingDown = 1
  <1> DEFINE a == [se EXCEPT !.status = "shutdown"]
  <1>1. a \in SessionType
    BY FieldTypes DEF Status
  <1>2. a.char = se.char /\ a.key = se.key /\ a.status = "shutdown" /\ a.dest = se.dest
    BY DEF SessionType
  <1> HIDE DEF a
  <1>3. Dezoned(a) = [a EXCEPT !.shuttingDown = 1, !.zone = NoZone,
                               !.status = "disappear"]
    BY <1>2 DEF Dezoned
  <1>4. /\ Dezoned(a).shuttingDown = 1 /\ Dezoned(a).zone = NoZone
        /\ Dezoned(a).status = "disappear"
    BY <1>1, <1>3 DEF SessionType
  <1> QED BY <1>1, <1>2, <1>4, DezonedType DEF Removed, a

\* The steps that set one session to what it was with fields changed.
LEMMA SessionSteps ==
  ASSUME TypeInv
  PROVE  /\ \A z \in Zone : RequestZone(z) =>
               session' = [session EXCEPT ![<<client.server, client.port>>] = Sent(Mine, z)]
         /\ RequestLogout =>
               session' = [session EXCEPT ![<<client.server, client.port>>] = Leaving(Mine)]
         /\ \A s \in Server, p \in Port :
               /\ TimeOut(s, p) =>
                     session' = [session EXCEPT ![<<s, p>>] =
                                    [session[<<s, p>>] EXCEPT !.idle = TRUE]]
               /\ CleanupChar(s, p) =>
                     session' = [session EXCEPT ![<<s, p>>] = Removed(session[<<s, p>>])]
  <1>1. ASSUME NEW z \in Zone, RequestZone(z)
        PROVE  session' = [session EXCEPT ![<<client.server, client.port>>] = Sent(Mine, z)]
    BY <1>1 DEF RequestZone, Sent, Mine
  <1>2. ASSUME RequestLogout
        PROVE  session' = [session EXCEPT ![<<client.server, client.port>>] = Leaving(Mine)]
    BY <1>2 DEF RequestLogout, Leaving, Mine
  <1>3. ASSUME NEW s \in Server, NEW p \in Port, TimeOut(s, p)
        PROVE  session' = [session EXCEPT ![<<s, p>>] =
                                    [session[<<s, p>>] EXCEPT !.idle = TRUE]]
    BY <1>3 DEF TimeOut
  <1>4. ASSUME NEW s \in Server, NEW p \in Port, CleanupChar(s, p)
        PROVE  session' = [session EXCEPT ![<<s, p>>] = Removed(session[<<s, p>>])]
    BY <1>4 DEF CleanupChar, Removed
  <1> QED BY <1>1, <1>2, <1>3, <1>4

\* The requests to leave the zone keep the types.
LEMMA TypeRequests ==
  ASSUME TypeInv, RequestLogout \/ \E z \in Zone : RequestZone(z)
  PROVE  TypeInv'
  <1>1. ~Away
    BY DEF RequestLogout, RequestZone, Away
  <1>2. client \in ClientType
    BY TypeNames DEF TypeInv
  <1>3. CASE RequestLogout
    <2>1. Leaving(Mine) \in SessionType /\ Named(Leaving(Mine))
      BY <1>1, MineType, LeavingType DEF Named
    <2>2. session' \in [Server \X Port -> SessionType] /\ SessionNamed'
      <3>1. session' = [session EXCEPT ![<<client.server, client.port>>] = Leaving(Mine)]
        BY <1>3, SessionSteps
      <3>2. client.server \in Server /\ client.port \in Port
        BY <1>1, MineType
      <3> QED BY <2>1, <3>1, <3>2, SessionSet
    <2>3. client' \in ClientType /\ ClientNamed'
      <3>1. client' = [client EXCEPT !.state = "leaving"]
        BY <1>3 DEF RequestLogout
      <3>2. client' \in ClientType
        BY <1>2, <3>1, ClientFields
      <3> QED BY <1>1, <1>2, <3>1, <3>2 DEF TypeInv, ClientNamed, Away, ClientType
    <2>4. TypeOK'
      BY <1>3, <2>2, <2>3, TypeNames DEF RequestLogout, TypeInv
    <2> QED BY <1>3, <2>2, <2>3, <2>4 DEF RequestLogout, TypeInv, RowNamed
  <1>4. ASSUME NEW z \in Zone, RequestZone(z) PROVE TypeInv'
    <2>1. Sent(Mine, z) \in SessionType /\ Named(Sent(Mine, z))
      BY <1>1, MineType, SentType DEF Named
    <2>2. session' \in [Server \X Port -> SessionType] /\ SessionNamed'
      <3>1. session' = [session EXCEPT ![<<client.server, client.port>>] = Sent(Mine, z)]
        BY <1>4, SessionSteps
      <3>2. client.server \in Server /\ client.port \in Port
        BY <1>1, MineType
      <3> QED BY <2>1, <3>1, <3>2, SessionSet
    <2>3. client' \in ClientType /\ ClientNamed'
      <3> DEFINE a == [client EXCEPT !.state = "zoning"]
      <3>1. a \in ClientType
        BY <1>2, ClientFields
      <3>2. client' = [a EXCEPT !.dest = z]
        BY <1>4 DEF RequestZone
      <3>3. client' \in ClientType
        BY <3>1, <3>2, ClientFields
      <3> QED BY <1>1, <1>2, <3>2, <3>3 DEF TypeInv, ClientNamed, Away, ClientType
    <2>4. row' \in RowType /\ RowNamed'
      <3>1. row \in RowType /\ ServerOf[z] \in Server
        BY TypeNames DEF TypeInv
      <3>2. \/ row' = row
            \/ row' = [row EXCEPT !.server = ServerOf[z]] /\ row.char = Mine.char
        BY <1>4 DEF RequestZone, SentTo
      <3>3. Mine.char \in Char
        BY <1>1, <1>4, MineType DEF RequestZone, Reads, SessionType
      <3> QED BY <3>1, <3>2, <3>3 DEF RowType, RowNamed, TypeInv
    <2>5. pos_zone' \in [Char -> Zone]
      BY <1>4, TypeNames DEF RequestZone, SentTo, TypeInv
    <2>6. TypeOK'
      BY <1>4, <2>2, <2>3, <2>4, <2>5, TypeNames DEF RequestZone, TypeInv
    <2> QED BY <2>2, <2>3, <2>4, <2>6 DEF TypeInv
  <1> QED BY <1>3, <1>4

\* The way out of the zone keeps the types.
LEMMA TypeDezone ==
  ASSUME TypeInv, LoseDezone \/ \E answered \in BOOLEAN : Dezone(answered)
  PROVE  TypeInv'
  <1>1. ~Away /\ client.state \in {"zoning", "leaving"}
    BY DEF LoseDezone, Dezone, Away
  <1>2. client' = Moved \/ client' = client
    BY DEF LoseDezone, Dezone
  <1>3. client' \in ClientType /\ ClientNamed'
    <2>1. CASE client' = client
      BY <2>1, TypeNames DEF TypeInv, ClientNamed, Away
    <2>2. CASE client' = Moved
      BY <1>1, <2>2, MovedType, MineType
         DEF ClientNamed, Away, Offline, ClientType
    <2> QED BY <1>2, <2>1, <2>2
  <1>4. CASE LoseDezone
    <2>1. TypeOK'
      BY <1>3, <1>4, TypeNames DEF LoseDezone, TypeInv
    <2> QED BY <1>3, <1>4, <2>1 DEF LoseDezone, TypeInv, RowNamed, SessionNamed
  <1>5. ASSUME NEW answered \in BOOLEAN, Dezone(answered) PROVE TypeInv'
    <2> DEFINE se == IF Reads(Mine) /\ Mine.zone # NoZone THEN Dezoned(Mine)
                     ELSE Opened(client.server, client.port)
    <2>1. (se \in SessionType /\ Named(se)) \/ se.shuttingDown > 0
      BY <1>1, MineType, DezonedType, OpenedType
    <2>2. Served(client.server, client.port, se, row)
      BY <1>5 DEF Dezone
    <2> HIDE DEF se
    <2>3. row \in RowType /\ (row # NoRow => row.char \in Char /\ row.server \in Server)
      BY TypeNames DEF TypeInv, RowNamed
    <2>4. /\ session' \in [Server \X Port -> SessionType] /\ SessionNamed'
          /\ row' \in RowType /\ RowNamed'
      BY <1>1, <2>1, <2>2, <2>3, ServedType, MineType
    <2>5. TypeOK'
      BY <1>3, <1>5, <2>4, TypeNames DEF Dezone, TypeInv
    <2> QED BY <1>3, <2>4, <2>5 DEF TypeInv
  <1> QED BY <1>4, <1>5

\* What the client does otherwise keeps the types.
LEMMA TypeClient ==
  ASSUME TypeInv, KeepAlive \/ GiveUp \/ ClientCrash
  PROVE  TypeInv'
  <1>1. CASE KeepAlive
    <2>1. ~Away
      BY <1>1 DEF KeepAlive, Away
    <2>2. row \in RowType /\ (row # NoRow => row.char \in Char /\ row.server \in Server)
      BY TypeNames DEF TypeInv, RowNamed
    <2>3. /\ session' \in [Server \X Port -> SessionType] /\ SessionNamed'
          /\ row' \in RowType /\ RowNamed'
      BY <1>1, <2>1, <2>2, ServedType, MineType, OpenedType DEF KeepAlive
    <2>4. TypeOK'
      BY <1>1, <2>3, TypeNames DEF KeepAlive, TypeInv
    <2> QED BY <1>1, <2>3, <2>4 DEF KeepAlive, TypeInv, ClientNamed, Away
  <1>2. CASE GiveUp \/ ClientCrash
    <2>1. client' = Offline /\ UNCHANGED <<row, pos_zone, newChars, session, loginMsg>>
      BY <1>2 DEF GiveUp, ClientCrash
    <2>2. TypeOK'
      BY <2>1, ClosedType, TypeNames DEF TypeInv
    <2> QED BY <2>1, <2>2
         DEF TypeInv, RowNamed, SessionNamed, ClientNamed, Away, Offline
  <1> QED BY <1>1, <1>2

\* What the map servers do on their own keeps the types.
LEMMA TypeServer ==
  ASSUME TypeInv,
         \/ \E s \in Server, p \in Port : TimeOut(s, p) \/ Cleanup(s, p)
         \/ \E s \in Server : Restart(s)
  PROVE  TypeInv'
  <1>1. UNCHANGED <<pos_zone, newChars, loginMsg, client>>
    BY DEF TimeOut, Cleanup, CleanupChar, CleanupSession, CleanupEmpty, Restart
  <1>2. row' \in RowType /\ RowNamed'
    <2>1. row' = row \/ row' = NoRow \/ \E c : row' = RowWithout(c)
      BY DEF TimeOut, Cleanup, CleanupChar, CleanupSession, CleanupEmpty, Restart
    <2> QED BY <2>1, RowWithoutType, ClosedType, TypeNames DEF TypeInv, RowNamed
  <1>3. session' \in [Server \X Port -> SessionType] /\ SessionNamed'
    <2>1. \A s \in Server, p \in Port :
             session[<<s, p>>] \in SessionType /\ Named(session[<<s, p>>])
      BY TypeNames DEF TypeInv, SessionNamed, Named
    <2>2. ASSUME NEW s \in Server, NEW p \in Port, TimeOut(s, p)
          PROVE  session' \in [Server \X Port -> SessionType] /\ SessionNamed'
      <3> DEFINE se == [session[<<s, p>>] EXCEPT !.idle = TRUE]
      <3>1. se \in SessionType
        BY <2>1, FieldTypes
      <3>2. Named(se)
        BY <2>1 DEF Named, SessionType
      <3> HIDE DEF se
      <3>3. session' = [session EXCEPT ![<<s, p>>] = se]
        BY <2>2, SessionSteps DEF se
      <3> QED BY <3>1, <3>2, <3>3, SessionSet
    <2>3. ASSUME NEW s \in Server, NEW p \in Port, CleanupChar(s, p)
          PROVE  session' \in [Server \X Port -> SessionType] /\ SessionNamed'
      <3>1. Removed(session[<<s, p>>]) \in SessionType /\ Named(Removed(session[<<s, p>>]))
        BY <2>1, RemovedType DEF Named
      <3>2. session' = [session EXCEPT ![<<s, p>>] = Removed(session[<<s, p>>])]
        BY <2>3, SessionSteps
      <3> QED BY <3>1, <3>2, SessionSet
    <2>4. ASSUME NEW s \in Server, NEW p \in Port, CleanupSession(s, p) \/ CleanupEmpty(s, p)
          PROVE  session' \in [Server \X Port -> SessionType] /\ SessionNamed'
      <3>1. session' = [session EXCEPT ![<<s, p>>] = Closed]
        BY <2>4 DEF CleanupSession, CleanupEmpty
      <3> QED BY <3>1, SessionSet, ClosedType DEF Named
    <2>5. ASSUME NEW s \in Server, Restart(s)
          PROVE  session' \in [Server \X Port -> SessionType] /\ SessionNamed'
      <3>1. session' = [at \in Server \X Port |-> IF at[1] = s THEN Closed ELSE session[at]]
        BY <2>5 DEF Restart
      <3>2. session' \in [Server \X Port -> SessionType]
        BY <3>1, ClosedType, TypeNames DEF TypeInv
      <3>3. \A t \in Server, q \in Port : session'[<<t, q>>] \in {Closed, session[<<t, q>>]}
        BY <3>1
      <3> QED BY <3>2, <3>3, ClosedType DEF SessionNamed, TypeInv
    <2> QED BY <2>2, <2>3, <2>4, <2>5 DEF Cleanup
  <1>4. TypeOK'
    BY <1>1, <1>2, <1>3, TypeNames DEF TypeInv
  <1> QED BY <1>1, <1>2, <1>3, <1>4 DEF TypeInv, ClientNamed, Away

\* A step of something else keeps the types.
LEMMA TypeStutter == ASSUME TypeInv, UNCHANGED vars PROVE TypeInv'
  BY TypeNames DEF vars, TypeInv, RowNamed, SessionNamed, ClientNamed, Away

\* Every reachable state is well typed, whatever the circumstances.
THEOREM TypeCorrect == Spec => []TypeOK
  <1>1. Init => TypeInv
    BY TypeInit
  <1>2. TypeInv /\ [Next]_vars => TypeInv'
    BY TypeLogin, TypeEnterZone, TypeRequests, TypeDezone, TypeClient, TypeServer,
       TypeStutter DEF Next
  <1>3. TypeInv => TypeOK
    BY DEF TypeInv
  <1> QED BY <1>1, <1>2, <1>3, PTL DEF Spec

-----------------------------------------------------------------------------
(***************************************************************************)
(* Who owns the row                                                        *)
(***************************************************************************)
\* No 0x00D is lost or missed by a client on its way to another server, no
\* such client crashes, and nobody logs in while his last session is closing.
Baseline == Trouble \subseteq {"restart", "outage"}

\* The row is the session's.
Owns(s, p) ==
    LET se == session[<<s, p>>]
    IN /\ row.char = se.char /\ row.key = se.key
       /\ row.port = p /\ row.server = ServerOf[se.dest]

\* It was, and was deleted: by MSG_LOGIN after the character had left its
\* zone, or by the restart of the server the client is on its way to.
Orphan(s, p) ==
    /\ row = NoRow
    /\ Crossing \/ (Away /\ session[<<s, p>>].shuttingDown = 1)

SessionOK(s, p) ==
    LET se == session[<<s, p>>]
    IN /\ se.char \in Char /\ se.dest \in Zone
       /\ se.status \in {"normal", "disappear", "shutdown"}
       /\ se.shuttingDown = 0 => se.zone \in Zone /\ ServerOf[se.zone] = s
       /\ se.shuttingDown = 1 => se.zone = NoZone /\ se.status = "disappear"
       /\ ServerOf[se.dest] # s => client.state = "zoning" /\ se.status = "disappear"
       /\ Owns(s, p) \/ Orphan(s, p)
       /\ ~Away => client.server = s /\ client.port = p /\ client.char = se.char

Open(s, p) == session[<<s, p>>] # Closed

SessionsOK == \A s \in Server, p \in Port : Open(s, p) => SessionOK(s, p)

OneOpen ==
    \A s, t \in Server, p, q \in Port : Open(s, p) /\ Open(t, q) => s = t /\ p = q

\* While a MSG_LOGIN is under way the player has not logged in, and a
\* character it names is in no zone but of the server it goes to.
MessagesOK ==
    /\ loginMsg # {} => Away
    /\ \A m \in loginMsg, s \in Server, p \in Port :
          Open(s, p) /\ session[<<s, p>>].shuttingDown = 0
             /\ session[<<s, p>>].char = m.char => m.to = s

\* The row that lets the client in.
Expected ==
    /\ row.char = client.char /\ row.server = client.server
    /\ NextKey(row.key) = client.key
    /\ ServerOf[pos_zone[client.char]] = client.server

\* What the client may find where it sends to.
Entering ==
    client.state = "entering" =>
        /\ Mine = Closed => row = NoRow \/ Expected
        /\ Mine # Closed => \/ /\ Mine.status = "normal" /\ ~Mine.idle
                               /\ Mine.key = client.key
                            \/ Mine.status = "disappear" /\ NextKey(Mine.key) = client.key

Inside ==
    client.state \in {"in", "zoning", "leaving"} =>
        /\ Mine = Closed => row = NoRow
        /\ Mine # Closed => Mine.key = client.key

Staying ==
    client.state = "in" /\ Mine # Closed =>
        Mine.status = "normal" \/ Mine.shuttingDown = 1

Going ==
    client.state = "zoning" /\ Mine # Closed =>
        /\ Mine.status = "disappear" /\ Mine.dest = client.dest
        /\ pos_zone[client.char] = client.dest

Quitting ==
    client.state = "leaving" /\ Mine # Closed =>
        Mine.status = "shutdown" \/ Mine.shuttingDown = 1

ClientOK == Entering /\ Inside /\ Staying /\ Going /\ Quitting

PlayInv == TypeInv /\ SessionsOK /\ OneOpen /\ MessagesOK /\ ClientOK

-----------------------------------------------------------------------------
\* A client that has chosen a character has all there is.
LEMMA MineOnly ==
  ASSUME PlayInv, ~Away
  PROVE  /\ \A s \in Server, p \in Port :
               Open(s, p) => s = client.server /\ p = client.port
         /\ Mine # Closed => SessionOK(client.server, client.port)
         /\ loginMsg = {}
  <1>1. client.server \in Server /\ client.port \in Port
    BY MineType DEF PlayInv
  <1> QED BY <1>1 DEF PlayInv, SessionsOK, SessionOK, Open, MessagesOK, Mine

\* Unless it is on its way to another server, a session of a character that
\* is in a zone, and any session of a client that has one, owns the row.
LEMMA MineOwns ==
  ASSUME PlayInv, NEW s \in Server, NEW p \in Port, Open(s, p), ~Crossing,
         ~Away \/ session[<<s, p>>].shuttingDown = 0
  PROVE  Owns(s, p)
  BY DEF PlayInv, SessionsOK, Orphan, SessionOK

\* What has to be shown of a step of the client.
LEMMA MineStep ==
  ASSUME PlayInv, ~Away, loginMsg' = loginMsg,
         \A t \in Server, q \in Port :
            <<t, q>> # <<client.server, client.port>> =>
               session'[<<t, q>>] = session[<<t, q>>],
         \A s \in Server, p \in Port :
            s = client.server /\ p = client.port /\ Open(s, p)' => SessionOK(s, p)'
  PROVE  SessionsOK' /\ OneOpen' /\ MessagesOK'
  <1>1. /\ client.server \in Server /\ client.port \in Port
        /\ \A s \in Server, p \in Port :
              Open(s, p) => s = client.server /\ p = client.port
        /\ loginMsg' = {}
    BY MineOnly, MineType DEF PlayInv
  <1>2. \A s \in Server, p \in Port :
           Open(s, p)' => s = client.server /\ p = client.port
    BY <1>1 DEF Open
  <1>3. SessionsOK'
    BY <1>2 DEF SessionsOK
  <1>4. OneOpen'
    BY <1>2 DEF OneOpen
  <1>5. MessagesOK'
    BY <1>1 DEF MessagesOK
  <1> QED BY <1>3, <1>4, <1>5

\* All sessions are closed.
LEMMA NothingOpen ==
  ASSUME \A s \in Server, p \in Port : session'[<<s, p>>] = Closed,
         loginMsg' = {} \/ Away'
  PROVE  SessionsOK' /\ OneOpen' /\ MessagesOK'
  BY DEF SessionsOK, OneOpen, MessagesOK, Open

-----------------------------------------------------------------------------
(***************************************************************************)
(* The login server's steps                                                *)
(***************************************************************************)
LEMMA PlayInit == Init => PlayInv
  <1> SUFFICES ASSUME Init PROVE PlayInv
    OBVIOUS
  <1>1. TypeInv
    BY TypeInit
  <1>2. \A s \in Server, p \in Port : ~Open(s, p)
    BY DEF Init, Open
  <1>3. client.state = "out" /\ loginMsg = {}
    BY DEF Init, Offline
  <1>4. SessionsOK /\ OneOpen /\ MessagesOK
    BY <1>2, <1>3 DEF SessionsOK, OneOpen, MessagesOK
  <1>5. ClientOK
    BY <1>3 DEF ClientOK, Entering, Inside, Staying, Going, Quitting
  <1> QED BY <1>1, <1>4, <1>5 DEF PlayInv

\* MSG_LOGIN goes to the server the character is on.
LEMMA PlayLoginAttempt ==
  ASSUME PlayInv, LoginAttempt
  PROVE  SessionsOK' /\ OneOpen' /\ MessagesOK' /\ ClientOK'
  <1>1. client.state = "out" /\ client'.state = "lobby"
        /\ UNCHANGED <<row, session>>
    BY DEF LoginAttempt, Offline
  <1>2. SessionsOK'
    <2> SUFFICES ASSUME NEW s \in Server, NEW p \in Port, Open(s, p)'
                 PROVE  SessionOK(s, p)'
      BY DEF SessionsOK
    <2>1. SessionOK(s, p)
      BY <1>1 DEF Open, PlayInv, SessionsOK
    <2> QED BY <1>1, <2>1 DEF SessionOK, Owns, Orphan, Away, Crossing
  <1>3. OneOpen'
    BY <1>1 DEF PlayInv, OneOpen, Open
  <1>4. MessagesOK'
    <2>1. ASSUME NEW m \in loginMsg', NEW s \in Server, NEW p \in Port,
                 Open(s, p), session[<<s, p>>].shuttingDown = 0,
                 session[<<s, p>>].char = m.char
          PROVE  m.to = s
      <3>1. CASE m \in loginMsg
        BY <2>1, <3>1 DEF PlayInv, MessagesOK
      <3>2. CASE m = [to |-> row.server, char |-> row.char]
        <4>1. Owns(s, p) /\ ServerOf[session[<<s, p>>].dest] = s
          BY <1>1, <2>1, MineOwns DEF Crossing, PlayInv, SessionsOK, SessionOK
        <4> QED BY <3>2, <4>1 DEF Owns
      <3> QED BY <3>1, <3>2, <2>1 DEF LoginAttempt
    <2> QED BY <1>1, <2>1 DEF MessagesOK, Open, Away
  <1>5. ClientOK'
    BY <1>1 DEF ClientOK, Entering, Inside, Staying, Going, Quitting
  <1> QED BY <1>2, <1>3, <1>4, <1>5

\* The message deletes the row of no character in a zone.
LEMMA PlayLoginMsg ==
  ASSUME PlayInv, NEW m \in loginMsg, HandleLoginMsg(m)
  PROVE  SessionsOK' /\ OneOpen' /\ MessagesOK' /\ ClientOK'
  <1>1. /\ Away /\ UNCHANGED <<session, client>>
        /\ loginMsg' = loginMsg \ {m}
        /\ row' = IF IsHere(m.to, m.char) THEN row ELSE RowWithout(m.char)
    BY DEF HandleLoginMsg, PlayInv, MessagesOK
  <1>2. SessionsOK'
    <2> SUFFICES ASSUME NEW s \in Server, NEW p \in Port, Open(s, p)'
                 PROVE  SessionOK(s, p)'
      BY DEF SessionsOK
    <2>1. Open(s, p) /\ SessionOK(s, p)
      BY <1>1 DEF Open, PlayInv, SessionsOK
    <2>2. CASE row' = row
      BY <1>1, <2>1, <2>2 DEF SessionOK, Owns, Orphan, Away, Crossing
    <2>3. CASE row' # row
      <3>1. row' = NoRow /\ row.char = m.char /\ ~IsHere(m.to, m.char)
        BY <1>1, <2>3 DEF RowWithout
      <3>2. row # NoRow
        BY <2>3, <3>1
      <3>3. session[<<s, p>>].char = m.char
        BY <2>1, <3>1, <3>2 DEF SessionOK, Owns, Orphan
      <3>4. session[<<s, p>>].shuttingDown # 0
        <4>1. SUFFICES ASSUME session[<<s, p>>].shuttingDown = 0 PROVE FALSE
          OBVIOUS
        <4>2. m.to = s
          BY <2>1, <3>3, <4>1 DEF PlayInv, MessagesOK
        <4>3. session[<<s, p>>].zone # NoZone
          BY <2>1, <4>1 DEF SessionOK
        <4> QED BY <3>1, <3>3, <4>2, <4>3 DEF IsHere
      <3>5. session[<<s, p>>].shuttingDown = 1
        <4>1. session[<<s, p>>].shuttingDown \in 0 .. 1
          BY TypeNames DEF PlayInv, TypeInv, SessionType
        <4> QED BY <3>4, <4>1
      <3> QED BY <1>1, <2>1, <3>1, <3>5 DEF SessionOK, Orphan, Away
    <2> QED BY <2>2, <2>3
  <1>3. OneOpen'
    BY <1>1 DEF PlayInv, OneOpen, Open
  <1>4. MessagesOK'
    BY <1>1 DEF PlayInv, MessagesOK, Open, Away
  <1>5. ClientOK'
    BY <1>1 DEF ClientOK, Entering, Inside, Staying, Going, Quitting, Away
  <1> QED BY <1>2, <1>3, <1>4, <1>5

\* A row that no map server has taken up is nobody's, so all is closed.
LEMMA PlayChoose ==
  ASSUME PlayInv, Baseline, NEW c \in Char, NEW k \in Key, NEW p \in Port,
         ChooseCharacter(c, k, p)
  PROVE  SessionsOK' /\ OneOpen' /\ MessagesOK' /\ ClientOK'
  <1>1. /\ client.state = "lobby" /\ row.port = NoPort /\ loginMsg = {}
        /\ \A at \in Server \X Port : session[at].shuttingDown = 0
        /\ UNCHANGED <<pos_zone, session, loginMsg>>
    BY DEF ChooseCharacter, MayReplace, Unused, Baseline
  <1>2. ASSUME NEW s \in Server, NEW q \in Port PROVE session[<<s, q>>] = Closed
    <2>1. SUFFICES ASSUME Open(s, q) PROVE FALSE
      BY DEF Open
    <2>2. session[<<s, q>>].shuttingDown = 0
      BY <1>1
    <2>3. Owns(s, q)
      BY <1>1, <2>1, <2>2, MineOwns DEF Crossing
    <2>4. NoPort \notin Port
      OBVIOUS
    <2> QED BY <1>1, <2>3, <2>4 DEF Owns
  <1>3. SessionsOK' /\ OneOpen' /\ MessagesOK'
    BY <1>1, <1>2, NothingOpen
  <1>4. /\ client'.state = "entering" /\ client'.char = c /\ client'.key = FirstKey(k, c)
        /\ client'.server = ServerOf[pos_zone[c]] /\ client'.port = p
        /\ row'.char = c /\ row'.key = LobbyKey(k, c) /\ row'.server = ServerOf[pos_zone[c]]
    BY DEF ChooseCharacter
  <1>5. Expected'
    BY <1>1, <1>4, FirstKeys DEF Expected, NextKey
  <1>6. Mine' = Closed
    <2>1. ServerOf[pos_zone[c]] \in Server
      BY TypeNames DEF PlayInv, TypeInv
    <2> QED BY <1>1, <1>2, <1>4, <2>1 DEF Mine
  <1>7. ClientOK'
    BY <1>4, <1>5, <1>6 DEF ClientOK, Entering, Inside, Staying, Going, Quitting
  <1> QED BY <1>3, <1>7

-----------------------------------------------------------------------------
(***************************************************************************)
(* The client's steps                                                      *)
(***************************************************************************)
\* The session the client gets is in play, with its key, and owns the row.
LEMMA PlayEnterZone ==
  ASSUME PlayInv, NEW answered \in BOOLEAN, EnterZone(answered)
  PROVE  SessionsOK' /\ OneOpen' /\ MessagesOK' /\ ClientOK'
  <1> DEFINE at == <<client.server, client.port>>
             old == IF Mine.char = NoChar THEN Loaded(client.char) ELSE Mine
             new == ZonedIn(old)
             r == IF old.status = "disappear" THEN RowTakenUp(client.port, new) ELSE row
  <1>1. /\ ~Away /\ ~Crossing /\ client.state = "entering"
        /\ client.server \in Server /\ client.port \in Port /\ client.char \in Char
        /\ Mine = session[at] /\ Mine \in SessionType /\ Named(Mine)
    BY MineType DEF EnterZone, Away, Crossing, PlayInv
  <1>2. Mine # Closed \/ row # NoRow
    BY DEF EnterZone
  <1>3. Served(client.server, client.port, new, r)
    BY DEF EnterZone
  <1>4. /\ client'.server = client.server /\ client'.port = client.port
        /\ client'.char = client.char /\ client'.key = client.key
        /\ client'.state \in {"entering", "in"} /\ loginMsg' = loginMsg
    BY <1>1, TypeNames DEF EnterZone, PlayInv, TypeInv, ClientType
  <1>5. /\ old \in SessionType /\ old.char = client.char
        /\ old.dest \in Zone /\ ServerOf[old.dest] = client.server
        /\ row.char = old.char /\ row.key = old.key
        /\ row.server = client.server
        /\ \/ old.status = "disappear" /\ NextKey(old.key) = client.key
           \/ /\ old.status = "normal" /\ old.key = client.key /\ row.port = client.port
              /\ old.zone \in Zone /\ ServerOf[old.zone] = client.server
              /\ old.shuttingDown = 0
    <2>1. CASE Mine = Closed
      <3>1. Expected
        BY <1>1, <1>2, <2>1 DEF PlayInv, ClientOK, Entering
      <3>2. old = Loaded(client.char)
        BY <2>1, ClosedType
      <3>3. old.key = row.key
        BY <3>1, <3>2 DEF Loaded, Expected
      <3>4. /\ old \in SessionType /\ old.char = client.char /\ old.status = "disappear"
            /\ old.dest = pos_zone[client.char] /\ old.dest \in Zone
        BY <1>1, <3>2, LoadedType, TypeNames DEF PlayInv, TypeInv
      <3> QED BY <3>1, <3>3, <3>4 DEF Expected
    <2>2. CASE Mine # Closed
      <3>1. SessionOK(client.server, client.port) /\ Owns(client.server, client.port)
        BY <1>1, <2>2, MineOnly, MineOwns DEF Open
      <3>2. Mine.char = client.char /\ old = Mine
        BY <1>1, <3>1 DEF SessionOK
      <3>3. \/ Mine.status = "normal" /\ Mine.key = client.key
            \/ Mine.status = "disappear" /\ NextKey(Mine.key) = client.key
        BY <1>1, <2>2 DEF PlayInv, ClientOK, Entering
      <3>4. ServerOf[Mine.dest] = client.server /\ Mine.dest \in Zone
        BY <1>1, <3>1 DEF SessionOK
      <3>5. /\ row.char = Mine.char /\ row.key = Mine.key
            /\ row.port = client.port /\ row.server = client.server
        BY <1>1, <3>1, <3>4 DEF Owns
      <3>6. Mine.status = "normal" =>
               Mine.shuttingDown = 0 /\ Mine.zone \in Zone
                  /\ ServerOf[Mine.zone] = client.server
        <4>1. Mine.shuttingDown \in 0 .. 1
          BY <1>1 DEF SessionType
        <4> QED BY <1>1, <3>1, <4>1 DEF SessionOK
      <3> QED BY <1>1, <3>2, <3>3, <3>4, <3>5, <3>6
    <2> QED BY <2>1, <2>2
  <1>6. /\ new \in SessionType /\ new.char = client.char /\ new.status = "normal"
        /\ new.dest = old.dest /\ new.zone \in Zone /\ ServerOf[new.zone] = client.server
        /\ new.shuttingDown = 0 /\ new.key = client.key /\ ~new.idle
    <2>1. ~new.idle
      BY <1>5 DEF ZonedIn, Dezoned, SessionType
    <2> QED BY <1>5, <2>1, ZonedInType
  <1>7. /\ r.char = client.char /\ r.key = client.key
        /\ r.port = client.port /\ r.server = client.server
    <2>1. CASE old.status = "disappear"
      <3>1. r = [row EXCEPT !.key = new.key, !.server = ServerOf[new.zone],
                            !.port = client.port]
        BY <1>5, <1>6, <2>1 DEF RowTakenUp
      <3>2. row \in RowType
        BY TypeNames DEF PlayInv, TypeInv
      <3> QED BY <1>5, <1>6, <3>1, <3>2 DEF RowType
    <2>2. CASE old.status # "disappear"
      BY <1>5, <2>2
    <2> QED BY <2>1, <2>2
  <1> HIDE DEF new, r
  <1>8. session' = [session EXCEPT ![at] = new] /\ row' = r
    BY <1>3, <1>6 DEF Served
  <1>9. /\ session'[at] = new
        /\ \A t \in Server, q \in Port : <<t, q>> # at => session'[<<t, q>>] = session[<<t, q>>]
    BY <1>1, <1>8, TypeNames DEF PlayInv, TypeInv
  <1>10. ASSUME NEW s \in Server, NEW p \in Port, s = client.server, p = client.port
         PROVE  SessionOK(s, p)'
    <2>1. session'[<<s, p>>] = new
      BY <1>9, <1>10
    <2>2. Owns(s, p)'
      <3>1. row'.char = new.char /\ row'.key = new.key
        BY <1>6, <1>7, <1>8
      <3>2. row'.port = p /\ row'.server = ServerOf[new.dest]
        BY <1>5, <1>6, <1>7, <1>8, <1>10
      <3> QED BY <2>1, <3>1, <3>2 DEF Owns
    <2>3. /\ new.char \in Char /\ new.dest \in Zone /\ ServerOf[new.dest] = s
          /\ new.zone \in Zone /\ ServerOf[new.zone] = s
          /\ new.status = "normal" /\ new.shuttingDown = 0
          /\ client'.server = s /\ client'.port = p /\ client'.char = new.char
      BY <1>1, <1>4, <1>5, <1>6, <1>10
    <2> HIDE DEF old
    <2> QED BY <2>1, <2>2, <2>3 DEF SessionOK
  <1>11. SessionsOK' /\ OneOpen' /\ MessagesOK'
    BY <1>1, <1>4, <1>9, <1>10, MineStep
  <1>12. Mine' = new /\ new # Closed
    BY <1>4, <1>6, <1>9 DEF Mine, Closed
  <1>13. ClientOK'
    BY <1>4, <1>6, <1>12 DEF ClientOK, Entering, Inside, Staying, Going, Quitting
  <1> QED BY <1>11, <1>13

\* A session that reads the client is in play and owns the row.
LEMMA Plays ==
  ASSUME PlayInv, client.state = "in", Reads(Mine), Mine.status = "normal"
  PROVE  /\ ~Away /\ ~Crossing /\ Mine # Closed
         /\ client.server \in Server /\ client.port \in Port
         /\ Mine \in SessionType
         /\ Mine.char \in Char /\ Mine.char = client.char /\ Mine.key = client.key
         /\ Mine.shuttingDown = 0
         /\ Mine.zone \in Zone /\ ServerOf[Mine.zone] = client.server
         /\ Mine.dest \in Zone /\ ServerOf[Mine.dest] = client.server
         /\ row.char = Mine.char /\ row.key = Mine.key
         /\ row.port = client.port /\ row.server = client.server
         /\ loginMsg = {}
  <1>1. ~Away /\ ~Crossing /\ Mine # Closed
    BY DEF Away, Crossing, Reads, Closed
  <1>2. /\ client.server \in Server /\ client.port \in Port
        /\ Mine = session[<<client.server, client.port>>] /\ Mine \in SessionType
    BY <1>1, MineType DEF PlayInv
  <1>3. SessionOK(client.server, client.port) /\ Owns(client.server, client.port)
        /\ loginMsg = {}
    BY <1>1, <1>2, MineOnly, MineOwns DEF Open
  <1>4. Mine.shuttingDown = 0
    <2>1. Mine.shuttingDown \in 0 .. 1
      BY <1>2 DEF SessionType
    <2> QED BY <1>2, <1>3, <2>1 DEF SessionOK
  <1>5. ServerOf[Mine.dest] = client.server
    BY <1>2, <1>3 DEF SessionOK
  <1> QED BY <1>1, <1>2, <1>3, <1>4, <1>5 DEF SessionOK, Owns, Reads

\* 0x05E: row and session go to the new zone together.
LEMMA PlayRequestZone ==
  ASSUME PlayInv, NEW z \in Zone, RequestZone(z)
  PROVE  SessionsOK' /\ OneOpen' /\ MessagesOK' /\ ClientOK'
  <1> DEFINE at == <<client.server, client.port>>
             new == Sent(Mine, z)
  <1>1. client.state = "in" /\ Reads(Mine) /\ Mine.status = "normal"
    BY DEF RequestZone
  <1>2. /\ new \in SessionType /\ new.char = client.char /\ new.char \in Char
        /\ new.key = client.key /\ new.status = "disappear"
        /\ new.zone \in Zone /\ ServerOf[new.zone] = client.server
        /\ new.dest = z /\ new.shuttingDown = 0
    BY <1>1, Plays, SentType
  <1> HIDE DEF new
  <1>3. /\ session'[at] = new
        /\ \A t \in Server, q \in Port : <<t, q>> # at => session'[<<t, q>>] = session[<<t, q>>]
    <2>1. session' = [session EXCEPT ![at] = new]
      BY SessionSteps DEF PlayInv, new
    <2> QED BY <1>1, <2>1, Plays, TypeNames DEF PlayInv, TypeInv
  <1>4. /\ client'.server = client.server /\ client'.port = client.port
        /\ client'.char = client.char /\ client'.key = client.key
        /\ client'.state = "zoning" /\ client'.dest = z /\ loginMsg' = loginMsg
    BY TypeNames DEF RequestZone, PlayInv, TypeInv, ClientType
  <1>5. /\ row'.char = client.char /\ row'.key = client.key
        /\ row'.port = client.port /\ row'.server = ServerOf[z]
        /\ pos_zone'[client.char] = z
    <2>1. row' = [row EXCEPT !.server = ServerOf[z]]
          /\ pos_zone' = [pos_zone EXCEPT ![client.char] = z]
      BY <1>1, Plays DEF RequestZone, SentTo
    <2> QED BY <1>1, <2>1, Plays, TypeNames DEF PlayInv, TypeInv, RowType
  <1>6. ASSUME NEW s \in Server, NEW p \in Port, s = client.server, p = client.port
        PROVE  SessionOK(s, p)'
    <2>1. session'[<<s, p>>] = new
      BY <1>3, <1>6
    <2>2. Owns(s, p)'
      BY <1>2, <1>5, <1>6, <2>1 DEF Owns
    <2>3. client'.server = s /\ client'.port = p /\ client'.char = new.char
      BY <1>2, <1>4, <1>6
    <2> QED BY <1>2, <1>4, <1>6, <2>1, <2>2, <2>3 DEF SessionOK
  <1>7. SessionsOK' /\ OneOpen' /\ MessagesOK'
    BY <1>1, <1>3, <1>4, <1>6, Plays, MineStep
  <1>8. Mine' = new /\ new # Closed
    BY <1>2, <1>3, <1>4 DEF Mine, Closed
  <1>9. ClientOK'
    BY <1>2, <1>4, <1>5, <1>8 DEF ClientOK, Entering, Inside, Staying, Going, Quitting
  <1> QED BY <1>7, <1>9

\* 0x0E7: the character stays where it is until 0x00D.
LEMMA PlayRequestLogout ==
  ASSUME PlayInv, RequestLogout
  PROVE  SessionsOK' /\ OneOpen' /\ MessagesOK' /\ ClientOK'
  <1> DEFINE at == <<client.server, client.port>>
             new == Leaving(Mine)
  <1>1. client.state = "in" /\ Reads(Mine) /\ Mine.status = "normal"
    BY DEF RequestLogout
  <1>2. /\ new \in SessionType /\ new.char = client.char /\ new.char \in Char
        /\ new.key = client.key /\ new.status = "shutdown"
        /\ new.zone \in Zone /\ ServerOf[new.zone] = client.server
        /\ new.dest = Mine.dest /\ new.shuttingDown = 0
    BY <1>1, Plays, LeavingType
  <1> HIDE DEF new
  <1>3. /\ session'[at] = new
        /\ \A t \in Server, q \in Port : <<t, q>> # at => session'[<<t, q>>] = session[<<t, q>>]
    <2>1. session' = [session EXCEPT ![at] = new]
      BY SessionSteps DEF PlayInv, new
    <2> QED BY <1>1, <2>1, Plays, TypeNames DEF PlayInv, TypeInv
  <1>4. /\ client'.server = client.server /\ client'.port = client.port
        /\ client'.char = client.char /\ client'.key = client.key
        /\ client'.state = "leaving" /\ loginMsg' = loginMsg /\ row' = row
    BY TypeNames DEF RequestLogout, PlayInv, TypeInv, ClientType
  <1>5. ASSUME NEW s \in Server, NEW p \in Port, s = client.server, p = client.port
        PROVE  SessionOK(s, p)'
    <2>1. session'[<<s, p>>] = new
      BY <1>3, <1>5
    <2>2. Owns(s, p)'
      BY <1>1, <1>2, <1>4, <1>5, <2>1, Plays DEF Owns
    <2>3. /\ client'.server = s /\ client'.port = p /\ client'.char = new.char
          /\ new.dest \in Zone /\ ServerOf[new.dest] = s
      BY <1>1, <1>2, <1>4, <1>5, Plays
    <2> QED BY <1>2, <1>4, <1>5, <2>1, <2>2, <2>3 DEF SessionOK
  <1>6. SessionsOK' /\ OneOpen' /\ MessagesOK'
    BY <1>1, <1>3, <1>4, <1>5, Plays, MineStep
  <1>7. Mine' = new /\ new # Closed
    BY <1>2, <1>3, <1>4 DEF Mine, Closed
  <1>8. ClientOK'
    BY <1>2, <1>4, <1>7 DEF ClientOK, Entering, Inside, Staying, Going, Quitting
  <1> QED BY <1>6, <1>8

\* A client that goes away leaves a session that owns the row, or one that is
\* being closed.
LEMMA PlayGone ==
  ASSUME PlayInv, ~Crossing, client' = Offline,
         UNCHANGED <<row, pos_zone, newChars, session, loginMsg>>
  PROVE  SessionsOK' /\ OneOpen' /\ MessagesOK' /\ ClientOK'
  <1>1. Away' /\ client'.state = "out"
    BY DEF Offline, Away
  <1>2. SessionsOK'
    <2> SUFFICES ASSUME NEW s \in Server, NEW p \in Port, Open(s, p)'
                 PROVE  SessionOK(s, p)'
      BY DEF SessionsOK
    <2>1. Open(s, p) /\ SessionOK(s, p)
      BY DEF Open, PlayInv, SessionsOK
    <2>2. Owns(s, p)' \/ Orphan(s, p)'
      BY <1>1, <2>1 DEF SessionOK, Owns, Orphan
    <2>3. ServerOf[session[<<s, p>>].dest] = s
      <3>1. CASE client.state # "zoning"
        BY <2>1, <3>1 DEF SessionOK
      <3>2. CASE client.state = "zoning"
        <4>1. ~Away
          BY <3>2 DEF Away
        <4>2. Mine = session[<<s, p>>] /\ client.server = s /\ client.port = p
          BY <2>1, <4>1, MineOnly DEF Mine
        <4>3. Mine.dest = client.dest
          BY <2>1, <3>2, <4>2 DEF Open, PlayInv, ClientOK, Going
        <4> QED BY <3>2, <4>2, <4>3 DEF Crossing
      <3> QED BY <3>1, <3>2
    <2> QED BY <1>1, <2>1, <2>2, <2>3 DEF SessionOK
  <1>3. OneOpen' /\ MessagesOK'
    BY <1>1 DEF PlayInv, OneOpen, MessagesOK, Open
  <1>4. ClientOK'
    BY <1>1 DEF ClientOK, Entering, Inside, Staying, Going, Quitting
  <1> QED BY <1>2, <1>3, <1>4

\* 0x00D closes the session; the row stays if the character moves on.
LEMMA PlayDezone ==
  ASSUME PlayInv, Baseline, NEW answered \in BOOLEAN, Dezone(answered)
  PROVE  SessionsOK' /\ OneOpen' /\ MessagesOK' /\ ClientOK'
  <1> DEFINE at == <<client.server, client.port>>
             se == IF Reads(Mine) /\ Mine.zone # NoZone THEN Dezoned(Mine)
                   ELSE Opened(client.server, client.port)
  <1>1. /\ ~Away /\ client.state \in {"zoning", "leaving"}
        /\ client.server \in Server /\ client.port \in Port /\ client.char \in Char
        /\ Mine = session[at] /\ Mine \in SessionType
    BY MineType DEF Dezone, Away, PlayInv
  <1>2. /\ client' = Moved /\ Served(client.server, client.port, se, row)
        /\ UNCHANGED <<pos_zone, loginMsg>>
    BY DEF Dezone, Baseline
  <1> HIDE DEF se
  <1>3. ASSUME Mine # Closed
        PROVE  /\ session' = [session EXCEPT ![at] = Closed]
               /\ \/ row' = NoRow
                  \/ /\ row' = row /\ client.state = "zoning"
                     /\ row.char = client.char /\ row.key = client.key
                     /\ row.server = ServerOf[client.dest]
                     /\ pos_zone[client.char] = client.dest
    <2>1. /\ SessionOK(client.server, client.port)
          /\ Mine.key = client.key /\ Mine.char = client.char
          /\ Mine.shuttingDown \in 0 .. 1
          /\ \/ row = NoRow
             \/ /\ row.char = Mine.char /\ row.key = Mine.key
                /\ row.server = ServerOf[Mine.dest]
      <3>1. SessionOK(client.server, client.port)
        BY <1>1, <1>3, MineOnly
      <3>2. row = NoRow \/ Owns(client.server, client.port)
        BY <3>1 DEF SessionOK, Orphan
      <3> QED BY <1>1, <1>3, <3>1, <3>2
           DEF PlayInv, ClientOK, Inside, SessionOK, SessionType, Owns
    <2>2. CASE Mine.shuttingDown = 1
      <3>1. Mine.zone = NoZone
        BY <1>1, <2>1, <2>2 DEF SessionOK
      <3>2. se = [Mine EXCEPT !.idle = FALSE]
        BY <1>1, <1>3, <3>1 DEF Opened, se
      <3>3. se.shuttingDown = 1 /\ se.char = Mine.char
        BY <1>1, <2>2, <3>2 DEF SessionType
      <3>4. session' = [session EXCEPT ![at] = Closed] /\ row' = RowWithout(Mine.char)
        BY <1>2, <3>3 DEF Served
      <3> QED BY <2>1, <3>4 DEF RowWithout
    <2>3. CASE Mine.shuttingDown = 0
      <3>1. se = Dezoned(Mine)
        BY <1>1, <2>1, <2>3 DEF SessionOK, Reads, se
      <3>2. se.shuttingDown > 0 /\ se.char = Mine.char
        BY <1>1, <3>1, DezonedType
      <3>3. session' = [session EXCEPT ![at] = Closed]
        BY <1>2, <3>2 DEF Served
      <3>4. CASE client.state = "leaving"
        <4>1. Mine.status = "shutdown"
          BY <1>3, <2>3, <3>4 DEF PlayInv, ClientOK, Quitting
        <4>2. se.shuttingDown = 1
          BY <1>1, <3>1, <4>1 DEF Dezoned, SessionType
        <4> QED BY <1>2, <2>1, <3>2, <3>3, <4>2 DEF Served, RowWithout
      <3>5. CASE client.state = "zoning"
        <4>1. /\ Mine.status = "disappear" /\ Mine.dest = client.dest
              /\ pos_zone[client.char] = client.dest
          BY <1>3, <3>5 DEF PlayInv, ClientOK, Going
        <4>2. row' = row \/ row' = RowWithout(se.char)
          BY <1>2 DEF Served
        <4> QED BY <2>1, <3>2, <3>3, <3>5, <4>1, <4>2 DEF RowWithout
      <3> QED BY <1>1, <3>4, <3>5
    <2> QED BY <2>1, <2>2, <2>3
  <1>4. /\ \A s \in Server, p \in Port : session'[<<s, p>>] = Closed
        /\ \/ row' = NoRow
           \/ /\ row' = row /\ client.state = "zoning"
              /\ row.char = client.char /\ row.key = client.key
              /\ row.server = ServerOf[client.dest]
              /\ pos_zone[client.char] = client.dest
    <2>1. /\ session' = [session EXCEPT ![at] = Closed]
          /\ row' = NoRow \/ Mine # Closed
      <3>1. CASE Mine = Closed
        <4>1. row = NoRow /\ Opened(client.server, client.port) = Closed /\ ~Reads(Mine)
          BY <1>1, <3>1 DEF PlayInv, ClientOK, Inside, Opened, Reads, Closed
        <4>2. Served(client.server, client.port, Closed, NoRow)
          BY <1>2, <4>1 DEF se
        <4> QED BY <4>2 DEF Served, Closed
      <3> QED BY <1>3, <3>1
    <2>2. /\ session'[at] = Closed
          /\ \A s \in Server, p \in Port :
                <<s, p>> # at => session'[<<s, p>>] = session[<<s, p>>]
      <3>1. TypeInv /\ Closed \in SessionType /\ Named(Closed)
        BY ClosedType DEF PlayInv, Named
      <3> QED BY <1>1, <2>1, <3>1, SessionSet
    <2>3. ASSUME NEW s \in Server, NEW p \in Port PROVE session'[<<s, p>>] = Closed
      <3>1. CASE <<s, p>> = at
        BY <2>2, <3>1
      <3>2. CASE <<s, p>> # at
        <4>1. session[<<s, p>>] = Closed
          BY <1>1, <3>2, MineOnly DEF Open
        <4> QED BY <2>2, <3>2, <4>1
      <3> QED BY <3>1, <3>2
    <2> QED BY <1>3, <2>1, <2>3
  <1>5. loginMsg' = {}
    BY <1>1, <1>2, MineOnly
  <1>6. SessionsOK' /\ OneOpen' /\ MessagesOK'
    BY <1>4, <1>5, NothingOpen
  <1>7. ClientOK'
    <2>1. CASE client.state = "leaving"
      <3>1. client'.state = "out"
        BY <1>2, <2>1 DEF Moved, Offline
      <3> QED BY <3>1 DEF ClientOK, Entering, Inside, Staying, Going, Quitting
    <2>2. CASE client.state = "zoning"
      <3>1. /\ client'.state = "entering" /\ client'.char = client.char
            /\ client'.key = NextKey(client.key) /\ client'.port = client.port
            /\ client'.server = ServerOf[client.dest] /\ client'.server \in Server
        BY <1>2, <2>2, MovedType DEF PlayInv
      <3>2. Mine' = Closed
        BY <1>1, <1>4, <3>1 DEF Mine
      <3>3. row' = NoRow \/ Expected'
        BY <1>2, <1>4, <3>1 DEF Expected, NextKey
      <3> QED BY <3>1, <3>2, <3>3
           DEF ClientOK, Entering, Inside, Staying, Going, Quitting
    <2> QED BY <1>1, <2>1, <2>2
  <1> QED BY <1>6, <1>7

\* A server with other zones of its own is entered without 0x00D.
LEMMA PlayLoseDezone ==
  ASSUME PlayInv, Baseline, LoseDezone
  PROVE  SessionsOK' /\ OneOpen' /\ MessagesOK' /\ ClientOK'
  <1>1. /\ ~Crossing /\ client' = Moved /\ client.state \in {"zoning", "leaving"}
        /\ UNCHANGED <<row, pos_zone, newChars, session, loginMsg>>
    BY DEF LoseDezone, Baseline
  <1>2. CASE client.state = "leaving"
    BY <1>1, <1>2, PlayGone DEF Moved
  <1>3. CASE client.state = "zoning"
    <2>1. /\ ~Away /\ client.server \in Server /\ client.port \in Port
          /\ client.char \in Char /\ Mine = session[<<client.server, client.port>>]
      BY <1>3, MineType DEF Away, PlayInv
    <2>2. /\ client'.state = "entering" /\ client'.char = client.char
          /\ client'.key = NextKey(client.key) /\ client'.port = client.port
          /\ client'.server = client.server
      BY <1>1, <1>3, MovedType DEF PlayInv, Crossing
    <2>3. ASSUME NEW s \in Server, NEW p \in Port,
                 s = client.server, p = client.port, Open(s, p)'
          PROVE  SessionOK(s, p)'
      <3>1. SessionOK(s, p) /\ Owns(s, p) /\ Mine # Closed /\ Mine = session[<<s, p>>]
        BY <1>1, <2>1, <2>3, MineOnly, MineOwns DEF Open
      <3>2. Mine.dest = client.dest
        BY <1>3, <3>1 DEF PlayInv, ClientOK, Going
      <3>3. ServerOf[session[<<s, p>>].dest] = s
        BY <1>1, <1>3, <2>3, <3>1, <3>2 DEF Crossing
      <3>4. Owns(s, p)'
        BY <1>1, <3>1 DEF Owns
      <3>5. client.char = session[<<s, p>>].char
        BY <2>1, <3>1 DEF SessionOK
      <3> QED BY <1>1, <2>2, <2>3, <3>1, <3>3, <3>4, <3>5 DEF SessionOK
    <2>4. SessionsOK' /\ OneOpen' /\ MessagesOK'
      BY <1>1, <2>1, <2>3, MineStep
    <2>5. Mine' = Mine
      BY <1>1, <2>2 DEF Mine
    <2>6. ClientOK'
      <3>1. Mine = Closed => row = NoRow
        BY <1>3 DEF PlayInv, ClientOK, Inside
      <3>2. Mine # Closed => Mine.status = "disappear" /\ Mine.key = client.key
        BY <1>3 DEF PlayInv, ClientOK, Inside, Going
      <3> QED BY <1>1, <2>2, <2>5, <3>1, <3>2
           DEF ClientOK, Entering, Inside, Staying, Going, Quitting, NextKey
    <2> QED BY <2>4, <2>6
  <1> QED BY <1>1, <1>2, <1>3

\* A datagram for which no row is left opens no session.
LEMMA PlayKeepAlive ==
  ASSUME PlayInv, KeepAlive
  PROVE  SessionsOK' /\ OneOpen' /\ MessagesOK' /\ ClientOK'
  <1> DEFINE at == <<client.server, client.port>>
             se == Opened(client.server, client.port)
             new == IF se.shuttingDown > 0 THEN Closed ELSE se
  <1>1. /\ ~Away /\ client.state = "in"
        /\ client.server \in Server /\ client.port \in Port
        /\ Mine = session[at] /\ Mine \in SessionType
    BY MineType DEF KeepAlive, Away, PlayInv
  <1>2. /\ session' = [session EXCEPT ![at] = new]
        /\ row' = IF se.shuttingDown = 1 THEN RowWithout(se.char) ELSE row
        /\ UNCHANGED <<pos_zone, loginMsg, client>>
    BY DEF KeepAlive, Served
  <1> HIDE DEF se
  <1>3. new \in SessionType /\ Named(new)
    BY <1>1, OpenedType, ClosedType DEF PlayInv, Named, se
  <1> HIDE DEF new
  <1>4. /\ session'[at] = new
        /\ \A t \in Server, q \in Port : <<t, q>> # at => session'[<<t, q>>] = session[<<t, q>>]
    <2>1. TypeInv
      BY DEF PlayInv
    <2> QED BY <1>1, <1>2, <1>3, <2>1, SessionSet
  <1>5. Mine' = new
    BY <1>2, <1>4 DEF Mine
  <1>6. CASE Mine = Closed
    <2>1. row = NoRow /\ se = Closed
      BY <1>1, <1>6 DEF PlayInv, ClientOK, Inside, Opened, se
    <2>2. new = Closed /\ row' = NoRow
      BY <1>2, <2>1 DEF Closed, new
    <2>3. ASSUME NEW s \in Server, NEW p \in Port, s = client.server, p = client.port
          PROVE  ~Open(s, p)'
      BY <1>4, <2>2, <2>3 DEF Open
    <2>4. SessionsOK' /\ OneOpen' /\ MessagesOK'
      BY <1>1, <1>2, <1>4, <2>3, MineStep
    <2>5. ClientOK'
      BY <1>1, <1>2, <1>5, <2>2 DEF ClientOK, Entering, Inside, Staying, Going, Quitting
    <2> QED BY <2>4, <2>5
  <1>7. ASSUME Mine # Closed, Mine.shuttingDown = 1
        PROVE  SessionsOK' /\ OneOpen' /\ MessagesOK' /\ ClientOK'
    <2>1. row = NoRow \/ row.char = Mine.char
      BY <1>1, <1>7, MineOnly DEF SessionOK, Owns, Orphan
    <2>2. se.shuttingDown = 1 /\ se.char = Mine.char
      BY <1>1, <1>7 DEF Opened, se, SessionType
    <2>3. new = Closed /\ row' = NoRow
      BY <1>2, <2>1, <2>2 DEF RowWithout, new
    <2>4. ASSUME NEW s \in Server, NEW p \in Port, s = client.server, p = client.port
          PROVE  ~Open(s, p)'
      BY <1>4, <2>3, <2>4 DEF Open
    <2>5. SessionsOK' /\ OneOpen' /\ MessagesOK'
      BY <1>1, <1>2, <1>4, <2>4, MineStep
    <2>6. ClientOK'
      BY <1>1, <1>2, <1>5, <2>3 DEF ClientOK, Entering, Inside, Staying, Going, Quitting
    <2> QED BY <2>5, <2>6
  <1>8. ASSUME Mine # Closed, Mine.shuttingDown = 0
        PROVE  SessionsOK' /\ OneOpen' /\ MessagesOK' /\ ClientOK'
    <2>1. /\ new.char = Mine.char /\ new.key = Mine.key /\ new.status = Mine.status
          /\ new.zone = Mine.zone /\ new.dest = Mine.dest /\ new.shuttingDown = 0
          /\ new = se /\ se.shuttingDown = 0
      BY <1>1, <1>8 DEF Opened, se, new, SessionType
    <2>2. row' = row
      BY <1>2, <2>1
    <2>3. /\ SessionOK(client.server, client.port) /\ Owns(client.server, client.port)
          /\ Mine.char \in Char
      BY <1>1, <1>8, MineOnly, MineOwns DEF Open, Crossing, SessionOK
    <2>4. ASSUME NEW s \in Server, NEW p \in Port, s = client.server, p = client.port
          PROVE  SessionOK(s, p)'
      <3>1. session'[<<s, p>>] = new /\ session[<<s, p>>] = Mine
        BY <1>1, <1>4, <2>4
      <3>2. Owns(s, p)'
        BY <2>1, <2>2, <2>3, <2>4, <3>1 DEF Owns
      <3>3. /\ new.char \in Char /\ new.dest \in Zone
            /\ new.status \in {"normal", "disappear", "shutdown"}
            /\ new.zone \in Zone /\ ServerOf[new.zone] = s /\ ServerOf[new.dest] = s
            /\ client.server = s /\ client.port = p /\ client.char = new.char
        <4>1. SessionOK(s, p)
          BY <2>3, <2>4
        <4> QED BY <1>1, <1>8, <2>1, <3>1, <4>1 DEF SessionOK
      <3> QED BY <1>2, <2>1, <3>1, <3>2, <3>3 DEF SessionOK
    <2>5. SessionsOK' /\ OneOpen' /\ MessagesOK'
      BY <1>1, <1>2, <1>4, <2>4, MineStep
    <2>6. Mine.key = client.key /\ Mine.status = "normal" /\ new # Closed
      BY <1>1, <1>8, <2>1, <2>3 DEF PlayInv, ClientOK, Inside, Staying, Closed
    <2>7. ClientOK'
      BY <1>1, <1>2, <1>5, <2>1, <2>6
         DEF ClientOK, Entering, Inside, Staying, Going, Quitting
    <2> QED BY <2>5, <2>7
  <1>9. Mine.shuttingDown \in 0 .. 1
    BY <1>1 DEF SessionType
  <1> QED BY <1>6, <1>7, <1>8, <1>9

\* A client that gives up or ends is in the lobby no more.
LEMMA PlayLeave ==
  ASSUME PlayInv, Baseline, GiveUp \/ ClientCrash
  PROVE  SessionsOK' /\ OneOpen' /\ MessagesOK' /\ ClientOK'
  <1>1. /\ ~Crossing /\ client' = Offline
        /\ UNCHANGED <<row, pos_zone, newChars, session, loginMsg>>
    BY DEF GiveUp, ClientCrash, Baseline, Crossing
  <1> QED BY <1>1, PlayGone

-----------------------------------------------------------------------------
(***************************************************************************)
(* The map servers' steps                                                  *)
(***************************************************************************)
\* A session that changes nothing its owner or its client goes by.
LEMMA PlayOther ==
  ASSUME PlayInv, NEW s \in Server, NEW p \in Port, NEW se,
         Open(s, p), se \in SessionType,
         session' = [session EXCEPT ![<<s, p>>] = se],
         UNCHANGED <<row, pos_zone, newChars, loginMsg, client>>,
         SessionOK(s, p)',
         se.shuttingDown = 0 =>
            se.char = session[<<s, p>>].char /\ session[<<s, p>>].shuttingDown = 0
  PROVE  /\ SessionsOK' /\ OneOpen' /\ MessagesOK'
         /\ ~Away => Mine = session[<<s, p>>] /\ Mine # Closed /\ Mine' = se
  <1>1. session'[<<s, p>>] = se
        /\ \A t \in Server, q \in Port : <<t, q>> # <<s, p>> => session'[<<t, q>>] = session[<<t, q>>]
    BY TypeNames DEF PlayInv, TypeInv
  <1>2. \A t \in Server, q \in Port : Open(t, q)' => t = s /\ q = p
    BY <1>1 DEF PlayInv, OneOpen, Open
  <1>3. SessionsOK'
    BY <1>2 DEF SessionsOK
  <1>4. OneOpen'
    BY <1>2 DEF OneOpen
  <1>5. MessagesOK'
    <2>1. loginMsg' # {} => Away'
      BY DEF PlayInv, MessagesOK, Away
    <2>2. ASSUME NEW m \in loginMsg', NEW t \in Server, NEW q \in Port, Open(t, q)',
                 session'[<<t, q>>].shuttingDown = 0, session'[<<t, q>>].char = m.char
          PROVE  m.to = t
      BY <1>1, <1>2, <2>2 DEF PlayInv, MessagesOK
    <2> QED BY <2>1, <2>2 DEF MessagesOK
  <1>6. ASSUME ~Away
        PROVE  Mine = session[<<s, p>>] /\ Mine # Closed /\ Mine' = se
    BY <1>1, <1>6, MineOnly DEF Mine, Open
  <1> QED BY <1>3, <1>4, <1>5, <1>6

\* An idle session is one still.
LEMMA PlayTimeOut ==
  ASSUME PlayInv, NEW s \in Server, NEW p \in Port, TimeOut(s, p)
  PROVE  SessionsOK' /\ OneOpen' /\ MessagesOK' /\ ClientOK'
  <1> DEFINE old == session[<<s, p>>]
             se == [old EXCEPT !.idle = TRUE]
  <1>1. /\ Open(s, p) /\ SessionOK(s, p)
        /\ session' = [session EXCEPT ![<<s, p>>] = se]
        /\ UNCHANGED <<row, pos_zone, newChars, loginMsg, client>>
        /\ ~ (client.state = "entering" /\ client.server = s /\ client.port = p)
    BY SessionSteps DEF TimeOut, PlayInv, SessionsOK, Open, Attached
  <1>2. old \in SessionType /\ session \in [Server \X Port -> SessionType]
    BY TypeNames DEF PlayInv, TypeInv
  <1>3. /\ se \in SessionType /\ se.char = old.char /\ se.key = old.key
        /\ se.status = old.status /\ se.zone = old.zone /\ se.dest = old.dest
        /\ se.shuttingDown = old.shuttingDown /\ se # Closed
    <2>1. se \in SessionType
      BY <1>2, FieldTypes
    <2> QED BY <1>2, <2>1 DEF SessionType, Closed
  <1> HIDE DEF se
  <1>4. session'[<<s, p>>] = se
    BY <1>1, <1>2
  <1>5. SessionOK(s, p)'
    <2>1. Owns(s, p)' \/ Orphan(s, p)'
      BY <1>1, <1>3, <1>4 DEF SessionOK, Owns, Orphan, Crossing, Away
    <2> QED BY <1>1, <1>3, <1>4, <2>1 DEF SessionOK, Away
  <1>6. /\ SessionsOK' /\ OneOpen' /\ MessagesOK'
        /\ ~Away => Mine = old /\ Mine # Closed /\ Mine' = se
    BY <1>1, <1>3, <1>5, PlayOther
  <1>7. ClientOK'
    <2>1. CASE Away
      BY <1>1, <2>1 DEF Away, ClientOK, Entering, Inside, Staying, Going, Quitting
    <2>2. CASE ~Away
      <3>1. client.server = s /\ client.port = p
        BY <1>1, <2>2, MineOnly
      <3> QED BY <1>1, <1>3, <1>6, <2>2, <3>1
           DEF PlayInv, ClientOK, Entering, Inside, Staying, Going, Quitting
    <2> QED BY <2>1, <2>2
  <1> QED BY <1>6, <1>7

\* map_cleanup, the first visit: the character is in no zone any more.
LEMMA PlayCleanupChar ==
  ASSUME PlayInv, NEW s \in Server, NEW p \in Port, CleanupChar(s, p)
  PROVE  SessionsOK' /\ OneOpen' /\ MessagesOK' /\ ClientOK'
  <1> DEFINE old == session[<<s, p>>]
             se == Removed(old)
  <1>1. /\ old.idle /\ old.shuttingDown = 0 /\ Open(s, p) /\ SessionOK(s, p)
        /\ session' = [session EXCEPT ![<<s, p>>] = se]
        /\ UNCHANGED <<row, pos_zone, newChars, loginMsg, client>>
    <2>1. session' = [session EXCEPT ![<<s, p>>] = se]
      BY SessionSteps DEF PlayInv
    <2>2. Open(s, p)
      BY DEF CleanupChar, Open, Closed
    <2> HIDE DEF se
    <2>3. SessionOK(s, p)
      BY <2>2 DEF PlayInv, SessionsOK
    <2> QED BY <2>1, <2>2, <2>3 DEF CleanupChar
  <1>2. old \in SessionType /\ session \in [Server \X Port -> SessionType]
    BY TypeNames DEF PlayInv, TypeInv
  <1>3. /\ se \in SessionType /\ se.char = old.char /\ se.key = old.key
        /\ se.status = "disappear" /\ se.zone = NoZone /\ se.dest = old.dest
        /\ se.shuttingDown = 1 /\ se # Closed
    <2>1. /\ se \in SessionType /\ se.shuttingDown = 1
          /\ se.char = old.char /\ se.key = old.key
          /\ se.status = "disappear" /\ se.zone = NoZone /\ se.dest = old.dest
      BY <1>2, RemovedType
    <2> QED BY <2>1 DEF Closed
  <1> HIDE DEF se
  <1>4. session'[<<s, p>>] = se
    BY <1>1, <1>2
  <1>5. SessionOK(s, p)'
    <2>1. Owns(s, p)' \/ Orphan(s, p)'
      BY <1>1, <1>3, <1>4 DEF SessionOK, Owns, Orphan, Crossing, Away
    <2> QED BY <1>1, <1>3, <1>4, <2>1 DEF SessionOK, Away
  <1>6. /\ SessionsOK' /\ OneOpen' /\ MessagesOK'
        /\ ~Away => Mine = old /\ Mine # Closed /\ Mine' = se
    BY <1>1, <1>3, <1>5, PlayOther
  <1>7. ClientOK'
    <2>1. CASE Away
      BY <1>1, <2>1 DEF Away, ClientOK, Entering, Inside, Staying, Going, Quitting
    <2>2. CASE ~Away
      BY <1>1, <1>3, <1>6, <2>2
         DEF PlayInv, ClientOK, Entering, Inside, Staying, Going, Quitting
    <2> QED BY <2>1, <2>2
  <1> QED BY <1>6, <1>7

\* map_cleanup, the next visit: the session and its row are gone.
LEMMA PlayCleanupSession ==
  ASSUME PlayInv, NEW s \in Server, NEW p \in Port, CleanupSession(s, p)
  PROVE  SessionsOK' /\ OneOpen' /\ MessagesOK' /\ ClientOK'
  <1>1. /\ Open(s, p) /\ session' = [session EXCEPT ![<<s, p>>] = Closed]
        /\ row' = RowWithout(session[<<s, p>>].char)
        /\ UNCHANGED <<pos_zone, newChars, loginMsg, client>>
    BY DEF CleanupSession, Open, Closed
  <1>2. row' = NoRow
    <2>1. row = NoRow \/ row.char = session[<<s, p>>].char
      BY <1>1 DEF PlayInv, SessionsOK, SessionOK, Owns, Orphan
    <2> QED BY <1>1, <2>1 DEF RowWithout
  <1>3. \A t \in Server, q \in Port : session'[<<t, q>>] = Closed
    <2>1. session \in [Server \X Port -> SessionType]
      BY TypeNames DEF PlayInv, TypeInv
    <2>2. ASSUME NEW t \in Server, NEW q \in Port, <<t, q>> # <<s, p>>
          PROVE  session[<<t, q>>] = Closed
      BY <1>1, <2>2 DEF PlayInv, OneOpen, Open
    <2> QED BY <1>1, <2>1, <2>2
  <1>4. loginMsg' = {} \/ Away'
    BY <1>1 DEF PlayInv, MessagesOK, Away
  <1>5. SessionsOK' /\ OneOpen' /\ MessagesOK'
    BY <1>3, <1>4, NothingOpen
  <1>6. ClientOK'
    <2>1. CASE Away
      BY <1>1, <2>1 DEF Away, ClientOK, Entering, Inside, Staying, Going, Quitting
    <2>2. CASE ~Away
      <3>1. Mine' = Closed
        BY <1>1, <1>3, <2>2, MineType DEF Mine, PlayInv
      <3> QED BY <1>1, <1>2, <3>1
           DEF ClientOK, Entering, Inside, Staying, Going, Quitting
    <2> QED BY <2>1, <2>2
  <1> QED BY <1>5, <1>6

\* Every session is a character's as soon as it is there.
LEMMA PlayCleanupEmpty ==
  ASSUME PlayInv, NEW s \in Server, NEW p \in Port
  PROVE  ~CleanupEmpty(s, p)
  <1>1. SUFFICES ASSUME CleanupEmpty(s, p) PROVE FALSE
    OBVIOUS
  <1>2. Open(s, p) /\ session[<<s, p>>].char = NoChar
    BY <1>1 DEF CleanupEmpty, Open, Closed
  <1> QED BY <1>2 DEF PlayInv, SessionsOK, SessionOK

\* The rows that name the server go with its sessions; that of a client on its
\* way to it goes too, and the client does not get in.
LEMMA PlayRestart ==
  ASSUME PlayInv, Baseline, NEW s \in Server, Restart(s)
  PROVE  SessionsOK' /\ OneOpen' /\ MessagesOK' /\ ClientOK'
  <1>1. /\ ~ (client.state = "zoning" /\ client.server = s)
        /\ UNCHANGED <<pos_zone, newChars, loginMsg, client>>
        /\ row' = IF row.server = s THEN NoRow ELSE row
    BY DEF Restart, Baseline
  <1>2. \A t \in Server, q \in Port :
           session'[<<t, q>>] = IF t = s THEN Closed ELSE session[<<t, q>>]
    BY DEF Restart
  <1>3. SessionsOK'
    <2> SUFFICES ASSUME NEW t \in Server, NEW q \in Port, Open(t, q)'
                 PROVE  SessionOK(t, q)'
      BY DEF SessionsOK
    <2>1. /\ t # s /\ session'[<<t, q>>] = session[<<t, q>>]
          /\ Open(t, q) /\ SessionOK(t, q)
      BY <1>2 DEF Open, PlayInv, SessionsOK
    <2>2. Owns(t, q)' \/ Orphan(t, q)'
      <3>1. CASE row' = row
        BY <1>1, <2>1, <3>1 DEF SessionOK, Owns, Orphan, Crossing, Away
      <3>2. CASE row' # row
        <4>1. row.server = s /\ row' = NoRow /\ row # NoRow
          BY <1>1, <3>2
        <4>2. ServerOf[session[<<t, q>>].dest] # t
          BY <2>1, <4>1 DEF SessionOK, Owns, Orphan
        <4>3. client.state = "zoning" /\ ~Away
          BY <2>1, <4>2 DEF SessionOK, Away
        <4>4. Mine = session[<<t, q>>] /\ Mine # Closed /\ client.server = t
          BY <2>1, <4>3, MineOnly DEF Mine, Open
        <4>5. Crossing
          BY <4>2, <4>3, <4>4 DEF PlayInv, ClientOK, Going, Crossing
        <4>6. Crossing' /\ row' = NoRow
          BY <1>1, <4>1, <4>5 DEF Crossing
        <4>7. Orphan(t, q)'
          BY <4>6 DEF Orphan
        <4> QED BY <4>7
      <3> QED BY <3>1, <3>2
    <2> QED BY <1>1, <2>1, <2>2 DEF SessionOK, Away
  <1>4. OneOpen' /\ MessagesOK'
    BY <1>1, <1>2 DEF PlayInv, OneOpen, MessagesOK, Open, Away
  <1>5. ClientOK'
    <2>1. CASE Away
      BY <1>1, <2>1 DEF Away, ClientOK, Entering, Inside, Staying, Going, Quitting
    <2>2. CASE ~Away
      <3>1. /\ client.server \in Server /\ client.port \in Port
            /\ Mine = session[<<client.server, client.port>>]
        BY <2>2, MineType DEF PlayInv
      <3>2. Mine' = IF client.server = s THEN Closed ELSE Mine
        BY <1>1, <1>2, <3>1 DEF Mine
      <3>3. ASSUME Mine # Closed, client.server = s PROVE row' = NoRow
        <4>1. Owns(client.server, client.port) /\ SessionOK(client.server, client.port)
          BY <1>1, <2>2, <3>1, <3>3, MineOnly, MineOwns DEF Open, Crossing
        <4>2. row.server = s
          BY <1>1, <3>3, <4>1 DEF SessionOK, Owns
        <4> QED BY <1>1, <4>2
      <3>4. CASE Mine' = Mine
        BY <1>1, <2>2, <3>4
           DEF PlayInv, ClientOK, Entering, Inside, Staying, Going, Quitting, Expected
      <3>5. CASE Mine' # Mine
        <4>1. Mine # Closed /\ client.server = s /\ Mine' = Closed /\ row' = NoRow
          BY <3>2, <3>3, <3>5
        <4> QED BY <1>1, <4>1
             DEF ClientOK, Entering, Inside, Staying, Going, Quitting
      <3> QED BY <3>4, <3>5
    <2> QED BY <2>1, <2>2
  <1> QED BY <1>3, <1>4, <1>5

\* A step of something else keeps the invariant, which says nothing of
\* newChars: so does a choice that is refused.
LEMMA PlayStutter ==
  ASSUME PlayInv, UNCHANGED <<row, pos_zone, session, loginMsg, client>>
  PROVE  SessionsOK' /\ OneOpen' /\ MessagesOK' /\ ClientOK'
  <1>1. SessionsOK' /\ OneOpen' /\ MessagesOK'
    BY DEF PlayInv, SessionsOK, SessionOK, Owns, Orphan, OneOpen, MessagesOK, Open,
           Away, Crossing
  <1>2. ClientOK'
    BY DEF PlayInv, ClientOK, Entering, Inside, Staying, Going, Quitting, Mine,
           Expected
  <1> QED BY <1>1, <1>2

-----------------------------------------------------------------------------
(***************************************************************************)
(* The theorems                                                            *)
(***************************************************************************)
\* PlayInv is inductive as long as the datagrams of a zone change arrive.
LEMMA PlayStep ==
  ASSUME Baseline, PlayInv, [Next]_vars
  PROVE  PlayInv'
  <1>1. TypeInv'
    BY TypeLogin, TypeEnterZone, TypeRequests, TypeDezone, TypeClient, TypeServer,
       TypeStutter DEF Next, PlayInv
  <1>2. SessionsOK' /\ OneOpen' /\ MessagesOK' /\ ClientOK'
    <2>1. CASE LoginAttempt \/ Login \/ \E m \in loginMsg : HandleLoginMsg(m)
      BY <2>1, PlayLoginAttempt, PlayChoose, PlayLoginMsg DEF Login
    <2>2. CASE \E answered \in BOOLEAN : EnterZone(answered) \/ Dezone(answered)
      BY <2>2, PlayEnterZone, PlayDezone
    <2>3. CASE RequestLogout \/ LoseDezone \/ \E z \in Zone : RequestZone(z)
      BY <2>3, PlayRequestZone, PlayRequestLogout, PlayLoseDezone
    <2>4. CASE KeepAlive \/ GiveUp \/ ClientCrash
      BY <2>4, PlayKeepAlive, PlayLeave
    <2>5. CASE \E s \in Server, p \in Port : TimeOut(s, p) \/ Cleanup(s, p)
      BY <2>5, PlayTimeOut, PlayCleanupChar, PlayCleanupSession, PlayCleanupEmpty
         DEF Cleanup
    <2>6. CASE \E s \in Server : Restart(s)
      BY <2>6, PlayRestart
    <2>7. CASE UNCHANGED vars
      BY <2>7, PlayStutter DEF vars
    <2>8. CASE \E c \in Char : ChooseRefused(c)
      BY <2>8, PlayStutter DEF ChooseRefused
    <2> QED BY <2>1, <2>2, <2>3, <2>4, <2>5, <2>6, <2>7, <2>8 DEF Next
  <1> QED BY <1>1, <1>2 DEF PlayInv

\* The state of an account: its sessions, its row, its client and the messages
\* about it fit one another, if no 0x00D is lost, missed or overtaken, whatever
\* servers restart, clients crash and sessions time out.
THEOREM PlayInvariant == ASSUME Baseline PROVE Spec => []PlayInv
  <1>1. Init => PlayInv
    BY PlayInit
  <1>2. PlayInv /\ [Next]_vars => PlayInv'
    BY PlayStep
  <1> QED BY <1>1, <1>2, PTL DEF Spec

\* A character in play owns the row, and the row is not of the lobby's kind.
LEMMA PlayingOwns ==
  ASSUME PlayInv, NEW s \in Server, NEW p \in Port, Playing(s, p)
  PROVE  /\ row = [char |-> session[<<s, p>>].char, key |-> session[<<s, p>>].key,
                   server |-> s, port |-> p]
         /\ ServerOf[session[<<s, p>>].zone] = s
         /\ row # NoRow
  <1> DEFINE se == session[<<s, p>>]
  <1>1. Open(s, p) /\ SessionOK(s, p) /\ se.status = "normal"
    BY DEF PlayInv, SessionsOK, Open, Playing, Closed
  <1>2. se.shuttingDown = 0 /\ ServerOf[se.dest] = s /\ ServerOf[se.zone] = s
    <2>1. se.shuttingDown \in 0 .. 1
      BY TypeNames DEF PlayInv, TypeInv, SessionType
    <2> QED BY <1>1, <2>1 DEF SessionOK
  <1>3. ~Crossing
    <2>1. SUFFICES ASSUME Crossing PROVE FALSE
      OBVIOUS
    <2>2. ~Away /\ client.state = "zoning"
      BY <2>1 DEF Crossing, Away
    <2>3. Mine = se /\ Mine # Closed
      BY <1>1, <2>2, MineOnly DEF Mine, Open
    <2> QED BY <1>1, <2>2, <2>3 DEF PlayInv, ClientOK, Going
  <1>4. Owns(s, p)
    BY <1>1, <1>2, <1>3, MineOwns
  <1>5. row \in RowType
    BY TypeNames DEF PlayInv, TypeInv
  <1>6. row.char = se.char /\ row.key = se.key /\ row.server = s /\ row.port = p
    BY <1>2, <1>4 DEF Owns
  <1>7. row # NoRow
    BY <1>6 DEF NoRow
  <1> QED BY <1>2, <1>5, <1>6, <1>7 DEF RowType

\* A character in play has the row that names its session, on a server of its
\* zone.
THEOREM RowOfPlayerAlways == ASSUME Baseline PROVE Spec => []RowOfPlayer
  <1>1. PlayInv => RowOfPlayer
    BY PlayingOwns DEF RowOfPlayer
  <1> QED BY <1>1, PlayInvariant, PTL

\* One character of the account is in play, and once.
THEOREM OneInPlayAlways == ASSUME Baseline PROVE Spec => []OneInPlay
  <1>1. PlayInv => OneInPlay
    <2> SUFFICES ASSUME PlayInv, NEW at \in Server \X Port, NEW bt \in Server \X Port,
                        session[at].status = "normal", session[bt].status = "normal"
                 PROVE  at = bt
      BY DEF OneInPlay
    <2>1. PICK s \in Server, p \in Port : at = <<s, p>>
      OBVIOUS
    <2>2. PICK t \in Server, q \in Port : bt = <<t, q>>
      OBVIOUS
    <2>3. Open(s, p) /\ Open(t, q)
      BY <2>1, <2>2 DEF Open, Closed
    <2> QED BY <2>1, <2>2, <2>3 DEF PlayInv, OneOpen
  <1> QED BY <1>1, PlayInvariant, PTL

\* A server that has let the client's character in reads what the client sends,
\* whatever answers the client missed on the way.
THEOREM SameKeyAlways == ASSUME Baseline PROVE Spec => []SameKey
  <1>1. PlayInv => SameKey
    <2> SUFFICES ASSUME PlayInv, client.state \in {"entering", "in"},
                        Mine.status = "normal"
                 PROVE  Mine.char = client.char /\ Mine.key = client.key
      BY DEF SameKey
    <2>1. ~Away /\ Mine # Closed
      BY DEF Away, Closed
    <2>2. Mine.char = client.char
      BY <2>1, MineOnly, MineType DEF PlayInv, SessionOK
    <2>3. Mine.key = client.key
      BY <2>1 DEF PlayInv, ClientOK, Entering, Inside
    <2> QED BY <2>2, <2>3
  <1> QED BY <1>1, PlayInvariant, PTL

HasRow == \A s \in Server, p \in Port : Playing(s, p) => row # NoRow

\* No step deletes the row of a character that is in play afterwards.
THEOREM NotWhenZoningAlways == ASSUME Baseline PROVE Spec => NotWhenZoning
  <1> DEFINE A == row # NoRow /\ row' = NoRow =>
                     \A at \in Server \X Port :
                        session'[at].status = "normal" => session'[at].char # row.char
  <1>1. PlayInv => HasRow
    BY PlayingOwns DEF HasRow
  <1>2. HasRow' => [A]_vars
    <2> SUFFICES ASSUME HasRow', row' = NoRow, NEW at \in Server \X Port,
                        session'[at].status = "normal"
                 PROVE  FALSE
      OBVIOUS
    <2>1. PICK s \in Server, p \in Port : at = <<s, p>>
      OBVIOUS
    <2>2. Playing(s, p)'
      BY <2>1 DEF Playing
    <2> QED BY <2>2 DEF HasRow
  <1> QED BY <1>1, <1>2, PlayInvariant, PTL DEF NotWhenZoning
=============================================================================
