# Cleopatra-Server in TLA+

Cleopatra-Server is a fork of DarkStar, an emulation of the servers of an
online game: a login server, map servers that run the zones of the world, and a
search server, in C++ over one MySQL database, with the game's content in Lua.
This directory models the parts of it whose correctness depends on the order of
events: the datagram exchange between client and map server, the life of a
login session over several map servers, parties spread over map servers, the
treasure pool, the delivery box, the ways in which items and gil change hands,
and the life of a monster. TLC checks the models on small instances and TLAPS
proves theorems about all of them for every value of the constants.

Paths are relative to `src/src/` unless they begin with `sql/` (which is
`src/sql/`).

## 1. The system

Processes and threads:

* **login server** (`login/`). One thread serves the TCP connections of the
  login client (`login_auth.cpp`) and of the lobby (`lobby.cpp`); a second
  thread relays messages between the map servers (`message_server.cpp`).
* **map servers** (`map/`), each with a set of zones (`zone_settings` in the
  database). One thread runs everything of the game: `do_sockets` receives UDP
  datagrams of the clients, `CTaskMgr::DoTimer` runs the zone ticks and the
  clean-up of sessions. A second thread (`message.cpp`) talks to the relay and
  changes characters and parties in place.
* **search server** (`search/`), a thread per connection, reads the database.
* **the database**, shared by all; each process has its own connection.
* **the game client**, not in the repository.

### Inventory

| component | state | operations | interacts with | what is hard | what makes it correct |
|---|---|---|---|---|---|
| datagram exchange (`map/map.cpp`, packet list of `charentity.cpp`) | ids of the last bundle each way, buffered bundle, packet list | `recv_parse`, `parse`, `send_parse`, `pushPacket` | client over UDP; every handler pushes packets | loss, repetition, late datagrams, ids that wrap, login retried | commands run once and in order, packets delivered once and in order |
| login and sessions (`login/lobby.cpp`, `login_auth.cpp`, `map/map.cpp`, 0x00A, 0x00D, 0x05E, 0x0E7, `message.cpp` MSG_LOGIN) | `accounts_sessions` row, session list of each server, `chars.pos_zone`, key | log in, choose a character, enter a zone, change zone, log out, time out, restart | login server, map servers, relay, database | crashes between any two steps, lost and repeated 0x00D, messages about old rows, a row as a lock | a character is in play at most once, its row says where, nobody is shut out for ever |
| treasure pool (`map/treasure_pool.cpp`) | slots with item, time and lots; members; count; type | add and remove members, add an item, lot, pass, periodic check | zone tick, parties, inventories | early resolution, eviction, lots of members that leave, late lots | an item goes to one member, the highest lot wins, a pass never does, every item leaves |
| parties (`map/party.cpp`, `charutils::ReloadParty`) | `accounts_parties` rows, one `CParty` per server, invitations | invite, join, leave, kick, lead, disband, zone | message relay, both threads, treasure pool | replicas on several servers, messages overtaken, pointers to members that left | replicas agree with the rows when nothing is under way; one leader |
| alliances (`map/alliance.cpp`) | flags in `accounts_parties`, one `CAlliance` per server | add, remove, dissolve | parties | as parties, three levels deep | as parties |
| message relay (`login/message_server.cpp`, `map/message.cpp`) | queues of messages | queue, route by the row of the moment, dispatch | database, all servers | sent only when a receive times out; routed to where a character no longer is | a message reaches the server its character is on |
| delivery box (0x04D, `sql/triggers.sql`) | rows of `delivery_box`; a copy in memory | put in, send, cancel, receive, return, take, drop | inventories, transactions | memory against a rolled back transaction; two players, two servers | an item is in one place; deliveries arrive in order |
| auction house (0x04E) | rows of `auction_house` | list, buy, cancel | delivery box, inventories | two buyers at once | an item is sold once |
| task manager (`common/taskmgr.cpp`) | queue of timers | add, run due tasks, put back | zones, clean-up | late ticks | a task runs once per interval, not before its time |
| trade and bazaar (0x032 to 0x034, 0x104 to 0x10B, `universal_container.cpp`) | offered items, reserves, locks, prices | request, offer, OK, cancel, price, view, buy | two sessions, the bags | pointers to items that go on being used; offers changed behind an OK | an item changes hands once, for what both agreed to |
| inventory and equipment (`item_container.cpp`, `charutils.cpp`) | slots, reserve, database rows | add, move, split, equip | nearly everything | memory against database | they agree |
| AI states (`map/ai/`) | stack of states, queue of actions | change, force, tick, interrupt | zone tick, scripts | states pushed over one another, callbacks in the middle of a tick | one reward per death; a fight ends; a dead monster comes back |
| status effects (`status_effect_container.cpp`) | list of effects | add, overwrite, expire, dispel | scripts run while the list is walked | removal in the middle | no effect outlives its time |
| enmity (`enmity_container.cpp`) | list of who is hated | add, decay, clear | AI, zones | characters that leave the zone | no pointer to one that is gone |
| battlefields, instances (`battlefield*.cpp`, `instance*.cpp`) | registered and entered characters, time | register, enter, win, clean up | scripts, zones | clean-up in the middle of a fight | the arena is free again in the end |
| zones (`zone.cpp`, `zone_entities.cpp`) | lists of entities | enter, leave, tick, spawn | all of the above | lists changed while walked | geometry, mostly |
| linkshells (`linkshell.cpp`) | members on this server | equip, break, chat | relay | | members are the wearers |
| synthesis, fishing | reserved items, timers | start, animate, result | inventory | leaving in the middle | ingredients are used once |
| battle arithmetic, pets, mobs, conquest, weather | tables | formulas | | little control | out of scope |
| packets to the client, Lua bindings, scripts, SQL data, vendored libraries | | | | | out of scope |

`PROJECT.json` has the same list with the status of each component, and the
hazards: the lines of the code where an order of events, a loss, a crash or a
bound matters that a test would hardly reach.

## 2. The modules

| module | role |
|---|---|
| `ReliableChannel` | abstract specification: a queue that delivers prefixes, once and in order, and may be discarded |
| `PacketStream` | `do_sockets`, `recv_parse`, `parse`, `send_parse` and the packet list, with a client and a network that loses, repeats and (optionally) delays |
| `TreasurePool` | `CTreasurePool` and the inventories it gives items to |
| `MapSession` | lobby, `accounts_sessions`, sessions of several map servers, zone changes, clean-up, restart |
| `DeliveryBox` | 0x04D and the triggers of `delivery_box`, for all characters and servers |
| `Party` | `accounts_parties`, the `CParty` objects of all servers, and the messages between them |
| `Exchange` | bags, trades, bazaars, the auction house and synthesis |
| `Mob` | AI states, hate list, claim, death and return of one monster |
| `MC...` | an instance of each for TLC |
| `...Proofs` | theorems about each, section 4 |
| `Sums` | lemmas about sums over finite sets, for what the delivery box and the markets conserve |

The modules share no variable: each keeps what the others touch of it as far as
its own properties need. `Exchange` and `DeliveryBox` both know the bag and the
trigger that pays a seller, `Party` and `MapSession` both know the row of
`accounts_sessions`, `Party` and `TreasurePool` both know who is in a party.
Putting two of them together multiplies their states and was not done.

Definitions in the models that are marked as mutants or as variants in error are
not part of any specification: each is a plausible mistake in the code (a
dropped guard, an off-by-one, a missing reset), and `PROJECT.json` "mutants"
says which property notices it.

### PacketStream

A datagram carries the id of its sender's bundle and the id of the last bundle
its sender got. Small packets (commands) of the client carry the id of the
bundle they were first sent in; `parse` runs those above `client_packet_id` and
not above the bundle's own id (`Fresh`), takes the bundle's id over, and then
builds a new bundle if the client has the last one (`HasLast`) and sends the
buffered one again otherwise. `Answer` is `parse` and `send_parse` in one step,
as they run in one call of `do_sockets`; `ServerLogin` is the branch of
`recv_parse` for a login request, which starts both ids again, with the handler
of 0x00A, which clears the packet list and pushes its answer; `ServerReceive` is
the other branch. `PushPacket` is any handler or tick that pushes a packet
between two datagrams. How many packets fit into a bundle depends on their sizes
and on compression: `Answer` takes any prefix, but not an empty one of a list
that is not empty.

Commands and payloads are numbers. All commands first sent in one bundle are one
command, since the filter cannot tell them apart. The client is external: it
repeats what is not acknowledged, takes only the bundle after its last one, and
never takes back an acknowledgement.

Left out: ciphering (a datagram that cannot be read is a lost one), and the
branch of `send_parse` (map.cpp 682-705) in which compression fails and packets
are dropped one by one.

### TreasurePool

One action per operation of `CTreasurePool`. A pool that is deleted with its
last member is the type `NONE`; `NewPool` is its construction with a first
member. A pool is born as `NONE` or as that of a
zone (`Init`), which outlives its members. `CheckTreasureItem` runs inside `AddItem` (eviction, SOLO), `LotItem`,
`PassItem` and, for every slot in turn, `CheckItems`: `Checked` gives the states
it may leave, where a later slot sees the inventories the earlier ones filled.
`Outcome` is who may get an item: the highest lotter, or any member that did not
pass, if the inventory takes it; nobody, when it does not, when the database
refuses the row, or when nobody is left. Time is an age per item, in units
longer than `treasure_checktime`, so that the throttle of `CheckItems` never
holds a check back; it only delays one in the code. A TimeStamp set to the
server's start is as old as the server is (`uptime`). Each item has a ghost
number `n`, which tells two items with one ItemID apart.

What is external: the clock, and that characters use up what they have.

`DelMember` removes the lots of a character that leaves. The comment beside it says
that the pool of a zone keeps them; the condition that would is commented out.
`LottersAreMembers` says what the code does, in every pool, and `ZoneKeepsLots` what
the comment says: the run `pool_zone` refutes it.

### MapSession

The account's row of `accounts_sessions` is one variable (the table has a unique
key on the account), `session` is the session list of each server by client
port, `pos_zone` is where the database says each character is. The client walks
through `lobby`, `entering`, `in`, `zoning`, `leaving` and `out`. Each handler
of the code is an action, with the close of the session at the end of
`do_sockets` in the same step (`Served`). The session key is the 32-bit word
0x00A counts in; the lobby counts in its lowest byte, which `KeyAssumption`
keeps from borrowing. A choice that fails because the account has another row
(`ChooseRefused`) has by then set `pos_prevzone`, so that the next one adds nothing
to the key.

Here a datagram is handled or lost at once; delays are PacketStream's subject.
What may be under way for long is MSG_LOGIN (`loginMsg`). The circumstances that
the code is known not to tolerate are named by the constant `Trouble` and are
let in or kept out per run:

* `restart`: a map server process is started again;
* `outage`: a client that is sending is not heard until it times out;
* `lost_dezone`: 0x00D is lost on the way to another server;
* `again_dezone`: its answer is, and it is repeated to a server that closed the
  session;
* `crash_zoning`: the client vanishes between two servers;
* `late_login`: MSG_LOGIN is still under way when a character is chosen;
* `quick_login`: a character is chosen while a session is being closed.

The last two break `RowOfPlayer` by letting the row of the new visit be deleted
by the old one; they are excluded from every passing run, and so is what the two
runs named below show of the others.

### DeliveryBox

`delivery_box` is the table, with its primary key as an invariant; `UContainer`
is the copy of one box's cells that each session keeps while the box is open.
Every action of 0x04D that changes one of them is an action, its transaction one
step: the characters may play on different servers, and nothing but the table is
shared. `Delivery` is an INSERT into box 1 with the slot the trigger
`delivery_box_insert` gives it, and `Pay` the trigger by which the auction house
pays. 0x05, 0x08 and 0x0C only answer from the copy or the table. A LIMIT 1
without an order is any one of the rows. `n` numbers the rows of box 1 in the
order in which they were sent, a ghost.

0x02 has no transaction. It inserts the row and then asks `UpdateItem` for the item,
which refuses what a trade or a synthesis reserves and what is being used
(`charutils.cpp` 1371-1384); 0x02 looks for none of it before. `PutInRefused` is
that path: the row stays, the item stays in the inventory and the cell of the copy
stays empty, so the next list of the box shows an item that exists twice. Since what
is reserved is another module's state, any item may be refused. `refused` counts
this, and the properties say how much it costs and that it costs no more:
`Conserved` allows one item more for each refusal, and `CopyIsTable` lets the row of
such an item be missing from the copy, as long as it has not been sent. To a player
this is a duplicated item; nothing in the repository says in words that it may not
be, so it is no finding.

The client is external: it opens a box, lists it and then works on that box. Left
out: transactions that fail (one that is rolled back before memory has changed is
no step; 0x03 and 0x0A change memory before they commit), a crash between the
two statements of 0x02 (it ends as a refusal does, with the session gone), the
deletion of a character, and what `AddItem` refuses besides a full inventory (RARE items; currency, which needs no slot). The branch
of 0x04 that deletes an orphan is in the model and, by `PendingIsQueued`, never
taken while both characters exist.

### Party

`rows` is `accounts_parties`, `server_addr` the column of `accounts_sessions` by
which the relay routes, `zone` where a character's entity is, `parties` the
`CParty` objects of all servers (a server, a name, a leader pointer, members).
`PChar->PParty` is `PParty(c)`: `OneParty` is what makes it a function. Each
handler that changes a party (0x06E, 0x06F, 0x070, 0x071, 0x074, 0x077), each
message the message thread takes (`MSG_PT_INVITE`, `MSG_PT_INV_RES`,
`MSG_PT_RELOAD` and the reload of one party, `MSG_PT_DISBAND`) and `PostTick`,
which sets the reload off, is one action. A message makes two hops: from the
`outbox` of a server over the relay, where `Addressee` looks up the rows of that
moment, to the `inbox` of those it is for. Zone changes, logging out, the loss of
a session (whose row takes that of the party with it, `ON DELETE CASCADE`) and
coming back are actions too. A pointer to a leader that has left the zone is
`Gone`; one to a character of another server is null (`NoChar`).

`MayAct` is an assumption on the players, not a guard of the code: they act when
no message is on its way. `Trouble` lifts it and other circumstances one by one:

* `quick`: somebody acts while messages are under way;
* `quick_zone`: somebody acts while another is between two zones, or changes
  zone while messages are under way;
* `far_kick`: 0x071 for a member that is alone on another server: its row is
  deleted before the relay looks for its server by the rows that are left;
* `crash_zoning`: a leader's client is lost between two zones.

With any of the four TLC finds `Agree` and `OneLeader` violated, so `Party.cfg`
has none, and the properties hold for players who wait for each other. A party
may also grow past six: 0x06E counts the members on its own server only and the
answer from another server is not tested at all. The model has both, with `Six`
for the six; no property claims a limit.

0x074 looks for the inviter by charid and targid, so it finds none who has changed
zone since, even on the same server, and sends the answer after him; targids are
not in the model, and `AcceptElsewhere` may answer anybody so. When the last member
of a party is taken out by a reload and leads it, the code calls `ReloadParty` on the
object that `DisbandParty` has deleted (`party.cpp` 400): what that does is undefined,
and it is left out.

Left out: alliances and the invitation of a whole party, level sync, the quarter
master, the treasure pool a member is put in, jail. Two threads in one vector at
the same time are a data race with no defined outcome; the model interleaves
whole handlers.

### Exchange

Every action is a handler of `packet_system.cpp` from its first test to its last
assignment, on the bags of one or two players; what varies is their order and
what a client knows. `bag` holds each slot's item, its reserve and its bazaar
price (a priced item is LOCKED), `offer` the pointers `m_PItem` of the trade
container as slots, `count` its `m_count`, which is not the number of offers.
`UpdateItem`, `AddItem`, `CanTrade` and `DoTrade` are the functions of
`charutils.cpp`, with their refusals. A result they throw away is thrown away
here. `craft` holds the slots of the ingredients while a character synthesizes;
which of success and failure it is, is drawn at the start in the code and at the
end here, which nobody can tell apart. `turns` bounds what players begin.

Clients are assumed to behave as the original one: while its trade window is open
it offers each stack in one place, fills the first free place and changes nothing
after its own OK; it uses neither the auction house nor the sort button with the
window open, buys no more than its gil covers at the price it was shown, and
does nothing while it synthesizes. `Trouble` lifts some of this, and TLC finds:

| circumstance | violated |
|---|---|
| `left`: a player leaves the zone in the middle of a trade | `NothingDoubled`, `TradeAgreed` |
| `crossed`: a request while a third player is in the `TradePending` of one of the two, or one of them in his (three players) | `NothingDoubled`, `TradeAgreed` |
| `after_ok`: an offer is changed after the own OK | `NothingDoubled`, `ReserveIsHeld` |
| `in_trade`: auction house, bazaar or sort while a trade is open | `NothingDoubled` |
| `reprice`: prices change while a customer looks (two prices, two gil each) | `NothingDoubled` |

Seen in the code and not in the model: the second of two OKs may cross a changed
offer on the wire and then stands for an offer its player has not seen; a crash
between the INSERT into `auction_house` and `UpdateItem` leaves item and sale; a
purchase is served after the bazaar was closed. Left out: the use of items, and with
it the refusal of `UpdateItem` for an item that is being used (it is LOCKED, and most
handlers refuse it before they come to `UpdateItem`), EX and NOAUCTION items, charges, all containers but the bag, trades with non-player characters.

### Mob

`mob` is a record of what the code keeps in `CMobEntity`, its AI container and its
enmity container: whether it has HP, the stack of states, the hate list, claim,
battle target, animation, queued rewards. `Tick` is `CAIContainer::Tick` with
the controller before it and the loop over the states in it: `due` says of how
many states, from the top, the time has run out. Players hit, fall, are raised,
enter and leave (`DecreaseZoneCounter` releases what refers to them); scripts
spawn, despawn and stun it, and set a wait. An hour or a weather spawns and
despawns. On the hate list a character is `"base"` (known), `"active"` (with
enmity) or `"left"`: the entry stays when its character leaves, with its pointer
cleared, until `GetHighestEnmity` erases it. `mob.ticks` is the zone's timer:
there is none in an empty zone, the last to leave has it called once more and
`HealAllMobs` restores every monster, corpses too (one killed since the last
tick lives on, without a death and a reward). `"always"` is a timer that is never
removed.

`Trouble = {"wait_corpse"}` lets a script call `mob:wait` on a corpse: the state
then on top of `CDeathState` makes `PostTick` have the monster die again, and
`RewardOnce` is violated. No script of the repository does. Three more things
were seen: with a dead player left on its list a monster neither roams nor
despawns until the player is raised or leaves (`GivesUp` is about an empty
zone); `CAttackState` re-engaging from below another state grows the stack, which
`ai_container.h` bounds by ten (`Depth` here); an hour or weather that spawns a
monster within the second between a death and its reward loses the reward.

Left out: the amounts of enmity, weapon skills, abilities and item use (states
like `CMagicState`), spells and skills while roaming, triggers, path finding (a
monster that despawns far from home is `DespawnMob`), the controllers of players and
pets; and monsters with `BEHAVIOUR_RAISABLE` (`mobentity.cpp` 1022: they do not
despawn when the death state ends) or `BEHAVIOUR_NO_DESPAWN` (`despawn_state.cpp` 47:
that state never ends), of which `Returns` is not true.

## 3. What the runs check

| run | question | instance | expected |
|---|---|---|---|
| `stream` | commands once and in order, packets once, all of them in the end, over loss and repetition | 3 commands, 2 pushes, 2 datagrams each way, ids modulo 5 | pass |
| `stream_late` | does the filter of `parse` ignore old codes, as its comment says | delivery out of order | violation |
| `pool` | an item goes once, to the highest lot, never to a pass, and goes in the end; in a party's pool and in a zone's | 3 characters, 1 slot, 2 items, 2 kinds (one RARE), lots 1..2 | pass |
| `pool_zone` | does a zone's pool keep the lots of those who left, as the comment says | 2 characters, 2 slots, 3 items | violation |
| `session` | one place in play, and the row says where | 2 servers, 3 zones, 2 characters, 2 ports, restart, outage | pass |
| `session_live` | a player gets in, a session ends | 2 servers, losses, repetitions, crashes | pass |
| `session_lost` | is the row of a character that changes zone left alone, as the comment says | 2 servers, lost 0x00D | violation |
| `delivery` | items sent, cancelled and received at once: none lost, none doubled but by a refused 0x02, in order | 2 characters, 2 cells, 3 deliveries or refusals, inventories of one item | pass |
| `party` | do the servers agree on every party when all messages are handled | 3 characters, 2 servers, 2 messages under way | pass |
| `exchange` | nothing doubled, trades as agreed, reserves kept, rare items once | 2 players, bags of 2 slots, 3 kinds and gil, 3 things begun | pass |
| `exchange_full` | does `CanTrade` refuse a trade without room | the same | violation |
| `mob` | one reward, to the claim; no reference to who left; gives up; comes back | 2 players, 3 states when a script adds one | pass |

The bounds:

* `stream`: two datagrams in flight are enough for the old and the new bundle to
  meet in either direction; the server's ids wrap in this run (keep-alives are
  not bounded), the client's do not, because the filter of `parse` orders them
  and the client starts again with each zone. Two pushes are one in the bundle
  under way and one behind it.
* `pool`: with three characters one may leave while two disagree; `PartySize`
  is 2 so that three make an ALLIANCE; with one slot the second item evicts the
  first. `Capacity` 2 leaves room for both items; that an inventory refuses one is
  the RARE kind's second, or the database's refusal, which any item may meet.
  `LiveTime` 1 lets an item be young, old enough or expired. Several slots are in
  the proofs only, which hold for any number.
* `session`: two servers with three zones (two on one of them) give zone
  changes within a server and between servers; two characters and two ports
  give a second visit as another character or from another port.
* `delivery`: of three deliveries one can be cancelled between two others, the
  case in which the trigger's MAX and a count differ; two cells let one sender
  have two like items under way to one receiver, so that 0x06 and 0x04 may each
  pick the other's row. A character may send to itself. `MaxSends` bounds deliveries
  and refused 0x02 together.
* `party`: three characters on two servers are the least where a leader, a
  member beside it and one elsewhere differ, or where two parties meet. `Six` is
  2, so that the test of 0x06E refuses. Players act only when no message is
  under way; `MaxMessages` 2 bounds what one act may set off.
* `exchange`: one bag is full and the other has one slot, items stack or do not,
  and one gil each pays a fee, a bid or a purchase. A sale, a purchase and a
  cancellation are three things begun; so are a synthesis, a trade and a sale.
* `mob`: two players let one die or leave while the other fights on; three
  states deep, a stun covers a spell that covers a fight.

The violation runs are disagreements between a comment and the code, or a test
in the code that does not test what it is for; `PROJECT.json` "findings" quotes
them. None of them is a statement about how often the circumstance occurs.

### Liveness and fairness

`PacketStream!Fairness` is weak fairness for the client's timers (they fire as
long as something is to be sent) and strong fairness for each receiver: a
network that delivers infinitely many datagrams. The server side needs no more,
since `do_sockets` serves every datagram that arrives.

`TreasurePool!FairSpec` has weak fairness of `CheckItems`, which the zone's tick
calls for every character in it (`zone_entities.cpp` 1041), and of time. It is
not claimed for a pool without members: a zone's pool keeps its items then.

`MapSession!Fairness` has weak fairness of the clean-up timer, of the time-out
of each session, of the message thread, and of the player's own steps; strong
fairness of the answered forms of 0x00A and 0x00D, because the client repeats
them. `PlayerGetsIn` leaves out behaviours in which the client crashes for ever.

`Mob!Spec` has weak fairness of `LateTick`: a tick late enough for every state,
of a monster that has nobody to fight, while its zone has a timer. `createZoneTimer`
makes one that comes back every 400 ms until the last character has left
(`zone.cpp` 584), and a later tick finds more states run out; nothing is assumed
of ticks in a fight, nor of players and scripts. So `GivesUp` speaks of zones
that still tick when everybody the monster dealt with has gone: zone 48, and those
where somebody else stays. `Returns` asks that the zone ticks and that respawning
is not forbidden for ever.

`Party` and `Exchange` have no liveness: their steps are the players' will, and
a player may always stop.

## 4. What is proved

A theorem holds for every value of the constants that the assumption named in its
module allows (`IdSpaceAssumption`, `PlayerAssumption`, `KeyAssumption`,
`ExchangeAssumption` and so on; TLC evaluates them in every run). Where TLC finds a
property to fail in some circumstance, the theorem has a hypothesis on the constants
that keeps this circumstance out, by name.

| module | theorem | of the property | hypothesis |
|---|---|---|---|
| `PacketStreamProofs` | `TypeCorrect` | `TypeOK` | none |
| | `StopAndWaitHolds`, `ImplementsChannel` | `StopAndWait`, `RefinesChannel` | `~Reorder`: datagrams are lost and repeated, not overtaken |
| | `CommandsInOrderAlways` | `CommandsInOrder` | `~Reorder`, and `NotWrapped`: fewer small packets than ids |
| `TreasurePoolProofs` | `TypeCorrect`, `LottersCorrect`, `OnePlaceCorrect`, `SoloCorrect` | `TypeOK`, `LottersAreMembers`, `OnePlace`, `SoloHasOneMember` | none |
| | `PassedCorrect`, `HighestCorrect`, `NoSecondCorrect` | `PassedNeverWin`, `HighestLotWins`, `NoSecondThrow` (of each step) | none |
| | `CountCorrect` | `CountCoversItems` | `NoOverflow`: fewer items than a uint8 counts |
| `MapSessionProofs` | `TypeCorrect` | `TypeOK` | none |
| | `OneInPlayAlways`, `RowOfPlayerAlways`, `SameKeyAlways` | `OneInPlay`, `RowOfPlayer`, `SameKey` | `Baseline`: `Trouble \subseteq {"restart", "outage"}` |
| | `NotWhenZoningAlways` | `NotWhenZoning` (of each step; fails in `session_lost`) | the same |
| `DeliveryBoxProofs` | `TypeCorrect`, `QueueInOrderAlways`, `CopyIsTableAlways`, `PendingIsQueuedAlways`, `ConservedAlways` | `TypeOK`, `QueueInOrder`, `CopyIsTable`, `PendingIsQueued`, `Conserved` | none |
| `MobProofs` | `TypeCorrect`, `NobodyAbsentAlways` | `TypeOK`, `NobodyAbsent` | none |
| | `RewardOnceAlways`, `CorpseKeepsClaimAlways` | `RewardOnce`, `CorpseKeepsClaim` | `NoWait`: `Trouble = {}` |
| `PartyProofs` | `TypeCorrect`, `OnePartyAlways` | `TypeOK`, `OneParty` | none |
| | `OneLeaderAlways`, `AgreeAlways` | `OneLeader`, `Agree` | `Trouble = {}` |
| `ExchangeProofs` | `RareOnceAlways` | `RareOnce` | none |
| | `ReserveIsHeldAlways`, `TradeAgreedAlways`, `TypeCorrect` | `ReserveIsHeld`, `TradeAgreed`, `TypeOK` | `Baseline`: `Trouble \subseteq {"in_trade", "reprice"}` |
| | `NothingDoubledAlways` | `NothingDoubled` | `Trouble = {}` |

Hardly any of the properties is inductive as it stands. What each proof adds:

* **PacketStream**. `StopAndWait` says nothing of which acknowledgements and bundles
  are still in flight. `InOrderInv` adds that login requests precede everything else
  and that the server has not gone on from its answer while one is in flight
  (`LoginsFirst`); that the acknowledgements in flight are the client's present one
  behind, at most, those of the bundle before, and of these only while the server
  still waits (`AcksInOrder`); and the same for bundles towards the client
  (`BundlesInOrder`). `TypeInv` adds to the types what holds before the first
  answer. The refinement has one lemma per kind of step: a push, a delivery of what
  was undelivered in the last bundle, a discard by a login request, and steps the
  channel does not see. `CommandInv` ties the codes the client gave its small
  packets to the number of the last one that ran; it needs that a code stands for
  one packet, which is what `NotWrapped` says. All of it covers the wrap of the
  16-bit ids of bundles: two ids would do.
* **TreasurePool**. `PoolInv` adds that item numbers do not exceed `dropped`
  (`NumbersIn`, so that the next item is new) and that a pool of type `NONE` is as
  new (`DeletedIsEmpty`). The lemmas about `Checked` carry the weight: for any set
  of slots checked in order, what comes out is some of the items cleared and each
  given to at most one inventory. A pass and a lower lot are one case there: who is
  `Beaten` is not in the `Outcome` of a slot, since somebody is the first of the
  highest lotters. A vote is described by `Votes` and a new item by `Adds`, each as the
  pools it goes through, and the properties of steps need no more of them. `CountInv` bounds `m_count` from both sides: it is
  at least the number of items and at most the number that fell, which keeps it from
  wrapping.
* **MapSession**. `PlayInv` (theorem `PlayInvariant`) says who owns the row. An open
  session owns it, or it is an orphan: there is no row any more, because MSG_LOGIN
  deleted it after the character had left its zone or the server the client is on its
  way to restarted (`SessionsOK`); at most one is open (`OneOpen`); while a MSG_LOGIN
  is under way the player has not logged in, and the character it names is in no zone
  but of the server it goes to (`MessagesOK`); and what the client believes,
  in each of its states, fits the session it talks to (`ClientOK`, one conjunct per
  state). Restarts and outages do it no harm, since both end in `lobby`.
* **DeliveryBox**. `Table` is the primary key with what the slots of a queue say
  about the order in which its rows were sent; it survives cancelling and the moving
  up of what is behind (`Lifted`). `CopyInv` says for each cell of a session's copy
  which row it stands for, whichever session changed the table last; an empty cell may
  hide the row of a refused 0x02 (`Hidden`), and goes on hiding it however the table
  changes (`HiddenStay`). `WayInv` compares
  for each kind of item how many rows a sender sees as under way to somebody with how
  many wait in that receiver's queue. `Conserved` follows from a `Balance` that each change
  of the table or of an inventory keeps; that changing one place of a function
  changes its sum by as much is a lemma of `Sums`.
* **Mob**. `Fine` is what every step keeps, in every circumstance: the stack is as
  deep as `Depth` and the death states allow (`Placed`), attack states and targets
  belong together (`Loose`), and nothing refers to who is absent (`Refers`). `Grave`
  is what holds of one life without a wait on the corpse: nothing comes on top of a
  death but the despawn and the respawn, a corpse is hated by nobody and its owner is
  the claim of the moment the HP ran out; `GraveInv` adds that one life earns its
  reward once, and none while there is HP left. `Tick` pops states in a loop; the
  proofs have the loop as the existence of a sequence of turns (`TurnsFrom`).
* **Party**. `Sound` says of the servers' objects that nobody is in two of them, that
  members are where their object is and that none is empty; every handler is a
  composition of few changes to them, each with a lemma. `PartyInv` has it with the
  types of rows and messages; a late message finds the objects in any state, so nothing
  is said of what it contains. `OneLeader` and `Agree` are about the rows and the
  objects together, and neither is inductive: between a change and the last server
  that hears of it they differ. `LeaderInv` says how. With no trouble one change at most
  is being told at a time, and it is in one of five phases: none (`Calm`: objects
  and rows fit, but for those who are travelling or have the rows still to look at),
  an answer to an invitation (`Answering`), a new name (`Renaming(n)`: the objects not
  told yet have the old name of the party that is `n` in the rows, whose members have
  `n` as their leader there already), a kick on another server (`Kicking(id, d)`: one
  object still has `d`, whose row is gone) and a disbanding (`Disbandment(id)`: the
  party has no leader and every server where it has members is still to be told). Each
  handler has a lemma that says which phase it starts or ends; `LeaderIsOne` and
  `SettledAgree` get the two properties from any phase. TLC checked `LeaderInv` as an
  invariant of the instance of the run before it was proved.
* **Exchange**. Without any hypothesis, a bag has a rare kind in at most one slot
  (`Rareful`), because only `AddItem` brings a kind into a bag. `TradeInv` is the
  rest: a bag holds stacks of which no more is reserved than there is (`Bags`, kept by
  `UpdateItem` whatever it is asked to take); who trades has an open window and trades
  with one who trades with him (`Pairs`); what is offered is reserved and offered once
  (`Offers`); an OK stands for the offers as they are (`Seals`); the ingredients of a
  synthesis are reserved and nothing else is (`Crafts`). `DoTrade` goes through the
  windows slot by slot; its recursive function is reasoned about as a sequence of
  stages (`Stages`) whose existence is a lemma.
  `NothingDoubled` says that no step makes more of anything (`NoMore`). What a bag may
  win is a function of the kinds, `Won`, and what lies outside of bags (`Outside`) must
  lose as much: `Balance` weighs the two, with one lemma for each action that says what
  it wins. The weight lies on the steps that take with `UpdateItem`, which silently
  takes nothing when a reserve is in the way: the proof is that it never is, and for a
  bazaar this needs `Stalls` (inductive with the rest, and checked with TLC on the
  instance of the run): nothing with a price is reserved, a customer is not his own,
  and sees the price at which the handler sells, so that the gil he counted covers it.

Three times a proof found the models wrong, where the instances of the runs are too
small to notice. In `Exchange`, `crossed` once forbade requests to a player who trades,
only; with three players a `TradePending` left over from one who had gone through a
zone line (0x00D cleans its own, not the one that points to it) let a third player's
request end in a trade of three: `crossed` now names that too, and TLC with three
players confirms both. In `Party`, disbanding a party whose lead had just changed
looked for the object under its new id and left the one with the old id in `parties`;
the code deletes the object it has a pointer to. And the assumptions on constants
said too little in `MapSession` (the key's width is a multiple of what the lobby
counts in), `DeliveryBox` and `Exchange` (what a player starts with, the recipe and
its results).

Every invariant and every property of steps that a passing run checks is thus a
theorem. Only model-checked: the properties that a run refutes, and what is out of
the prover's reach, liveness under fairness (`EveryCommandHandled`, `EveryPacketDelivered`,
`EveryItemLeaves`, `PlayerGetsIn`, `SessionEnds`, `GivesUp`, `Returns`). No module here
declares a RECURSIVE operator.

## 5. Plan

All the components planned are modelled, and all their invariants and properties of
steps are proved. What could come next: the hypotheses of section 4 weakened one
circumstance at a time (what is left of `OneLeader` when a client is lost in the
middle of a change), and the state-to-state part of the liveness properties (that the
step which makes progress stays possible until it is taken).

## 6. Not modelled

* **Alliances**: rows of `accounts_parties` and one `CAlliance` per server, a
  party one level up. The states of `Party` with a second level are beyond what
  TLC can exhaust with three servers' worth of messages.
* **Status effects, battlefields and instances**: their control is in Lua
  callbacks that come in the middle of a loop, and what these do is content.
  Reading `battlefield.cpp` showed hazards of its own (the clean-up deletes the
  battlefield while its caller goes on; a disconnected player is taken out of
  the first battlefield with its id), which a model of the callbacks would
  have to start from.
* **Task manager**: a priority queue of timers; its only asynchrony, late ticks,
  is in the models as fairness and as time that may run out of order.
* **Linkshells, chat**: messages to whoever is there, with no state to keep
  right.
* **Search server, the login server's socket layer, database access**: input and
  output. Statements are taken as atomic and as not failing.
* **Fishing**: odds and a timer.
* Formulas and tables (battle, pets, mobs, conquest, weather), geometry
  (visibility, regions, navigation), the layout of packets, the Lua content, the
  SQL data and the vendored libraries: either no control worth a model or data
  out of TLC's reach.

They are most of the lines of the repository, so the models stand for a small
part of it: the part where the order of events decides.
