-------------------------------- MODULE Mob --------------------------------
(***************************************************************************)
(* The life of one monster of a zone: the stack of AI states               *)
(* (ai/ai_container.cpp, ai/states/), the controller that engages and      *)
(* gives up (ai/controllers/mob_controller.cpp), its hate list             *)
(* (enmity_container.cpp), its death, reward, fading and respawn           *)
(* (entities/mobentity.cpp), against players that hit it, fall, are raised *)
(* and leave the zone, and scripts that stun, spawn and despawn it.        *)
(*                                                                         *)
(* Everything runs on the game thread: the zone's tick is one action, what *)
(* players, scripts and the hour of the day do falls between two ticks.    *)
(* Time is not counted: a tick says how many of the states, from the top,  *)
(* have run out, with the one order the durations impose (a reward is paid *)
(* 1 s after a death, the corpse fades after 15 s).                        *)
(***************************************************************************)
EXTENDS Naturals, Integers, Sequences, SequencesExt, FiniteSets

CONSTANTS Char,     \* the player characters of the map server
          None,     \* no character: id 0
          Idle,     \* whether MOBMOD_IDLE_DESPAWN is set
          Depth,    \* bound: AI states on the stack when a script adds one
          MaxQueue, \* bound: rewards waiting when it is spawned early
          Trouble   \* what the scripts are allowed beyond the baseline

ASSUME MobAssumption ==
    /\ None \notin Char
    /\ Idle \in BOOLEAN
    /\ Depth \in Nat /\ MaxQueue \in Nat
    /\ Trouble \subseteq {"wait_corpse"}

VARIABLES mob,    \* the CMobEntity, its AI container and its hate list
          where,  \* where[c]: "alive" or "dead" in the mob's zone, or "away"
          claim,  \* history: who held the claim when its HP reached 0
          earned  \* history: deaths of this life that have no reward queued

vars == <<mob, where, claim, earned>>

Frames == {"Attack", "Magic", "Cast", "Stun", "Wait",
           "Death", "Despawn", "Respawn"}

NoHate == [c \in Char |-> "none"]
Here == {c \in Char : where[c] # "away"}
Alive == {c \in Char : where[c] = "alive"}
Hated(m) == {c \in Char : m.hate[c] # "none"}
Top(m) == IF m.stack = <<>> THEN "none" ELSE Last(m.stack)

\* CBattleEntity::isDead; Respawn on top means the mob is gone.
IsDead(m) == ~m.hp \/ m.gone \/ Top(m) \in {"Death", "Despawn"}

\* CanChangeState of the state on top. "Cast" is a CMagicState that has
\* completed and waits for its animation to end.
CanChange(m) == Top(m) \in {"none", "Attack", "Wait"}

----------------------------------------------------------------------------
(* The state stack.                                                        *)

\* CheckCompletedStates.
Settled(s) == IF s # <<>> /\ Last(s) = "Cast" THEN Front(s) ELSE s

\* InterruptStates.
Interrupted(s) == IF s # <<>> /\ Last(s) \in {"Magic", "Cast"}
                  THEN Front(s) ELSE s

\* ForceChangeState.
Push(m, frame) == [m EXCEPT !.stack = Append(Settled(@), frame)]

\* CMobEntity::OnDisengage, and CMobController::Disengage.
Disengaged(m) ==
    [m EXCEPT !.hate = NoHate, !.owner = None, !.target = None,
              !.timer = @ \/ Idle,
              !.anim = IF @ = "attack" THEN "none" ELSE @]

AttackEndsAlways(m) == Disengaged(m)

\* CAttackState::Cleanup: a dead mob does not disengage.
AttackEnds(m) == IF IsDead(m) THEN m ELSE Disengaged(m)

DespawningAgain(m) == Push(m, "Despawn")

\* Internal_Despawn.
Despawning(m) ==
    IF Top(m) \in {"Despawn", "Respawn"} THEN m ELSE Push(m, "Despawn")

\* CMobEntity::Spawn: PAI->Reset pops every state without its Cleanup, and
\* the battle target stays what it was.
Spawned(m) ==
    [m EXCEPT !.hp = TRUE, !.gone = FALSE, !.anim = "none", !.stack = <<>>,
              !.hate = NoHate, !.owner = None, !.timer = FALSE]

\* CMobEntity::Die, called with no HP left.
Cleared(m) == IF \E i \in 1..Len(m.stack) : m.stack[i] = "Attack"
              THEN AttackEnds([m EXCEPT !.stack = <<>>])
              ELSE [m EXCEPT !.stack = <<>>]

Died(m) ==
    [Cleared([m EXCEPT !.hate = NoHate])
        EXCEPT !.stack = <<"Death">>, !.anim = "death", !.target = None,
               !.queue = @ + 1]

FallsAgain(m) == ~m.hp /\ ~m.gone /\ Top(m) # "Despawn"

\* CBattleEntity::PostTick.
Falls(m) == ~m.hp /\ ~m.gone /\ Top(m) \notin {"Death", "Despawn"}

----------------------------------------------------------------------------
(* The controller.                                                         *)

WithoutNobody(m, who) == m

\* Entries of the hate list whose character is not in the zone are erased
\* when they come up before the one that is returned.
Without(m, who) ==
    [m EXCEPT !.hate = [c \in Char |-> IF c \in who THEN "none" ELSE m.hate[c]]]

\* Internal_Engage on a mob that is not engaged. The constructor of
\* CAttackState fails on a target that is dead: nothing is pushed.
Engaged(m, c) ==
    IF ~CanChange(m) /\ Top(m) # "Cast" THEN m
    ELSE IF c \notin Alive
         THEN [m EXCEPT !.stack = Settled(@), !.target = None]
         ELSE [Push(m, "Attack") EXCEPT !.anim = "attack", !.target = c]

\* CMobController::DoRoamTick: the mobs after one call. Spells and skills of a
\* mob that roams are left out; that it despawns far from home is DespawnMob.
Roam(m, idle) ==
    LET found == Hated(m) \cap Here
    IN  IF found # {}
        THEN {Engaged(Without(m, gone), c) :
                 c \in found, gone \in SUBSET (Hated(m) \ Here)}
        ELSE LET n == Without(m, Hated(m))
             IN  IF n.owner # None
                 THEN {Engaged([n EXCEPT !.hate[n.owner] = "base"], n.owner)}
                 ELSE IF n.timer /\ idle THEN {Despawning(n)}
                      ELSE {n}

\* CMobController::DoCombatTick: HandleEnmity and TryDeaggro take the most
\* hated character that can still be fought (alive, here and not out of
\* sight for 25 s), erasing those they pass over; with nobody left the mob
\* disengages. Otherwise it may start a spell.
Combat(m, lost, cast) ==
    LET able   == Alive \ lost
        fought == Hated(m) \cap able
        after  == IF fought # {}
                  THEN {[Without(m, passed) EXCEPT !.target = c] :
                           c \in fought, passed \in SUBSET (Hated(m) \ able)}
                  ELSE IF Hated(m) \cap Here = {} /\ m.target \in able
                       THEN {Without(m, Hated(m))}
                       ELSE {Disengaged(m)}
    IN  {IF cast /\ n.target # None /\ CanChange(n) /\ Len(n.stack) < Depth
         THEN Push(n, "Magic") ELSE n : n \in after}

\* CMobController::Tick.
Controlled(m, idle, lost, cast) ==
    IF IsDead(m) THEN {m}
    ELSE IF m.anim = "attack" THEN Combat(m, lost, cast)
    ELSE Roam(m, idle)

----------------------------------------------------------------------------
(* The states' Update: what one turn of the loop of CAIContainer::Tick     *)
(* does with the state on top. "more" says that the loop goes on.          *)

Stops(m) == [mob |-> m, more |-> FALSE]
Pops(m) == [mob |-> [m EXCEPT !.stack = Front(@)], more |-> TRUE]

UpdateAttack(m) ==
    IF m.target \in Alive THEN Stops(m)
    ELSE [mob |-> AttackEnds([m EXCEPT !.stack = Front(@)]), more |-> TRUE]

UpdateMagic(m, due) ==
    CASE Top(m) = "Magic" /\ due ->
             Stops([m EXCEPT !.stack[Len(m.stack)] = "Cast"])
      [] Top(m) = "Cast" /\ due -> Pops(m)
      [] OTHER -> Stops(m)

\* CInactiveState: an effect's stun ends with the effect or with the mob's
\* death, a wait only with its time.
UpdateInactive(m, due) ==
    IF due \/ (Top(m) = "Stun" /\ IsDead(m)) THEN Pops(m)
    ELSE Stops(m)

\* CDeathState completes and is replaced: OnDeathTimer of a mob without
\* BEHAVIOUR_RAISABLE.
UpdateDeath(m, due) ==
    IF due /\ m.queue = 0
    THEN Stops([m EXCEPT !.stack = Append(Front(@), "Despawn")])
    ELSE Stops(m)

UpdateDespawnLast(m, due) ==
    IF due /\ m.queue = 0
    THEN Stops([m EXCEPT !.stack = Front(@), !.gone = TRUE, !.hate = NoHate])
    ELSE Stops(m)

\* CDespawnState: OnDespawn fades the mob out and queues the respawn above,
\* for a mob without BEHAVIOUR_NO_DESPAWN.
UpdateDespawn(m, due) ==
    IF due /\ m.queue = 0
    THEN Stops([Push(m, "Respawn") EXCEPT !.gone = TRUE, !.hate = NoHate])
    ELSE Stops(m)

UpdateRespawn(m, due) ==
    IF m.allow /\ due /\ m.queue = 0
    THEN Stops(Spawned(m)) ELSE Stops(m)

UpdateTop(m, due) ==
    CASE Top(m) = "none" -> Stops(m)
      [] Top(m) = "Attack" -> UpdateAttack(m)
      [] Top(m) \in {"Magic", "Cast"} -> UpdateMagic(m, due)
      [] Top(m) \in {"Stun", "Wait"} -> UpdateInactive(m, due)
      [] Top(m) = "Death" -> UpdateDeath(m, due)
      [] Top(m) = "Despawn" -> UpdateDespawn(m, due)
      [] Top(m) = "Respawn" -> UpdateRespawn(m, due)

\* Whether the zone's timer is still to call the mob.
Ticking(m) == m.ticks # "off"

\* The loop pops a state a turn: as many turns as there are states. The
\* first "due" of them have run out.
Looped(m, due) ==
    LET turn[k \in 0 .. Len(m.stack) + 1] ==
            IF k = 0 THEN {[mob |-> m, more |-> TRUE]}
            ELSE {IF before.more THEN UpdateTop(before.mob, k <= due)
                  ELSE before : before \in turn[k - 1]}
    IN  {last.mob : last \in turn[Len(m.stack) + 1]}

----------------------------------------------------------------------------
(* The zone's tick.                                                        *)

\* CAIActionQueue::checkAction: n rewards are due. They are paid to the
\* holder of the claim, or dropped when the mob is alive again.
Tick(n, due, idle, lost, cast) ==
    /\ Ticking(mob)
    /\ \E m \in Controlled([mob EXCEPT !.queue = @ - n,
                                       !.ticks = IF @ = "last" THEN "off" ELSE @],
                           idle, lost, cast) :
       \E after \in Looped(m, due) :
         LET life == after.hp /\ ~mob.hp
         IN  /\ mob' = IF Falls(after) THEN Died(after) ELSE after
             /\ earned' = IF life THEN 0
                          ELSE IF Falls(after) THEN earned - 1 ELSE earned
             /\ claim' = IF life THEN None ELSE claim
    /\ UNCHANGED where

\* A tick with every timer run out, of a mob that has nobody to fight: what
\* it sees and casts does not matter.
LateTick ==
    /\ IsDead(mob) \/ Alive = {}
    /\ Tick(mob.queue, Len(mob.stack), TRUE, {}, FALSE)

----------------------------------------------------------------------------
(* Players.                                                                *)

Wounded(m, kills) == IF kills THEN [m EXCEPT !.hp = FALSE] ELSE m

\* A hit that lands (ClaimMob): the target must be alive. claims is FALSE
\* once somebody has called for help.
Hit(c, kills, claims) ==
    /\ where[c] = "alive" /\ ~IsDead(mob)
    /\ LET m == [mob EXCEPT !.hate[c] = "active",
                            !.owner = IF claims THEN c ELSE @]
       IN  /\ mob' = Wounded(m, kills)
           /\ claim' = IF kills THEN m.owner ELSE claim
           /\ earned' = IF kills THEN earned + 1 ELSE earned
    /\ UNCHANGED where

\* A damage over time effect takes its last HP (TickEffects before the tick).
Poisoned ==
    /\ ~IsDead(mob) /\ Ticking(mob)
    /\ mob' = Wounded(mob, TRUE)
    /\ claim' = mob.owner /\ earned' = earned + 1
    /\ UNCHANGED where

\* TryLink of another mob of its party, a script: hate of the lowest kind.
Linked(c) ==
    /\ where[c] = "alive" /\ ~IsDead(mob)
    /\ mob.anim = "none" /\ mob.hate[c] = "none"
    /\ mob' = [mob EXCEPT !.hate[c] = "base"]
    /\ UNCHANGED <<where, claim, earned>>

\* A sleep, stun, petrification ... lands on it, or a script stuns it.
Stunned(c) ==
    /\ where[c] = "alive" /\ ~IsDead(mob)
    /\ Top(mob) \notin {"Stun", "Wait"} /\ Len(mob.stack) < Depth
    /\ mob' = [Push(mob, "Stun")
                 EXCEPT !.stack = Append(Interrupted(mob.stack), "Stun")]
    /\ UNCHANGED <<where, claim, earned>>

Fall(c) ==
    /\ where[c] = "alive"
    /\ where' = [where EXCEPT ![c] = "dead"]
    /\ UNCHANGED <<mob, claim, earned>>

Raised(c) ==
    /\ where[c] = "dead"
    /\ where' = [where EXCEPT ![c] = "alive"]
    /\ UNCHANGED <<mob, claim, earned>>

Enter(c) ==
    /\ where[c] = "away"
    /\ where' = [where EXCEPT ![c] = "alive"]
    /\ mob' = [mob EXCEPT !.ticks = IF @ = "always" THEN @ ELSE "on"]
    /\ UNCHANGED <<claim, earned>>

ReleasedKeepsHate(m, c) ==
    [m EXCEPT !.owner = IF @ = c THEN None ELSE @,
              !.target = IF @ = c THEN None ELSE @]

\* CZoneEntities::DecreaseZoneCounter.
Released(m, c) ==
    [m EXCEPT !.hate[c] = IF @ = "none" THEN @ ELSE "left",
              !.owner = IF @ = c THEN None ELSE @,
              !.target = IF @ = c THEN None ELSE @]

\* CZone::DecreaseZoneCounter, the last to leave: the timer is called once
\* more and removed, and HealAllMobs gives every mob its HP back, a corpse
\* and one that has yet to fall included.
Healed(m) == [m EXCEPT !.hp = TRUE, !.ticks = "last"]

Leave(c) ==
    /\ where[c] # "away"
    /\ where' = [where EXCEPT ![c] = "away"]
    /\ LET stops == Here = {c} /\ mob.ticks # "always"
       IN  /\ mob' = IF stops THEN Healed(Released(mob, c)) ELSE Released(mob, c)
           /\ earned' = IF stops /\ ~mob.hp THEN 0 ELSE earned
    /\ claim' = IF claim = c THEN None ELSE claim

----------------------------------------------------------------------------
(* Scripts and the hour of the day.                                        *)

\* mob:wait(ms): a CInactiveState that lets other states start above it.
\* On a corpse it would cover CDeathState, and PostTick would have the mob
\* die once more.
Wait ==
    /\ IsDead(mob) => "wait_corpse" \in Trouble
    /\ Len(mob.stack) < Depth
    /\ mob' = Push(mob, "Wait")
    /\ UNCHANGED <<where, claim, earned>>

\* SpawnMob(id) of a mob that is not spawned, and the unconditional Spawn()
\* of TOTDChange and WeatherChange for the mobs of an hour or a weather,
\* which also takes one that is alive or a corpse.
Reborn(allowed) ==
    /\ mob' = [Spawned(mob) EXCEPT !.allow = allowed]
    /\ claim' = None /\ earned' = 0
    /\ UNCHANGED where

SpawnMob == mob.gone /\ Reborn(mob.allow)

Night ==
    /\ mob.queue < MaxQueue
    /\ Reborn(TRUE)

\* The other end of the night: no more respawns, and leave when idle.
Dawn ==
    /\ mob' = [mob EXCEPT !.timer = TRUE, !.allow = FALSE]
    /\ UNCHANGED <<where, claim, earned>>

DespawnMob ==
    /\ mob' = Despawning(mob)
    /\ UNCHANGED <<where, claim, earned>>

\* DisallowRespawn; SpawnMob(id, _, seconds) and setRespawnTime allow it.
DisallowRespawn(yes) ==
    /\ mob' = [mob EXCEPT !.allow = ~yes]
    /\ UNCHANGED <<where, claim, earned>>

----------------------------------------------------------------------------
\* zoneutils::LoadMOBList: a normal mob is spawned, one of the night, the
\* evening, the fog or the weather waits.  The timer of zone 48 is never
\* removed, nor is that of a zone in which somebody stays whom the mob has
\* nothing to do with: "always".
NewMob(normal, ticks) ==
    [hp |-> TRUE, gone |-> ~normal, anim |-> "none",
     stack |-> IF normal THEN <<>> ELSE <<"Respawn">>,
     hate |-> NoHate, owner |-> None, target |-> None, timer |-> FALSE,
     allow |-> normal, queue |-> 0, ticks |-> ticks]

Init ==
    /\ \E normal \in BOOLEAN, ticks \in {"off", "always"} :
          mob = NewMob(normal, ticks)
    /\ where = [c \in Char |-> "away"]
    /\ claim = None
    /\ earned = 0

Player(c) ==
    \/ \E kills \in BOOLEAN, claims \in BOOLEAN : Hit(c, kills, claims)
    \/ Linked(c) \/ Stunned(c) \/ Fall(c) \/ Raised(c)
    \/ Enter(c) \/ Leave(c)

Script ==
    \/ Wait
    \/ \E yes \in BOOLEAN : DisallowRespawn(yes)
    \/ SpawnMob \/ DespawnMob \/ Night \/ Dawn

Next ==
    \/ \E n \in 0 .. mob.queue, due \in 0 .. Len(mob.stack),
          idle \in {FALSE, mob.timer}, lost \in SUBSET Alive,
          cast \in {FALSE, mob.anim = "attack"} :
             Tick(n, due, idle, lost, cast)
    \/ \E c \in Char : Player(c)
    \/ Poisoned
    \/ Script

\* A zone's timer comes back every 400 ms as long as the zone has it, and
\* every state's time is finite.
Spec == Init /\ [][Next]_vars /\ WF_vars(LateTick)

----------------------------------------------------------------------------
TypeOK ==
    /\ mob.stack \in Seq(Frames) /\ Len(mob.stack) <= Depth + 4
    /\ mob.hate \in [Char -> {"none", "base", "active", "left"}]
    /\ mob.owner \in Char \cup {None} /\ mob.target \in Char \cup {None}
    /\ mob.anim \in {"none", "attack", "death"}
    /\ mob.ticks \in {"off", "on", "last", "always"}
    /\ where \in [Char -> {"alive", "dead", "away"}]

\* A life pays one reward: a mob whose HP ran out dies once, whatever covers
\* or replaces its CDeathState until it spawns again (PostTick,
\* CMobEntity::Die).
RewardOnce == earned >= 0

\* A corpse hates nobody, nor does a mob that is gone: the next life starts
\* without an old quarrel.  But while its reward waits the corpse keeps the
\* claim of the kill, so that DistributeRewards finds the one who earned it:
\* the states popped by Die must not disengage.
CorpseKeepsClaim ==
    /\ Top(mob) \in {"Death", "Respawn"} => Hated(mob) = {}
    /\ Top(mob) = "Death" /\ mob.queue > 0 => mob.owner = claim

\* The mob refers to nobody who has left the zone: neither the entity
\* pointers of the hate list, nor the claim (DoRoamTick uses it unchecked),
\* nor the battle target, whose number the next to enter may get.
NobodyAbsent ==
    /\ \A c \in Char : mob.hate[c] \in {"base", "active"} => c \in Here
    /\ mob.owner # None => mob.owner \in Here
    /\ mob.target # None => mob.target \in Here

\* Once everybody it dealt with has left, a mob whose zone still ticks
\* finally gives up: it hates, claims for and fights nobody, and no attack
\* waits on its stack (or it is gone).
Calm ==
    \/ mob.gone
    \/ /\ Hated(mob) = {} /\ mob.owner = None /\ mob.target = None
       /\ mob.anim # "attack"
       /\ \A i \in 1..Len(mob.stack) : mob.stack[i] # "Attack"

GivesUp == (<>[](Here = {} /\ mob.ticks = "always")) => <>[]Calm

\* As long as it is allowed to and its zone ticks, a mob that is dead or
\* gone comes back; a corpse healed by HealAllMobs is dead all the same. Not
\* said of mobs that wait for a Raise (BEHAVIOUR_RAISABLE: they do not despawn
\* when the death state ends) or stay (BEHAVIOUR_NO_DESPAWN).
Returns == (<>[](mob.allow /\ mob.ticks \in {"on", "always"}))
           => []<>(mob.hp /\ ~mob.gone /\ Top(mob) # "Death")
=============================================================================
