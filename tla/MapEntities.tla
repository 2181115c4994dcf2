---------------------------- MODULE MapEntities ----------------------------
(***************************************************************************)
(* The entities map authors wire together: buttons, doors, multisources,    *)
(* multi_managers, counters and touch triggers (buttons.cpp, doors.cpp,     *)
(* triggers.cpp, and FireTargets, SUB_UseTargets and LinearMove of          *)
(* subs.cpp).  An entity fires its targets by calling Use of each of them   *)
(* synchronously, so that a call runs while its callers are half way        *)
(* through theirs: "stack" holds the calls still to be made, the next one   *)
(* first.  The engine calls into the game (a player's use or touch, a       *)
(* blocked mover, a think) only when no call is in progress.                *)
(*                                                                         *)
(* A map is a record: edict gives its entities the numbers in whose order   *)
(* the engine finds them, and name, target, kill, close, master and flags   *)
(* give each entity's keys; fires gives the targets of a multi_manager in   *)
(* the order of their delays.  A delay is any time, so the thinks that are  *)
(* pending happen in any order.                                             *)
(***************************************************************************)
EXTENDS Integers, Sequences, SequencesExt, FiniteSets

CONSTANTS Buttons, Doors, Sources, Managers, Counters, Triggers,
          Names,         \* targetnames
          NoName,        \* a key that is not set
          Stranger,      \* a caller that no multisource knows: a player, a DelayedUse
          Maps,          \* the maps to choose from
          Count,         \* what a trigger_counter counts down from (m_cTriggersLeft)
          MaxInputs      \* bound: how often players use, touch, shoot or block something

Movers == Buttons \cup Doors
Entities == Movers \cup Sources \cup Managers \cup Counters \cup Triggers

ASSUME CountAssumption == Count \in Nat \ {0}
ASSUME InputsAssumption == MaxInputs \in Nat
ASSUME NamesAssumption == NoName \notin Names /\ Stranger \notin Entities

\* A clone is known by its number.
ASSUME ClonesAssumption == (Entities \cup {Stranger}) \cap Nat = {}

ASSUME ClassesAssumption ==
  /\ Buttons \cap (Doors \cup Sources \cup Managers \cup Counters \cup Triggers) = {}
  /\ Doors \cap (Sources \cup Managers \cup Counters \cup Triggers) = {}
  /\ Sources \cap (Managers \cup Counters \cup Triggers) = {}
  /\ Managers \cap (Counters \cup Triggers) = {}
  /\ Counters \cap Triggers = {}
ASSUME MapsAssumption ==
  \A mp \in Maps :
    /\ DOMAIN mp.edict \subseteq Entities /\ IsFiniteSet(DOMAIN mp.edict)
    /\ \A d, e \in DOMAIN mp.edict : mp.edict[d] \in Nat /\ (mp.edict[d] = mp.edict[e] => d = e)
    /\ {mp.name, mp.target, mp.kill, mp.close, mp.master} \subseteq [Entities -> Names \cup {NoName}]
    /\ mp.fires \in [Managers -> Seq(Names)]

VARIABLES
  map,        \* the map that was loaded
  state,      \* m_toggle_state of the movers
  pos,        \* where the mover is: "low" (m_vecPosition1), "high" (m_vecPosition2) or "between"
  think,      \* the think function that is set and due some time, or "none"
  touchable,  \* the entities with a touch function
  sound,      \* the doors whose moving sound plays
  quiet,      \* the doors with iuser1 = 1: just hit bottom, sound not stopped yet
  members,    \* m_rgEntities of the multisources; registered ones only
  input,      \* m_rgTriggered of the multisources
  running,    \* the managers whose Use is disabled, until all targets have fired
  index,      \* m_index of the managers
  clones,     \* the running clones of threaded managers, a set of [id, of, index, first]
  made,       \* how many clones were made, the id of the last one
  left,       \* m_cTriggersLeft
  delayed,    \* the DelayedUse entities, a sequence of <<target, killtarget>>
  removed,    \* the entities that were removed
  stack,      \* the calls still to be made
  inputs,     \* how often a player did something
  disturbed   \* history: multisources used by a non member or before they were registered

moving == <<state, pos, think>>
sounds == <<sound, quiet>>
sources == <<members, input, disturbed>>
managers == <<running, index, clones, made>>
rest == <<map, inputs>>
vars == <<map, state, pos, think, touchable, sound, quiet, members, input, running, index, clones, made,
          left, delayed, removed, stack, inputs, disturbed>>

Present == DOMAIN map.edict
Alive(e) == e \in Present \ removed
Has(e, flag) == flag \in map.flags[e]

Init ==
  /\ map \in Maps
  /\ state = [e \in Movers |-> "bottom"]
  /\ pos = [e \in Movers |-> "low"]
  /\ think = [e \in Entities |-> IF e \in Sources THEN "register" ELSE "none"]
  /\ touchable = Triggers \cup {b \in Buttons : Has(b, "touchOnly")} \cup {d \in Doors : ~Has(d, "useOnly")}
  /\ sound = {}
  /\ quiet = {}
  /\ members = [s \in Sources |-> <<>>]
  /\ input = [s \in Sources |-> <<>>]
  /\ running = {}
  /\ index = [m \in Managers |-> 0]
  /\ clones = {}
  /\ made = 0
  /\ left = [c \in Counters |-> Count]
  /\ delayed = <<>>
  /\ removed = {}
  /\ stack = <<>>
  /\ inputs = 0
  /\ disturbed = {}

-----------------------------------------------------------------------------
(* Calls *)

Frame(op, e) == [op |-> op, ent |-> e, by |-> e]

\* The entities of a name; none without a name.
Named(n) == {e \in Present : n # NoName /\ map.name[e] = n}

\* The entities es in the order in which the engine finds them: the k-th has k - 1 of them before it.
InOrder(es) ==
  [k \in 1..Cardinality(es) |-> CHOOSE e \in es : Cardinality({d \in es : map.edict[d] < map.edict[e]}) = k - 1]

UseAll(es, caller) == LET found == InOrder(es) IN [i \in DOMAIN found |-> [op |-> "use", ent |-> found[i], by |-> caller]]
FireTargets(n, caller) == UseAll(Named(n), caller)

\* CBaseDelay::SUB_UseTargets: with a delay a DelayedUse entity does it later.
Killing(n) == IF n = NoName THEN <<>> ELSE <<[op |-> "kill", ent |-> NoName, by |-> n]>>
Targeting(e) == ~Has(e, "delay") /\ (map.target[e] # NoName \/ map.kill[e] # NoName)
UseTargets(e) == IF Targeting(e) THEN Killing(map.kill[e]) \o FireTargets(map.target[e], e) ELSE <<>>
Delays(e) == Has(e, "delay") /\ (map.target[e] # NoName \/ map.kill[e] # NoName)
DelayedUses(e) == IF Delays(e) THEN Append(delayed, <<map.target[e], map.kill[e]>>) ELSE delayed

\* The running call makes these calls, in this order, and ends.
Calls(frames) == stack' = frames \o Tail(stack)

\* UTIL_IsMasterTriggered: the first entity of the name counts; a name of nobody, or of no multisource, does not lock.
IsTriggered(s) == think[s] # "register" /\ \A i \in DOMAIN input[s] : input[s][i]
Unlocked(e) ==
  LET masters == {m \in Named(map.master[e]) : Alive(m)}
  IN  \A m \in masters \cap Sources : (\A d \in masters : map.edict[m] <= map.edict[d]) => IsTriggered(m)

\* Mutant: a mover that is already there does not have its move-done function called.
LinearMoveReturns(e, dest, st) ==
  /\ state' = [state EXCEPT ![e] = st]
  /\ think' = [think EXCEPT ![e] = IF pos[e] = dest THEN @ ELSE "moveDone"]
  /\ Calls(<<>>)
  /\ UNCHANGED pos

\* CBaseToggle::LinearMove: a mover that is already there has its move-done function called at once.
LinearMove(e, dest, st) ==
  /\ state' = [state EXCEPT ![e] = st]
  /\ think' = [think EXCEPT ![e] = IF pos[e] = dest THEN @ ELSE "moveDone"]
  /\ Calls(IF pos[e] = dest THEN <<Frame("moveDone", e)>> ELSE <<>>)
  /\ UNCHANGED pos

-----------------------------------------------------------------------------
(* Buttons *)

Running(op, e) == stack # <<>> /\ Head(stack).op = op /\ Head(stack).ent = e

ButtonActivate(b) ==
  IF Unlocked(b) THEN LinearMove(b, "high", "goingUp") ELSE Calls(<<>>) /\ UNCHANGED moving

\* CBaseButton::ButtonUse, which only buttons that are not for touching have.
ButtonUse(b) ==
  /\ CASE Has(b, "touchOnly") -> Calls(<<>>)
       [] ~Has(b, "touchOnly") /\ state[b] = "bottom" -> Calls(<<Frame("activate", b)>>)
       [] ~Has(b, "touchOnly") /\ state[b] = "top" /\ Has(b, "toggle") /\ ~Has(b, "stay") -> Calls(<<Frame("return", b)>>)
       [] OTHER -> Calls(<<>>)
  /\ UNCHANGED <<moving, sounds, sources, managers, left, delayed, removed, touchable, rest>>

Activate(b) ==
  /\ Running("activate", b)
  /\ ButtonActivate(b)
  /\ UNCHANGED <<sounds, sources, managers, left, delayed, removed, touchable, rest>>

ButtonReturn(b) ==
  /\ Running("return", b)
  /\ LinearMove(b, "low", "goingDown")
  /\ UNCHANGED <<sounds, sources, managers, left, delayed, removed, touchable, rest>>

\* TriggerAndWait: the master is asked again, and if it locks now the button stays where it is.
TriggerAndWait(b) ==
  IF ~Unlocked(b)
  THEN /\ think' = [think EXCEPT ![b] = "none"]
       /\ Calls(<<>>)
       /\ UNCHANGED <<state, touchable, delayed>>
  ELSE /\ state' = [state EXCEPT ![b] = "top"]
       /\ think' = [think EXCEPT ![b] = IF Has(b, "stay") \/ Has(b, "toggle") THEN "none" ELSE "return"]
       /\ touchable' = IF ~Has(b, "stay") /\ ~Has(b, "toggle") THEN touchable
                       ELSE IF Has(b, "touchOnly") THEN touchable \cup {b} ELSE touchable \ {b}
       /\ delayed' = DelayedUses(b)
       /\ Calls(UseTargets(b))

\* Mutant: the multisources are not told that the button is back.
ButtonBackHomeQuietly(b) ==
  /\ state' = [state EXCEPT ![b] = "bottom"]
  /\ think' = [think EXCEPT ![b] = "none"]
  /\ delayed' = IF Has(b, "toggle") THEN DelayedUses(b) ELSE delayed
  /\ Calls((IF Has(b, "toggle") THEN UseTargets(b) ELSE <<>>) \o <<Frame("rearm", b)>>)
  /\ UNCHANGED touchable

\* ButtonBackHome: a toggle button fires its targets, every button uses the multisources among them.
ButtonBackHome(b) ==
  LET own == Named(map.target[b]) \cap Sources
      fire == Has(b, "toggle")
  IN  /\ state' = [state EXCEPT ![b] = "bottom"]
      /\ think' = [think EXCEPT ![b] = "none"]
      /\ delayed' = IF fire THEN DelayedUses(b) ELSE delayed
      /\ Calls((IF fire THEN UseTargets(b) ELSE <<>>) \o UseAll(own, b) \o <<Frame("rearm", b)>>)
      /\ UNCHANGED touchable

\* ButtonBackHome's end: the touch function is set again.
Rearm(b) ==
  /\ Running("rearm", b)
  /\ touchable' = IF Has(b, "touchOnly") THEN touchable \cup {b} ELSE touchable \ {b}
  /\ Calls(<<>>)
  /\ UNCHANGED <<moving, sounds, sources, managers, left, delayed, removed, rest>>

\* ButtonResponseToTouch: what a touch or a shot does now.
Response(b) ==
  CASE state[b] = "bottom" -> <<Frame("activate", b)>>
    [] state[b] = "top" /\ Has(b, "toggle") /\ ~Has(b, "stay") -> <<Frame("return", b)>>
    [] OTHER -> <<>>

Idle(e) == stack = <<>> /\ Alive(e)

\* A player's doing, to an entity; there are MaxInputs of them.
Input(e) == Idle(e) /\ inputs < MaxInputs /\ inputs' = inputs + 1


\* A player touches a button; a toggle button fires its targets before it returns.
ButtonTouch(b) ==
  /\ Input(b) /\ b \in touchable /\ Has(b, "touchOnly")
  /\ Response(b) # <<>> /\ Unlocked(b)
  /\ touchable' = touchable \ {b}
  /\ IF state[b] = "top"
     THEN stack' = UseTargets(b) \o Response(b) /\ delayed' = DelayedUses(b)
     ELSE stack' = Response(b) /\ UNCHANGED delayed
  /\ UNCHANGED <<moving, sounds, sources, managers, left, removed, map>>

\* CBaseButton::TakeDamage: a shot at a button with health.
ButtonShot(b) ==
  /\ Input(b) /\ Has(b, "health")
  /\ Response(b) # <<>>
  /\ touchable' = touchable \ {b}
  /\ stack' = Response(b)
  /\ UNCHANGED <<moving, sounds, sources, managers, left, delayed, removed, map>>

\* A player's use key; TakeDamage buttons and touch buttons do not answer to it.
PlayerUse(e) ==
  /\ Input(e)
  /\ IF e \in Buttons THEN ~Has(e, "health") ELSE Has(e, "useOnly")
  /\ stack' = <<[op |-> "use", ent |-> e, by |-> Stranger]>>
  /\ UNCHANGED <<moving, sounds, sources, managers, left, delayed, removed, touchable, map>>

-----------------------------------------------------------------------------
(* Doors *)

DoorGoUp(d) ==
  /\ sound' = IF ~Has(d, "silent") /\ state[d] = "bottom" /\ d \notin quiet THEN sound \cup {d} ELSE sound
  /\ quiet' = quiet \ {d}
  /\ LinearMove(d, "high", "goingUp")

DoorGoDown(d) ==
  /\ sound' = IF ~Has(d, "silent") /\ state[d] \in {"top", "bottom"} THEN sound \cup {d} ELSE sound
  /\ UNCHANGED quiet
  /\ LinearMove(d, "low", "goingDown")

CanActivate(d) == Unlocked(d) /\ (state[d] = "bottom" \/ (Has(d, "noReturn") /\ state[d] = "top"))

\* CBaseDoor::DoorActivate
DoorActivate(d) == IF Has(d, "noReturn") /\ state[d] = "top" THEN DoorGoDown(d) ELSE DoorGoUp(d)

\* CBaseDoor::Use: ignored while the door moves, and while it waits to close.
DoorUse(d) ==
  /\ IF CanActivate(d) THEN DoorActivate(d) ELSE Calls(<<>>) /\ UNCHANGED <<moving, sounds>>
  /\ UNCHANGED <<sources, managers, left, delayed, removed, touchable, rest>>

\* CBaseDoor::DoorTouch by a player: only doors without a name open when touched.
DoorTouch(d) ==
  /\ Input(d) /\ d \in touchable /\ map.name[d] = NoName
  /\ Unlocked(d)
  /\ touchable' = touchable \ {d}
  /\ stack' = <<Frame("open", d)>>
  /\ UNCHANGED <<moving, sounds, sources, managers, left, delayed, removed, map>>

Open(d) ==
  /\ Running("open", d)
  /\ DoorActivate(d)
  /\ UNCHANGED <<sources, managers, left, delayed, removed, touchable, rest>>

\* Mutant: a door that has targets to use does not get the think that closes it.
DoorHitTopWithTargets(d) ==
  /\ state' = [state EXCEPT ![d] = "top"]
  /\ think' = [think EXCEPT ![d] = IF Has(d, "noReturn") \/ Has(d, "stay") \/ map.target[d] # NoName THEN "none" ELSE "goDown"]
  /\ touchable' = IF Has(d, "noReturn") /\ ~Has(d, "useOnly") THEN touchable \cup {d} ELSE touchable
  /\ sound' = IF Has(d, "silent") THEN sound ELSE sound \ {d}
  /\ UNCHANGED quiet
  /\ delayed' = DelayedUses(d)
  /\ Calls((IF Has(d, "startOpen") THEN FireTargets(map.close[d], d) ELSE <<>>) \o UseTargets(d))

\* DoorHitTop: the close target is fired first, by a door that starts open.
DoorHitTop(d) ==
  /\ state' = [state EXCEPT ![d] = "top"]
  /\ think' = [think EXCEPT ![d] = IF Has(d, "noReturn") \/ Has(d, "stay") THEN "none" ELSE "goDown"]
  /\ touchable' = IF Has(d, "noReturn") /\ ~Has(d, "useOnly") THEN touchable \cup {d} ELSE touchable
  /\ sound' = IF Has(d, "silent") THEN sound ELSE sound \ {d}
  /\ UNCHANGED quiet
  /\ delayed' = DelayedUses(d)
  /\ Calls((IF Has(d, "startOpen") THEN FireTargets(map.close[d], d) ELSE <<>>) \o UseTargets(d))

\* DoorHitBottom, called by LinearMoveDone: the moving sound goes on for 0.1 s, in case the door opens again.
DoorHitBottom(d) ==
  /\ state' = [state EXCEPT ![d] = "bottom"]
  /\ think' = [think EXCEPT ![d] = "hitBottom"]
  /\ touchable' = IF Has(d, "useOnly") THEN touchable \ {d} ELSE touchable \cup {d}
  /\ quiet' = quiet \cup {d}
  /\ UNCHANGED sound
  /\ delayed' = DelayedUses(d)
  /\ Calls(UseTargets(d) \o (IF Has(d, "startOpen") THEN <<>> ELSE FireTargets(map.close[d], d)))

\* DoorHitBottom, called by the think that it set: stop the sound.
DoorQuiet(d) ==
  /\ Idle(d) /\ think[d] = "hitBottom"
  /\ think' = [think EXCEPT ![d] = "none"]
  /\ quiet' = quiet \ {d}
  /\ sound' = IF Has(d, "silent") THEN sound ELSE sound \ {d}
  /\ UNCHANGED <<state, pos, stack, sources, managers, left, delayed, removed, touchable, rest>>

TurnAll(op, es, blocked) ==
  LET found == InOrder(es) IN [i \in DOMAIN found |-> [op |-> op, ent |-> found[i], by |-> blocked]]

\* CBaseDoor::Blocked: the door and its namesakes that may come back turn round, each by its own state.
Blocked(d) ==
  LET back == {e \in Named(map.name[d]) \cup {d} : e \in Doors /\ ~Has(e, "stay")}
  IN  /\ Input(d) /\ think[d] = "moveDone"
      /\ stack' = TurnAll("turn", back \cap {d}, d) \o TurnAll("realign", back \ {d}, d)
      /\ UNCHANGED <<moving, sounds, sources, managers, left, delayed, removed, touchable, map>>

\* Blocked, of a namesake: one at rest is put where the blocked door is, if that rests by now as well (it was already
\* there, and its move-done function was called at once); on the namesake's own way that may be anywhere.
Realign(d) ==
  /\ Running("realign", d) /\ Alive(d)
  /\ IF think[d] # "moveDone" /\ think[Head(stack).by] # "moveDone"
     THEN \E place \in {"low", "between", "high"} : pos' = [pos EXCEPT ![d] = place]
     ELSE UNCHANGED pos
  /\ Calls(<<Frame("turn", d)>>)
  /\ UNCHANGED <<state, think, sounds, sources, managers, left, delayed, removed, touchable, rest>>

Turn(d) ==
  /\ Running("turn", d) /\ Alive(d)
  /\ IF state[d] = "goingDown" THEN DoorGoUp(d) ELSE DoorGoDown(d)
  /\ UNCHANGED <<sources, managers, left, delayed, removed, touchable, rest>>

-----------------------------------------------------------------------------
(* Movement of buttons and doors *)

\* The engine moves a mover that has not arrived.
Push(e) ==
  /\ Idle(e) /\ think[e] = "moveDone" /\ pos[e] # "between"
  /\ pos' = [pos EXCEPT ![e] = "between"]
  /\ UNCHANGED <<state, think, stack, sounds, sources, managers, left, delayed, removed, touchable, rest>>

\* The think of a mover that arrives: LinearMoveDone.
Arrive(e) ==
  /\ Idle(e) /\ think[e] = "moveDone" /\ pos[e] = "between"
  /\ pos' = [pos EXCEPT ![e] = IF state[e] = "goingUp" THEN "high" ELSE "low"]
  /\ think' = [think EXCEPT ![e] = "none"]
  /\ stack' = <<Frame("moveDone", e)>>
  /\ UNCHANGED <<state, sounds, sources, managers, left, delayed, removed, touchable, rest>>

\* m_pfnCallWhenMoveDone
MoveDone(e) ==
  /\ Running("moveDone", e)
  /\ IF e \in Buttons
     THEN /\ IF state[e] = "goingUp" THEN TriggerAndWait(e) ELSE ButtonBackHome(e)
          /\ UNCHANGED sounds
     ELSE IF state[e] = "goingUp" THEN DoorHitTop(e) ELSE DoorHitBottom(e)
  /\ UNCHANGED <<pos, sources, managers, left, removed, rest>>

\* The wait of a mover that comes back by itself is over: ButtonReturn or DoorGoDown.
WaitOver(e) ==
  /\ Idle(e) /\ think[e] \in {"return", "goDown"}
  /\ think' = [think EXCEPT ![e] = "none"]
  /\ stack' = <<Frame(IF e \in Buttons THEN "return" ELSE "turn", e)>>
  /\ UNCHANGED <<state, pos, sounds, sources, managers, left, delayed, removed, touchable, rest>>

-----------------------------------------------------------------------------
(* Multisources *)

\* The entities with a target, and the managers that have it among theirs; none without a name.
Firing(n) == {e \in Present \ Managers : Alive(e) /\ n # NoName /\ map.target[e] = n}
\* The managers that fire it, and the clones of such managers that are running.
Managing(n) ==
  {m \in Present \cap Managers : Alive(m) /\ n \in Range(map.fires[m])} \cup
    {c.id : c \in {d \in clones : n \in Range(map.fires[d.of])}}

\* The orders the engine may find them in: a clone has any number that is free.
Listings(es) ==
  {q \in SetToSeqs(es) : \A i, j \in DOMAIN q :
      {q[i], q[j]} \subseteq Managers /\ map.edict[q[i]] < map.edict[q[j]] => i < j}

\* Mutant: no inputs are made for the managers.
RegisterEntities(s) ==
  LET firing == InOrder(Firing(map.name[s]))
  IN  /\ Idle(s) /\ think[s] = "register"
      /\ think' = [think EXCEPT ![s] = "none"]
      /\ \E managing \in Listings(Managing(map.name[s])) : members' = [members EXCEPT ![s] = firing \o managing]
      /\ input' = [input EXCEPT ![s] = [i \in 1..Len(firing) |-> FALSE]]
      /\ UNCHANGED <<state, pos, stack, disturbed, sounds, managers, left, delayed, removed, touchable, rest>>

\* CMultiSource::Register: the entities with this target, then the managers that have it.
Register(s) ==
  LET firing == InOrder(Firing(map.name[s]))
  IN  /\ Idle(s) /\ think[s] = "register"
      /\ think' = [think EXCEPT ![s] = "none"]
      /\ \E managing \in Listings(Managing(map.name[s])) :
           /\ members' = [members EXCEPT ![s] = firing \o managing]
           /\ input' = [input EXCEPT ![s] = [i \in 1..Len(firing \o managing) |-> FALSE]]
      /\ UNCHANGED <<state, pos, stack, disturbed, sounds, managers, left, delayed, removed, touchable, rest>>

\* CMultiSource::Use toggles the input of the caller; the last one's when the caller is not a member.
SourceUse(s, caller) ==
  LET n == Len(members[s])
      i == IF caller \in Range(members[s]) THEN CHOOSE k \in 1..n : members[s][k] = caller ELSE n
      toggled == IF n = 0 THEN input[s] ELSE [input[s] EXCEPT ![i] = ~@]
  IN  /\ input' = [input EXCEPT ![s] = toggled]
      /\ disturbed' = IF caller \in Range(members[s]) THEN disturbed ELSE disturbed \cup {s}
      /\ Calls(IF think[s] # "register" /\ \A k \in DOMAIN toggled : toggled[k] THEN FireTargets(map.target[s], s) ELSE <<>>)
      /\ UNCHANGED <<members, moving, sounds, managers, left, delayed, removed, touchable, rest>>

-----------------------------------------------------------------------------
(* Multi-managers *)

\* CMultiManager::ManagerUse: a threaded manager leaves the work to a clone; else no use until all targets are fired.
ManagerUse(m) ==
  /\ IF m \in running
     THEN UNCHANGED <<managers, think>>
     ELSE IF Has(m, "thread")
     THEN /\ made' = made + 1
          /\ clones' = clones \cup {[id |-> made + 1, of |-> m, index |-> 0, first |-> TRUE]}
          /\ UNCHANGED <<running, index, think>>
     ELSE /\ running' = running \cup {m}
          /\ index' = [index EXCEPT ![m] = 0]
          /\ think' = [think EXCEPT ![m] = "managerStart"]
          /\ UNCHANGED <<clones, made>>
  /\ Calls(<<>>)
  /\ UNCHANGED <<state, pos, sounds, sources, left, delayed, removed, touchable, rest>>

\* What ManagerThink fires from index i on when the targets up to the n-th are due: a think is set for a time
\* when one is, except for the first, which is set for the time of the use.
Due(m, i, n, first) == n <= Len(map.fires[m]) /\ (n > i \/ (first /\ n = i))
FireDue(m, i, n, caller) == [k \in 1..(n - i) |-> [op |-> "fire", ent |-> caller, by |-> map.fires[m][i + k]]]

\* CMultiManager::ManagerThink
ManagerThink(m) ==
  /\ Idle(m) /\ think[m] \in {"managerStart", "managerThink"}
  /\ \E n \in 0..Len(map.fires[m]) :
       /\ Due(m, index[m], n, think[m] = "managerStart")
       /\ index' = [index EXCEPT ![m] = n]
       /\ think' = [think EXCEPT ![m] = "none"]
       /\ stack' = FireDue(m, index[m], n, m) \o <<Frame("fired", m)>>
  /\ UNCHANGED <<state, pos, running, clones, made, sounds, sources, left, delayed, removed, touchable, rest>>

\* The end of ManagerThink: usable again, or a think for the next target.
Fired(m) ==
  /\ Running("fired", m)
  /\ running' = IF index[m] = Len(map.fires[m]) THEN running \ {m} ELSE running
  /\ think' = IF index[m] = Len(map.fires[m]) THEN think ELSE [think EXCEPT ![m] = "managerThink"]
  /\ Calls(<<>>)
  /\ UNCHANGED <<state, pos, index, clones, made, sounds, sources, left, delayed, removed, touchable, rest>>

\* FireTargets of one of the targets, when its turn has come.
Fire ==
  /\ stack # <<>> /\ Head(stack).op = "fire"
  /\ Calls(FireTargets(Head(stack).by, Head(stack).ent))
  /\ UNCHANGED <<moving, sounds, sources, managers, left, delayed, removed, touchable, rest>>

\* ManagerThink of a clone, which removes itself at the end.
CloneThink(c) ==
  LET all == Len(map.fires[c.of])
  IN  /\ stack = <<>>
      /\ \E n \in 0..all :
           /\ Due(c.of, c.index, n, c.first)
           /\ clones' = (clones \ {c}) \cup (IF n = all THEN {} ELSE {[c EXCEPT !.index = n, !.first = FALSE]})
           /\ stack' = FireDue(c.of, c.index, n, c.id)
      /\ UNCHANGED <<moving, running, index, made, sounds, sources, left, delayed, removed, touchable, rest>>

-----------------------------------------------------------------------------
(* Counters, touch triggers, delayed uses and removal *)

\* CBaseTrigger::ActivateMultiTrigger from a call (call = the frames that follow it).
ActivateMultiTrigger(t, after) ==
  IF think[t] # "none" \/ ~Unlocked(t)
  THEN stack' = after /\ UNCHANGED delayed
  ELSE stack' = UseTargets(t) \o <<Frame("triggered", t)>> \o after /\ delayed' = DelayedUses(t)

\* CBaseTrigger::CounterUse
CounterUse(c) ==
  /\ left' = [left EXCEPT ![c] = IF @ < 0 THEN @ ELSE @ - 1]
  /\ IF left[c] = 1 THEN ActivateMultiTrigger(c, Tail(stack)) ELSE Calls(<<>>) /\ UNCHANGED delayed
  /\ UNCHANGED <<moving, sounds, sources, managers, removed, touchable, rest>>

\* CBaseTrigger::MultiTouch
MultiTouch(t) ==
  /\ Input(t) /\ t \in touchable
  /\ think[t] = "none" /\ Unlocked(t)
  /\ ActivateMultiTrigger(t, <<>>)
  /\ UNCHANGED <<moving, sounds, sources, managers, left, removed, touchable, map>>

\* A counter never waits (CTriggerCounter::Spawn sets m_flWait to -1).
Waits(t) == t \in Triggers /\ Has(t, "wait")

\* The end of ActivateMultiTrigger: a trigger that waits is reset later, one that does not is removed.
Triggered(t) ==
  /\ Running("triggered", t)
  /\ think' = [think EXCEPT ![t] = IF Waits(t) THEN "waitOver" ELSE "remove"]
  /\ touchable' = IF Waits(t) THEN touchable ELSE touchable \ {t}
  /\ Calls(<<>>)
  /\ UNCHANGED <<state, pos, sounds, sources, managers, left, delayed, removed, rest>>

\* MultiWaitOver, or SUB_Remove of a trigger that fires once.
TriggerThink(t) ==
  /\ Idle(t) /\ think[t] \in {"waitOver", "remove"}
  /\ think' = [think EXCEPT ![t] = "none"]
  /\ removed' = IF think[t] = "remove" THEN removed \cup {t} ELSE removed
  /\ UNCHANGED <<state, pos, stack, sounds, sources, managers, left, delayed, touchable, rest>>

\* CBaseDelay::DelayThink: the DelayedUse kills and fires, and is removed.
DelayThink(i) ==
  /\ stack = <<>>
  /\ delayed' = RemoveAt(delayed, i)
  /\ stack' = Killing(delayed[i][2]) \o FireTargets(delayed[i][1], Stranger)
  /\ UNCHANGED <<moving, sounds, sources, managers, left, removed, touchable, rest>>

\* The kill target: every entity of the name is removed, and the clones of a manager have its name.
Kill ==
  /\ stack # <<>> /\ Head(stack).op = "kill"
  /\ removed' = removed \cup Named(Head(stack).by)
  /\ clones' = {c \in clones : c.of \notin Named(Head(stack).by)}
  /\ Calls(<<>>)
  /\ UNCHANGED <<moving, sounds, sources, running, index, made, left, delayed, touchable, rest>>

\* FireTargets calls Use of what it finds, Blocked turns the doors it finds; nobody finds an entity that is being removed.
UseRemoved(e) ==
  /\ Running("use", e) \/ Running("turn", e) \/ Running("realign", e)
  /\ ~Alive(e)
  /\ Calls(<<>>)
  /\ UNCHANGED <<moving, sounds, sources, managers, left, delayed, removed, touchable, rest>>

\* A touch trigger has no use function.
UseTrigger(e) ==
  /\ Calls(<<>>)
  /\ UNCHANGED <<moving, sounds, sources, managers, left, delayed, removed, touchable, rest>>

Use(e) ==
  /\ Running("use", e) /\ Alive(e)
  /\ \/ e \in Buttons /\ ButtonUse(e)
     \/ e \in Doors /\ DoorUse(e)
     \/ e \in Sources /\ SourceUse(e, Head(stack).by)
     \/ e \in Managers /\ ManagerUse(e)
     \/ e \in Counters /\ CounterUse(e)
     \/ e \in Triggers /\ UseTrigger(e)

-----------------------------------------------------------------------------

Call ==
  \/ \E e \in Entities : Use(e) \/ UseRemoved(e)
  \/ \E b \in Buttons : Activate(b) \/ ButtonReturn(b) \/ Rearm(b)
  \/ \E d \in Doors : Open(d) \/ Realign(d) \/ Turn(d)
  \/ \E e \in Movers : MoveDone(e)
  \/ \E m \in Managers : Fired(m)
  \/ \E t \in Counters \cup Triggers : Triggered(t)
  \/ Kill
  \/ Fire

MoverThink(e) == Push(e) \/ Arrive(e) \/ WaitOver(e) \/ (e \in Doors /\ DoorQuiet(e))

Think ==
  \/ \E e \in Movers : MoverThink(e)
  \/ \E s \in Sources : Register(s)
  \/ \E m \in Managers : ManagerThink(m)
  \/ \E c \in clones : CloneThink(c)
  \/ \E t \in Counters \cup Triggers : TriggerThink(t)
  \/ \E i \in DOMAIN delayed : DelayThink(i)

Players ==
  \/ \E b \in Buttons : ButtonTouch(b) \/ ButtonShot(b)
  \/ \E e \in Movers : PlayerUse(e)
  \/ \E d \in Doors : DoorTouch(d) \/ Blocked(d)
  \/ \E t \in Triggers : MultiTouch(t)

Next == Call \/ Think \/ Players

\* The engine calls a think function that is set; what follows needs that of the doors and of the managers only.
Fairness ==
  /\ WF_vars(Call)
  /\ \A d \in Doors : SF_vars(MoverThink(d))
  /\ \A m \in Managers : SF_vars(ManagerThink(m))

Spec == Init /\ [][Next]_vars /\ Fairness

-----------------------------------------------------------------------------
(* Properties *)

\* The variables hold what the code's members hold.
TypeOK ==
  /\ map \in Maps
  /\ state \in [Movers -> {"bottom", "goingUp", "top", "goingDown"}]
  /\ pos \in [Movers -> {"low", "between", "high"}]
  /\ DOMAIN think = Entities /\ DOMAIN input = Sources
  /\ \A e \in Buttons : think[e] \in {"none", "moveDone", "return"}
  /\ \A e \in Doors : think[e] \in {"none", "moveDone", "goDown", "hitBottom"}
  /\ \A e \in Sources : think[e] \in {"none", "register"} /\ DOMAIN input[e] = DOMAIN members[e]
  /\ \A e \in Managers : think[e] \in {"none", "managerStart", "managerThink"} /\ index[e] <= Len(map.fires[e])
  /\ \A e \in Counters \cup Triggers : think[e] \in {"none", "waitOver", "remove"}
  /\ left \in [Counters -> -1..Count] /\ index \in [Managers -> Nat]
  /\ touchable \subseteq Movers \cup Triggers
  /\ sound \subseteq Doors /\ quiet \subseteq Doors /\ removed \subseteq Entities
  /\ running \subseteq Managers /\ disturbed \subseteq Sources
  /\ inputs \in 0..MaxInputs /\ made \in Nat

\* Between two calls of the engine nothing waits for a think that is not set: a mover that moves, and one that comes
\* back by itself, has its next think; a door whose moving sound plays has the think that stops it; a manager that
\* takes no use has the think that fires on; a counter that ran out has fired.  Only a button or a counter that its
\* master locked in the meantime is left behind (TriggerAndWait and ActivateMultiTrigger return early).
NothingStranded ==
  stack = <<>> =>
    /\ \A e \in Movers :
         /\ state[e] \in {"goingUp", "goingDown"} =>
              think[e] = "moveDone" \/ (e \in Buttons /\ map.master[e] # NoName /\ state[e] = "goingUp" /\ pos[e] = "high")
         /\ (state[e] = "top" /\ ~Has(e, "stay") /\ ~Has(e, "toggle") /\ ~Has(e, "noReturn")) => think[e] \in {"return", "goDown"}
    /\ \A d \in sound : think[d] \in {"moveDone", "hitBottom"}
    /\ \A m \in running : think[m] \in {"managerStart", "managerThink"}
    /\ \A c \in Counters : left[c] <= 0 => think[c] = "remove" \/ c \in removed \/ map.master[c] # NoName

\* A multisource that only its members used, after it had registered them, knows which of its buttons are pushed.
\* Toggle buttons are left out: they use it twice when they come back.
InputsMatch ==
  stack = <<>> =>
    \A s \in Sources \ disturbed : \A i \in DOMAIN members[s] :
      LET b == members[s][i]
      IN  (b \in Buttons /\ Alive(b) /\ Alive(s) /\ ~Has(b, "toggle") /\ ~Has(b, "delay")) =>
            (input[s][i] <=> state[b] \in {"top", "goingDown"})

\* A door that opened and returns by itself closes, however it is used, as long as it is not blocked for ever; and
\* a manager that was started fires all its targets and can be used again, whatever they do to it.
MotionEnds ==
  /\ \A d \in Doors : (state[d] # "bottom" /\ ~Has(d, "noReturn") /\ ~Has(d, "stay")) ~> (state[d] = "bottom" \/ d \in removed)
  /\ \A m \in Managers : m \in running ~> (m \notin running \/ m \in removed)

=============================================================================
