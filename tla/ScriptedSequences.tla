-------------------------- MODULE ScriptedSequences --------------------------
(***************************************************************************)
(* Scripted sequences (scripted.cpp, with the script tasks of schedule.cpp  *)
(* and defaultai.cpp).  A scripted_sequence that is used looks for a        *)
(* monster, possesses it, has it walk to a mark, waits until the monsters   *)
(* of all scripts of its name are in their places (m_iDelay), plays an      *)
(* animation, gives the monster back and fires its targets, which may be    *)
(* scripts that take the monster over.  Meanwhile monsters are hurt, fail   *)
(* to get through, die and are removed, each in its own think.              *)
(*                                                                         *)
(* A map is a record: name, entity (the monsters m_iszEntity may mean),     *)
(* target, and flags: "walk" (m_fMoveTo 1 or 2), "teleport" (4, else 0),    *)
(* "idle" (has m_iszIdle), "repeatable", "override", "empty" (no            *)
(* m_iszPlay).  A time is reached at some time, or never: m_startTime is    *)
(* "now" or "far".                                                          *)
(***************************************************************************)
EXTENDS Integers, FiniteSets

CONSTANTS Scripts, Monsters,
          Names,         \* targetnames
          NoName,        \* no targetname, no target
          NULL,
          Maps,          \* the maps to choose from
          MaxUses        \* bound: how often scripts are used from outside

ASSUME ScriptsAssumption == NoName \notin Names /\ NULL \notin Scripts \cup Monsters /\ MaxUses \in Nat
ASSUME MonstersAssumption == IsFiniteSet(Monsters)
ASSUME MapsAssumption == \A mp \in Maps : mp.name \in [Scripts -> Names \cup {NoName}]

VARIABLES
  map,
  scripts,       \* the scripts that exist
  m_hTargetEnt,  \* of a script: its monster
  m_iDelay,      \* how many monsters of its name it waits for
  m_startTime,
  think,         \* of a script: the function whose nextthink has been set
  m_pCine,       \* of a monster: the script that possesses it
  m_scriptState, \* of a possessed monster; nobody reads it of others ("none")
  m_MonsterState, m_IdealMonsterState,  \* "IDLE" stands for NONE and ALERT, too
  m_pSchedule,   \* "other", "none", or the part of the script's schedule it is in
  deadflag,
  hurt,          \* the monsters whose health is 0 or less
  killed,        \* those with bits_MEMORY_KILLED
  present,       \* those that have not been removed
  uses,
  disturbed      \* history: names whose scripts lost count of their walkers

script == <<scripts, m_hTargetEnt, m_iDelay, m_startTime, think>>
mind == <<m_MonsterState, m_IdealMonsterState, m_pSchedule>>
body == <<deadflag, hurt, killed, present>>
vars == <<map, script, m_pCine, m_scriptState, mind, body, uses, disturbed>>

Has(c, flag) == flag \in map.flags[c]
Group(n) == {c \in scripts : n # NoName /\ map.name[c] = n}

Init ==
  /\ map \in Maps
  /\ scripts = Scripts
  /\ m_hTargetEnt = [c \in Scripts |-> NULL]
  /\ m_iDelay = [c \in Scripts |-> 0]
  /\ m_startTime = [c \in Scripts |-> IF Has(c, "idle") /\ map.name[c] # NoName THEN "far" ELSE "now"]
  /\ think = [c \in Scripts |-> IF Has(c, "idle") \/ map.name[c] = NoName THEN "CineThink" ELSE "none"]
  /\ m_pCine = [m \in Monsters |-> NULL]
  /\ m_scriptState = [m \in Monsters |-> "none"]
  /\ m_MonsterState = [m \in Monsters |-> "IDLE"]
  /\ m_IdealMonsterState = [m \in Monsters |-> "IDLE"]
  /\ m_pSchedule = [m \in Monsters |-> "other"]
  /\ deadflag = [m \in Monsters |-> "NO"]
  /\ hurt = {}
  /\ killed = {}
  /\ present = Monsters
  /\ uses = 0
  /\ disturbed = {}

\* Monsters that were counted when they were possessed and have not reached TASK_ENABLE_SCRIPT.
Walking(m) ==
  /\ m_IdealMonsterState[m] = "SCRIPT"
  /\ m_scriptState[m] = "WALK_TO_MARK"
  /\ m_MonsterState[m] = "SCRIPT" => m_pSchedule[m] \in {"walk", "none"}
Walkers(n) == {m \in present : Walking(m) /\ map.name[m_pCine[m]] = n}
NamesOf(ms) == {n \in Names : ms \cap Walkers(n) # {}}

-----------------------------------------------------------------------------
(* What scripts do to monsters. *)

\* CineCleanup of each of ms; one of the dying is dead at once, one without health is told to die.  Those that leave
\* do so in their own think and take the new state at once, the others when they think.
Freed(m) == IF deadflag[m] = "DYING" \/ m \in hurt THEN "DEAD" ELSE "IDLE"
CineCleanup(ms, leaving) ==
  LET dying == {m \in ms : deadflag[m] = "DYING"} IN
  /\ m_hTargetEnt' = [c \in Scripts |-> IF \E m \in ms : m_pCine[m] = c THEN NULL ELSE m_hTargetEnt[c]]
  /\ m_pCine' = [m \in Monsters |-> IF m \in ms THEN NULL ELSE m_pCine[m]]
  /\ m_scriptState' = [m \in Monsters |-> IF m \in ms THEN "none" ELSE m_scriptState[m]]
  /\ m_IdealMonsterState' = [m \in Monsters |-> IF m \in ms THEN Freed(m) ELSE m_IdealMonsterState[m]]
  /\ m_MonsterState' = [m \in Monsters |-> IF m \in dying \cup leaving THEN Freed(m) ELSE m_MonsterState[m]]
  /\ deadflag' = [m \in Monsters |-> IF m \in dying THEN "DEAD"
                                     ELSE IF m \in leaving \cap hurt THEN "DYING" ELSE deadflag[m]]
  /\ hurt' = hurt \cup dying
  /\ disturbed' = disturbed \cup NamesOf(ms)

\* ScriptEntityCancel of the scripts with the name of c, and CleanUp of their monsters if those are in the script's state.
Cancelled(c) ==
  {m \in present : /\ m_MonsterState[m] = "SCRIPT"
                   /\ \E d \in Group(map.name[c]) \cup {c} : m_hTargetEnt[d] = m}

CancelScript(c, leaving) == CineCleanup(Cancelled(c), leaving)

\* Mutant: a monster on its way is not counted.
DelayMoreNot(n) == n = n /\ UNCHANGED <<m_iDelay, m_startTime>>

\* DelayStart(1), when a monster is sent to its mark, and DelayStart(0), when it is there.
DelayMore(n) ==
  /\ m_iDelay' = [c \in Scripts |-> IF c \in Group(n) THEN m_iDelay[c] + 1 ELSE m_iDelay[c]]
  /\ UNCHANGED m_startTime

\* Mutant: the first script of the name is the only one that counts down.
DelayLessOne(n) ==
  /\ m_iDelay' = [c \in Scripts |-> IF Group(n) # {} /\ c = CHOOSE d \in Group(n) : TRUE THEN m_iDelay[c] - 1 ELSE m_iDelay[c]]
  /\ m_startTime' = [c \in Scripts |-> IF c \in Group(n) /\ m_iDelay[c] <= 1 THEN "now" ELSE m_startTime[c]]

DelayLess(n) ==
  /\ m_iDelay' = [c \in Scripts |-> IF c \in Group(n) THEN m_iDelay[c] - 1 ELSE m_iDelay[c]]
  /\ m_startTime' = [c \in Scripts |-> IF c \in Group(n) /\ m_iDelay[c] <= 1 THEN "now" ELSE m_startTime[c]]

\* Use of each script of cs, with the monsters and thinks they have at that moment.
Used(cs, target, thinks) ==
  /\ think' = [c \in Scripts |-> IF c \in cs /\ target[c] = NULL THEN "CineThink" ELSE thinks[c]]
  /\ m_startTime' = [c \in Scripts |-> IF /\ c \in cs
                                          /\ target[c] # NULL
                                          /\ m_scriptState[target[c]] # "PLAYING" THEN "now" ELSE m_startTime[c]]

-----------------------------------------------------------------------------
(* The scripts. *)

Use(n) ==
  /\ uses < MaxUses
  /\ uses' = uses + 1
  /\ Group(n) # {}
  /\ Used(Group(n), m_hTargetEnt, think)
  /\ UNCHANGED <<map, scripts, m_hTargetEnt, m_iDelay, m_pCine, m_scriptState, mind, body, disturbed>>

\* Mutant: CanPlaySequence takes possessed monsters, too.
CanPlayPossessed(m, c) ==
  /\ m \in map.entity[c] \cap present
  /\ deadflag[m] # "DEAD"
  /\ Has(c, "override") \/ "IDLE" \in {m_MonsterState[m], m_IdealMonsterState[m]}

CanPlaySequence(m, c) ==
  /\ m \in map.entity[c] \cap present
  /\ m_pCine[m] = NULL
  /\ deadflag[m] # "DEAD"
  /\ Has(c, "override") \/ "IDLE" \in {m_MonsterState[m], m_IdealMonsterState[m]}

\* A monster that is moved to its mark at once waits there until the script is used again.
PossessEntity(c, m) ==
  /\ m_hTargetEnt' = [m_hTargetEnt EXCEPT ![c] = m]
  /\ m_pCine' = [m_pCine EXCEPT ![m] = c]
  /\ m_IdealMonsterState' = [m_IdealMonsterState EXCEPT ![m] = "SCRIPT"]
  /\ IF Has(c, "walk")
       THEN /\ m_scriptState' = [m_scriptState EXCEPT ![m] = "WALK_TO_MARK"]
            /\ DelayMore(map.name[c])
       ELSE /\ m_scriptState' = [m_scriptState EXCEPT ![m] = "WAIT"]
            /\ m_startTime' = IF Has(c, "teleport") THEN [m_startTime EXCEPT ![c] = "far"] ELSE m_startTime
            /\ UNCHANGED m_iDelay

\* A monster whose last script was cancelled in this frame has not thought since: it goes on with that one's schedule.
Stale(m) == m_MonsterState[m] = "SCRIPT" /\ m_pSchedule[m] # "none"

CineThinkPossesses(c) ==
  /\ c \in scripts
  /\ think[c] = "CineThink"
  /\ think' = [think EXCEPT ![c] = "none"]
  /\ \E m \in Monsters :
       /\ CanPlaySequence(m, c)
       /\ PossessEntity(c, m)
       /\ disturbed' = IF Stale(m) THEN (disturbed \cup {map.name[c]}) \ {NoName} ELSE disturbed
  /\ UNCHANGED <<map, scripts, m_MonsterState, m_pSchedule, body, uses>>

\* No monster can play: all scripts of the name are cancelled, and it looks again in a second.
CineThinkCancels(c) ==
  /\ c \in scripts
  /\ think[c] = "CineThink"
  /\ \A m \in Monsters : ~CanPlaySequence(m, c)
  /\ CancelScript(c, {})
  /\ UNCHANGED <<map, scripts, m_iDelay, m_startTime, think, m_pSchedule, killed, present, uses>>

SUB_Remove(c) ==
  /\ c \in scripts
  /\ think[c] = "SUB_Remove"
  /\ scripts' = scripts \ {c}
  /\ think' = [think EXCEPT ![c] = "none"]
  /\ m_iDelay' = [m_iDelay EXCEPT ![c] = 0]
  /\ m_startTime' = [m_startTime EXCEPT ![c] = "far"]
  /\ UNCHANGED <<map, m_hTargetEnt, m_pCine, m_scriptState, mind, body, uses, disturbed>>

-----------------------------------------------------------------------------
(* The thinks of a monster. *)

InScript(m) == m \in present /\ m_MonsterState[m] = "SCRIPT" /\ m_IdealMonsterState[m] = "SCRIPT"

\* MaintainSchedule: the state changes or the schedule was cleared, and GetSchedule chooses a new one.
GetSchedule(m) ==
  /\ m \in present
  /\ deadflag[m] # "DEAD"
  /\ m_MonsterState[m] # m_IdealMonsterState[m] \/ m_pSchedule[m] = "none"
  /\ m_MonsterState' = [m_MonsterState EXCEPT ![m] = m_IdealMonsterState[m]]
  /\ m_pSchedule' = [m_pSchedule EXCEPT ![m] = IF m_IdealMonsterState[m] # "SCRIPT" THEN "other"
                                               ELSE IF Has(m_pCine[m], "walk") THEN "walk" ELSE "wait"]
  /\ deadflag' = [deadflag EXCEPT ![m] = IF m_IdealMonsterState[m] = "DEAD" THEN "DYING" ELSE @]
  /\ UNCHANGED <<map, script, m_pCine, m_scriptState, m_IdealMonsterState, hurt, killed, present, uses, disturbed>>

\* TASK_ENABLE_SCRIPT, once the monster stands on its mark.
EnableScript(m) ==
  /\ InScript(m)
  /\ m_pSchedule[m] = "walk"
  /\ m_pSchedule' = [m_pSchedule EXCEPT ![m] = "wait"]
  /\ DelayLess(map.name[m_pCine[m]])
  /\ UNCHANGED <<map, scripts, m_hTargetEnt, think, m_pCine, m_scriptState, m_MonsterState, m_IdealMonsterState,
                 body, uses, disturbed>>

\* GetIdealState finds a failed task or damage and calls ExitScriptedSequence; a new schedule is chosen at once.
ExitScriptedSequence(m) ==
  /\ InScript(m)
  /\ m_pSchedule[m] # "none"
  /\ m_pSchedule' = [m_pSchedule EXCEPT ![m] = "other"]
  /\ \/ /\ deadflag[m] = "DYING"
        /\ m_IdealMonsterState' = [m_IdealMonsterState EXCEPT ![m] = "DEAD"]
        /\ m_MonsterState' = [m_MonsterState EXCEPT ![m] = "DEAD"]
        /\ disturbed' = disturbed \cup NamesOf({m})
        /\ UNCHANGED <<m_hTargetEnt, m_pCine, m_scriptState, deadflag, hurt>>
     \/ /\ deadflag[m] # "DYING"
        /\ CancelScript(m_pCine[m], {m})
  /\ UNCHANGED <<map, scripts, m_iDelay, m_startTime, think, killed, present, uses>>

\* The monster is given back before the targets are used, which may want it.
SequenceDone(m) ==
  LET c == m_pCine[m] IN
  /\ CineCleanup({m}, {})
  /\ m_pSchedule' = [m_pSchedule EXCEPT ![m] = "none"]
  /\ Used(Group(map.target[c]), [m_hTargetEnt EXCEPT ![c] = NULL],
          IF Has(c, "repeatable") THEN think ELSE [think EXCEPT ![c] = "SUB_Remove"])
  /\ UNCHANGED <<map, scripts, m_iDelay, killed, present, uses>>

\* Mutant: the last to arrive is waited for for ever.
StartSequenceLater(m) ==
  /\ InScript(m)
  /\ m_pSchedule[m] = "wait"
  /\ m_iDelay[m_pCine[m]] < 0
  /\ m_startTime[m_pCine[m]] = "now"
  /\ m_pSchedule' = [m_pSchedule EXCEPT ![m] = "play"]
  /\ m_scriptState' = [m_scriptState EXCEPT ![m] = "PLAYING"]
  /\ UNCHANGED <<map, script, m_pCine, m_MonsterState, m_IdealMonsterState, body, uses, disturbed>>

\* TASK_WAIT_FOR_SCRIPT ends: the animation begins, or without one the script is done.
StartSequence(m) ==
  /\ InScript(m)
  /\ m_pSchedule[m] = "wait"
  /\ m_iDelay[m_pCine[m]] <= 0
  /\ m_startTime[m_pCine[m]] = "now"
  /\ IF Has(m_pCine[m], "empty")
       THEN SequenceDone(m)
       ELSE /\ m_pSchedule' = [m_pSchedule EXCEPT ![m] = "play"]
            /\ m_scriptState' = [m_scriptState EXCEPT ![m] = "PLAYING"]
            /\ UNCHANGED <<map, script, m_pCine, m_MonsterState, m_IdealMonsterState, body, uses, disturbed>>

\* TASK_PLAY_SCRIPT finds the animation finished.
PlayScript(m) ==
  /\ InScript(m)
  /\ m_pSchedule[m] = "play"
  /\ SequenceDone(m)

-----------------------------------------------------------------------------
(* What happens to monsters besides. *)

\* SCRIPT_EVENT_DEAD, in the animation of a death.
DeathEvent(m) ==
  /\ InScript(m)
  /\ m_pSchedule[m] = "play"
  /\ deadflag[m] = "NO"
  /\ deadflag' = [deadflag EXCEPT ![m] = "DYING"]
  /\ hurt' = hurt \cup {m}
  /\ UNCHANGED <<map, script, m_pCine, m_scriptState, mind, killed, present, uses, disturbed>>

\* TakeDamage of the last health: it does not kill a monster in a script, which breaks its script instead, also when it
\* is hurt again (IsAlive of a monster asks for its deadflag only).
TakeDamage(m) ==
  /\ m \in present
  /\ m_MonsterState[m] = "SCRIPT"
  /\ deadflag[m] # "DEAD"
  /\ hurt' = hurt \cup {m}
  /\ UNCHANGED <<map, script, m_pCine, m_scriptState, mind, deadflag, killed, present, uses, disturbed>>

\* Any other is killed, once; the corpse has health again, and the state changes when it thinks.
Killed(m) ==
  /\ m \in present \ killed
  /\ m_MonsterState[m] # "SCRIPT"
  /\ deadflag[m] = "NO"
  /\ m_IdealMonsterState' = [m_IdealMonsterState EXCEPT ![m] = "DEAD"]
  /\ killed' = killed \cup {m}
  /\ hurt' = hurt \ {m}
  /\ disturbed' = disturbed \cup NamesOf({m})
  /\ UNCHANGED <<map, script, m_pCine, m_scriptState, m_MonsterState, m_pSchedule, deadflag, present, uses>>

\* TASK_DIE ends.
Dies(m) ==
  /\ m \in present
  /\ m_MonsterState[m] = "DEAD" /\ m_IdealMonsterState[m] = "DEAD"
  /\ deadflag[m] = "DYING"
  /\ deadflag' = [deadflag EXCEPT ![m] = "DEAD"]
  /\ UNCHANGED <<map, script, m_pCine, m_scriptState, mind, hurt, killed, present, uses, disturbed>>

\* A corpse fades, a monster outside of a script is killed and gibbed, or a killtarget of its name removes a monster in
\* whatever state: handles of it become NULL.
Remove(m) ==
  /\ m \in present
  /\ present' = present \ {m}
  /\ m_hTargetEnt' = [c \in Scripts |-> IF m_hTargetEnt[c] = m THEN NULL ELSE m_hTargetEnt[c]]
  /\ m_pCine' = [m_pCine EXCEPT ![m] = NULL]
  /\ m_scriptState' = [m_scriptState EXCEPT ![m] = "none"]
  /\ m_MonsterState' = [m_MonsterState EXCEPT ![m] = "DEAD"]
  /\ m_IdealMonsterState' = [m_IdealMonsterState EXCEPT ![m] = "DEAD"]
  /\ m_pSchedule' = [m_pSchedule EXCEPT ![m] = "none"]
  /\ deadflag' = [deadflag EXCEPT ![m] = "DEAD"]
  /\ hurt' = hurt \ {m}
  /\ killed' = killed \ {m}
  /\ disturbed' = disturbed \cup NamesOf({m})
  /\ UNCHANGED <<map, scripts, m_iDelay, m_startTime, think, uses>>

\* GetIdealState outside of scripts: an enemy is met or lost.
MeetEnemy(m) ==
  /\ m \in present
  /\ m_MonsterState[m] \in {"IDLE", "COMBAT"} /\ m_IdealMonsterState[m] = m_MonsterState[m]
  /\ \E state \in {"IDLE", "COMBAT"} \ {m_MonsterState[m]} :
       /\ m_MonsterState' = [m_MonsterState EXCEPT ![m] = state]
       /\ m_IdealMonsterState' = [m_IdealMonsterState EXCEPT ![m] = state]
       /\ m_pSchedule' = [m_pSchedule EXCEPT ![m] = "other"]
  /\ UNCHANGED <<map, script, m_pCine, m_scriptState, body, uses, disturbed>>

-----------------------------------------------------------------------------
MonsterThink(m) ==
  GetSchedule(m) \/ EnableScript(m) \/ ExitScriptedSequence(m) \/ StartSequence(m) \/ PlayScript(m)

Next ==
  \/ \E n \in Names : Use(n)
  \/ \E c \in Scripts : CineThinkPossesses(c) \/ CineThinkCancels(c) \/ SUB_Remove(c)
  \/ \E m \in Monsters : \/ MonsterThink(m)
                         \/ DeathEvent(m) \/ TakeDamage(m) \/ Killed(m) \/ Dies(m) \/ Remove(m) \/ MeetEnemy(m)

\* Monsters think: routes lead to the mark or fail, animations end, and a monster whose wait is over begins.
Fairness == \A m \in Monsters : WF_vars(GetSchedule(m) \/ EnableScript(m) \/ StartSequence(m) \/ PlayScript(m))

Spec == Init /\ [][Next]_vars /\ Fairness

-----------------------------------------------------------------------------
States == {"IDLE", "COMBAT", "SCRIPT", "DEAD"}

\* What the members hold; no script counts below zero unless its name lost count.
TypeOK ==
  /\ map \in Maps
  /\ scripts \subseteq Scripts
  /\ m_hTargetEnt \in [Scripts -> Monsters \cup {NULL}]
  /\ m_iDelay \in [Scripts -> Int]
  /\ \A c \in Scripts : m_iDelay[c] < 0 => map.name[c] \in disturbed
  /\ m_startTime \in [Scripts -> {"now", "far"}]
  /\ think \in [Scripts -> {"none", "CineThink", "SUB_Remove"}]
  /\ m_pCine \in [Monsters -> Scripts \cup {NULL}]
  /\ m_scriptState \in [Monsters -> {"none", "PLAYING", "WAIT", "WALK_TO_MARK"}]
  /\ m_MonsterState \in [Monsters -> States]
  /\ m_IdealMonsterState \in [Monsters -> States]
  /\ m_pSchedule \in [Monsters -> {"none", "other", "walk", "wait", "play"}]
  /\ deadflag \in [Monsters -> {"NO", "DYING", "DEAD"}]
  /\ hurt \cup killed \cup present \subseteq Monsters
  /\ uses \in 0..MaxUses
  /\ disturbed \subseteq Names

\* A script and its monster know each other, whatever is cancelled, killed, removed or taken over at the same time,
\* and no monster is left with a script that has removed itself.
LinksAgree ==
  \A c \in Scripts, m \in Monsters : m_pCine[m] = c <=> c \in scripts /\ m_hTargetEnt[c] = m

\* The scripts of a name wait for as many monsters as are on their way for them, if none was cut short on its way.
WaitsForWalkers ==
  \A n \in Names \ disturbed : \A c \in Group(n) : m_iDelay[c] = Cardinality(Walkers(n))

\* A monster that is possessed by a script which may begin is given back, unless it dies or the count went wrong.
EveryScriptEnds ==
  \A m \in Monsters :
    m_pCine[m] # NULL /\ m_startTime[m_pCine[m]] = "now" ~>
      m_pCine[m] = NULL \/ m_IdealMonsterState[m] = "DEAD" \/ map.name[m_pCine[m]] \in disturbed
=============================================================================
