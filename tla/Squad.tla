-------------------------------- MODULE Squad --------------------------------
(***************************************************************************)
(* Squads of monsters (src/game/server/squadmonster.cpp).  A leader lists  *)
(* the members it recruited when it started, every member points back to   *)
(* its leader, and the leader keeps a mask of attack slots that its        *)
(* members take before they attack.  Monsters are placed by the map or by  *)
(* monster makers, are started a moment later, die, and are removed.  The  *)
(* slots are those of the human grunts (hgrunt.cpp), the only ones who can *)
(* ask for a slot in the middle of a schedule.                             *)
(*                                                                         *)
(* All monsters are of one class.  Those with a netname share it.  Which   *)
(* monsters are near enough to be recruited, what they see, what they      *)
(* decide to do and how long a killed one is dying is left open: IsAlive   *)
(* is true of the dying, so they are recruited as well.  An EHANDLE to a   *)
(* removed entity reads NULL: Remove clears it.                            *)
(***************************************************************************)
EXTENDS Naturals, FiniteSets

CONSTANTS Monsters,
          Enemies,
          NULL,
          EngageSlots, GrenadeSlots, \* disjoint sets of slot numbers
          bits_NO_SLOT, bits_SLOT_SQUAD_SPLIT,
          MAX_SQUAD_MEMBERS          \* 5, the leader included

Slots == EngageSlots \cup GrenadeSlots

ASSUME SquadAssumption ==
    /\ NULL \notin Monsters /\ NULL \notin Enemies
    /\ Slots \subseteq Nat
    /\ bits_NO_SLOT \notin Slots
    /\ bits_SLOT_SQUAD_SPLIT \notin Slots
    /\ bits_SLOT_SQUAD_SPLIT # bits_NO_SLOT
    /\ MAX_SQUAD_MEMBERS \in Nat \ {0}

VARIABLES
    netname,        \* "none", "member", or "leader": named, with the flag
                    \* SF_SQUADMONSTER_LEADER
    present,        \* the monsters that exist
    started,        \* those StartMonster has run for
    alive,          \* those never killed
    m_hSquadLeader, \* Monsters -> Monsters or NULL
    m_hSquadMember, \* Monsters -> SUBSET Monsters: the array of each leader
    m_afSquadSlots, \* Monsters -> SUBSET Slots
    m_iMySlot,      \* Monsters -> the slot it holds
    m_hEnemy,       \* Monsters -> Enemies or NULL
    tossing,        \* the grunts in the schedule slGruntTossGrenadeCover
    disturbed       \* leaders that recruited a monster with a slot of an old
                    \* squad, or lost a living member to its removal (history)

life == <<present, started, alive>>
squad == <<m_hSquadLeader, m_hSquadMember>>
slots == <<m_afSquadSlots, m_iMySlot>>
vars == <<netname, life, squad, slots, m_hEnemy, tossing, disturbed>>

InSquad(m) == m_hSquadLeader[m] # NULL

Init ==
    /\ netname \in [Monsters -> {"none", "member", "leader"}]
    /\ present = {} /\ started = {} /\ alive = {}
    /\ m_hSquadLeader = [m \in Monsters |-> NULL]
    /\ m_hSquadMember = [m \in Monsters |-> {}]
    /\ m_afSquadSlots = [m \in Monsters |-> {}]
    /\ m_iMySlot = [m \in Monsters |-> bits_NO_SLOT]
    /\ m_hEnemy = [m \in Monsters |-> NULL]
    /\ tossing = {}
    /\ disturbed = {}

-----------------------------------------------------------------------------
(* Recruiting. *)

\* A monster is created, by the map or by a monster maker, once.
Spawn(m) ==
    /\ m \notin present /\ m \notin started
    /\ present' = present \cup {m}
    /\ alive' = alive \cup {m}
    /\ UNCHANGED <<netname, started, squad, slots, m_hEnemy, tossing,
                   disturbed>>

\* Mutant: members of other squads are recruited as well.
RecruitableAnywhere(m) ==
    IF netname[m] = "none"
    THEN {r \in present \ {m} : netname[r] = "none"}
    ELSE {r \in present \ {m} : netname[r] # "none"}

\* Whom SquadRecruit may find: those around, or all that have its name.
Recruitable(m) ==
    IF netname[m] = "none"
    THEN {r \in present \ {m} : netname[r] = "none" /\ ~InSquad(r)}
    ELSE {r \in present \ {m} : netname[r] # "none" /\ ~InSquad(r)}

\* Those it takes, until the array is full: some of those around, but as many
\* as there are of its name.
Recruits(m) ==
    {new \in SUBSET Recruitable(m) :
        /\ Cardinality(new) < MAX_SQUAD_MEMBERS
        /\ netname[m] = "none" \/ new = Recruitable(m)
               \/ Cardinality(new) = MAX_SQUAD_MEMBERS - 1}

\* SquadRecruit, SquadAdd: no squads of one.
SquadRecruit(m) ==
    \E new \in Recruits(m) :
        IF new = {} THEN UNCHANGED <<squad, disturbed>>
        ELSE /\ m_hSquadLeader' = [r \in Monsters |->
                    IF r \in new \cup {m} THEN m ELSE m_hSquadLeader[r]]
             /\ m_hSquadMember' = [m_hSquadMember EXCEPT ![m] = new]
             /\ disturbed' = IF \A r \in new \cup {m} :
                                    m_iMySlot[r] = bits_NO_SLOT
                             THEN disturbed ELSE disturbed \cup {m}

\* StartMonster: the think that follows a monster's creation, also when it has
\* been killed in between.
StartMonster(m) ==
    /\ m \in present \ started
    /\ started' = started \cup {m}
    /\ IF InSquad(m) \/ netname[m] = "member"
       THEN UNCHANGED <<squad, disturbed>>
       ELSE SquadRecruit(m)
    /\ UNCHANGED <<netname, present, alive, slots, m_hEnemy, tossing>>

-----------------------------------------------------------------------------
(* Slots.  Each operator gives the new masks of the leaders and the new slots *)
(* of the members, as functions of the old ones.                              *)

\* SquadEnemySplit: of all the leader lists, and the leader.
SquadEnemySplit(m, enemy) ==
    LET leader == m_hSquadLeader[m]
    IN  \E r \in m_hSquadMember[leader] :
            enemy[r] # NULL /\ enemy[r] # enemy[leader]

\* Mutant: vacates all slots of the squad.
VacatedAll(m) ==
    IF InSquad(m) /\ m_iMySlot[m] # bits_NO_SLOT
    THEN [mask |-> [m_afSquadSlots EXCEPT ![m_hSquadLeader[m]] = {}],
          mine |-> [m_iMySlot EXCEPT ![m] = bits_NO_SLOT]]
    ELSE [mask |-> m_afSquadSlots, mine |-> m_iMySlot]

\* Mutant: what it leaves in m_iMySlot is no slot number.
VacatedToNull(m) ==
    IF InSquad(m) /\ m_iMySlot[m] # bits_NO_SLOT
    THEN [mask |-> [m_afSquadSlots EXCEPT
                       ![m_hSquadLeader[m]] = @ \ {m_iMySlot[m]}],
          mine |-> [m_iMySlot EXCEPT ![m] = NULL]]
    ELSE [mask |-> m_afSquadSlots, mine |-> m_iMySlot]

\* VacateSlot.
Vacated(m) ==
    IF InSquad(m) /\ m_iMySlot[m] # bits_NO_SLOT
    THEN [mask |-> [m_afSquadSlots EXCEPT
                       ![m_hSquadLeader[m]] = @ \ {m_iMySlot[m]}],
          mine |-> [m_iMySlot EXCEPT ![m] = bits_NO_SLOT]]
    ELSE [mask |-> m_afSquadSlots, mine |-> m_iMySlot]

\* The desired slots that are free, of the squad of m.
Available(m, desired, held) == desired \ held.mask[m_hSquadLeader[m]]

\* OccupySlot succeeds, when the monsters have these enemies.
CanOccupy(m, desired, held, enemy) ==
    IF InSquad(m)
    THEN SquadEnemySplit(m, enemy) \/ Available(m, desired, held) # {}
    ELSE TRUE

\* OccupySlot, when it succeeds: the first free slot.
Occupied(m, desired, held, enemy) ==
    IF ~InSquad(m) THEN held
    ELSE IF SquadEnemySplit(m, enemy)
    THEN [held EXCEPT !.mine[m] = bits_SLOT_SQUAD_SPLIT]
    ELSE LET free == Available(m, desired, held)
             slot == CHOOSE s \in free : \A t \in free : s <= t
         IN  [held EXCEPT !.mask[m_hSquadLeader[m]] = @ \cup {slot},
                          !.mine[m] = slot]

Hold(held) ==
    /\ m_afSquadSlots' = held.mask
    /\ m_iMySlot' = held.mine

-----------------------------------------------------------------------------
(* A monster's think: its enemy, its schedule. *)

\* The monster finds, changes or loses its enemy.
GetEnemy(m) ==
    /\ m \in present \cap started
    /\ \E e \in Enemies \cup {NULL} : m_hEnemy' = [m_hEnemy EXCEPT ![m] = e]
    /\ UNCHANGED <<netname, life, squad, slots, tossing, disturbed>>

\* GetIdealState may tell the squad of a new enemy.  SquadMakeEnemy: everyone
\* the leader lists turns to it, but for those that see an enemy.
IdealEnemies(m) ==
    LET leader == m_hSquadLeader[m]
        all == m_hSquadMember[leader] \cup {leader}
    IN  {m_hEnemy} \cup
        (IF ~InSquad(m) \/ m_hEnemy[m] = NULL THEN {}
         ELSE {[r \in Monsters |->
                   IF r \in turned THEN m_hEnemy[m] ELSE m_hEnemy[r]] :
                  turned \in SUBSET all})

\* MaintainSchedule changes the schedule: ScheduleChange gives the slot up, the
\* squad may be told of an enemy, SetState or GetSchedule may drop or replace
\* the monster's own, and GetSchedule may ask for another slot, or for a second
\* kind when the first is taken.  The conditions that make it ask may be older
\* than the loss of its enemy.  Grunts of a squad that take cover may toss a
\* grenade first.
ChangeSchedule(m) ==
    /\ m \in present \cap started \cap alive
    /\ \E ideal \in IdealEnemies(m), own \in Enemies \cup {NULL} :
           LET held == Vacated(m)
               enemy == [ideal EXCEPT ![m] = own]
           IN  /\ m_hEnemy' = enemy
               /\ \/ Hold(held) /\ tossing' = tossing \ {m}
                  \/ \E desired \in {EngageSlots, GrenadeSlots} :
                        /\ CanOccupy(m, desired, held, enemy)
                        /\ Hold(Occupied(m, desired, held, enemy))
                        /\ tossing' = tossing \ {m}
                  \/ /\ InSquad(m)
                     /\ CanOccupy(m, GrenadeSlots, held, enemy)
                     /\ Hold(Occupied(m, GrenadeSlots, held, enemy))
                     /\ tossing' = tossing \cup {m}
    /\ UNCHANGED <<netname, life, squad, disturbed>>

\* The last task of slGruntTossGrenadeCover asks for cover again, without a
\* ScheduleChange.
SetScheduleTask(m) ==
    LET held == [mask |-> m_afSquadSlots, mine |-> m_iMySlot]
    IN  /\ m \in tossing
        /\ \/ Hold(held) /\ tossing' = tossing \ {m}
           \/ /\ InSquad(m)
              /\ CanOccupy(m, GrenadeSlots, held, m_hEnemy)
              /\ Hold(Occupied(m, GrenadeSlots, held, m_hEnemy))
              /\ UNCHANGED tossing
        /\ UNCHANGED <<netname, life, squad, m_hEnemy, disturbed>>

-----------------------------------------------------------------------------
(* Death. *)

\* Mutant: the members keep their dead leader.
RemoveLeaderOnly(m) ==
    /\ m_hSquadLeader' = [m_hSquadLeader EXCEPT ![m] = NULL]
    /\ m_hSquadMember' = [m_hSquadMember EXCEPT ![m] = {}]

\* SquadRemove, called of m's leader.  A leader that dies frees everyone it
\* lists.  When a member dies, its entry stays: what the loop looks for in the
\* list of the leader's own leader is not the member but the leader.
SquadRemove(m) ==
    LET this == m_hSquadLeader[m]
        top == IF InSquad(this) THEN m_hSquadLeader[this] ELSE this
    IN  IF m = top
        THEN /\ m_hSquadLeader' = [r \in Monsters |->
                    IF r \in m_hSquadMember[this] \cup {m} THEN NULL
                    ELSE m_hSquadLeader[r]]
             /\ m_hSquadMember' = [m_hSquadMember EXCEPT ![this] = {}]
        ELSE /\ m_hSquadLeader' = [m_hSquadLeader EXCEPT ![m] = NULL]
             /\ m_hSquadMember' = [m_hSquadMember EXCEPT ![top] = @ \ {this}]

\* CSquadMonster::Killed.  The dying and the dead are killed again when they
\* take more damage.
Killed(m) ==
    /\ m \in present
    /\ Hold(Vacated(m))
    /\ IF InSquad(m) THEN SquadRemove(m) ELSE UNCHANGED squad
    /\ alive' = alive \ {m}
    /\ tossing' = tossing \ {m}
    /\ UNCHANGED <<netname, present, started, m_hEnemy, disturbed>>

\* A dead monster's schedules change as well.
DeadScheduleChange(m) ==
    /\ m \in (present \cap started) \ alive
    /\ Hold(Vacated(m))
    /\ UNCHANGED <<netname, life, squad, m_hEnemy, tossing, disturbed>>

\* The entity is removed: a corpse that has faded or been gibbed, or the target
\* of a killtarget, which is not killed first.
Remove(m) ==
    /\ m \in present
    /\ present' = present \ {m}
    /\ alive' = alive \ {m}
    /\ started' = started \cup {m}
    /\ m_hSquadLeader' = [r \in Monsters |->
           IF r = m \/ m_hSquadLeader[r] = m THEN NULL ELSE m_hSquadLeader[r]]
    /\ m_hSquadMember' = [r \in Monsters |->
           IF r = m THEN {} ELSE m_hSquadMember[r] \ {m}]
    /\ m_afSquadSlots' = [m_afSquadSlots EXCEPT ![m] = {}]
    /\ m_iMySlot' = [m_iMySlot EXCEPT ![m] = bits_NO_SLOT]
    /\ m_hEnemy' = [m_hEnemy EXCEPT ![m] = NULL]
    /\ tossing' = tossing \ {m}
    /\ disturbed' = IF InSquad(m) THEN disturbed \cup {m_hSquadLeader[m]}
                    ELSE disturbed
    /\ UNCHANGED netname

-----------------------------------------------------------------------------
Next ==
    \E m \in Monsters :
        \/ Spawn(m) \/ StartMonster(m)
        \/ ChangeSchedule(m) \/ SetScheduleTask(m)
        \/ GetEnemy(m)
        \/ Killed(m) \/ DeadScheduleChange(m) \/ Remove(m)

Spec == Init /\ [][Next]_vars

-----------------------------------------------------------------------------
TypeOK ==
    /\ netname \in [Monsters -> {"none", "member", "leader"}]
    /\ present \subseteq Monsters /\ started \subseteq Monsters
    /\ alive \subseteq present
    /\ m_hSquadLeader \in [Monsters -> Monsters \cup {NULL}]
    /\ m_hSquadMember \in [Monsters -> SUBSET Monsters]
    /\ m_afSquadSlots \in [Monsters -> SUBSET Slots]
    /\ m_iMySlot \in [Monsters ->
                         Slots \cup {bits_NO_SLOT, bits_SLOT_SQUAD_SPLIT}]
    /\ m_hEnemy \in [Monsters -> Enemies \cup {NULL}]
    /\ tossing \subseteq alive
    /\ disturbed \subseteq Monsters

\* A living leader leads itself and lists its living followers, and the living
\* that a leader lists follow it: no death, removal or recruiting leaves a
\* monster with a living leader that does not know it, or a living monster in
\* the list of a leader it does not follow.
SquadsAgree ==
    \A m, n \in Monsters :
        /\ m_hSquadLeader[m] = n /\ n \in alive => m_hSquadLeader[n] = n
        /\ m_hSquadLeader[m] = n /\ m # n /\ {m, n} \subseteq alive =>
               m \in m_hSquadMember[n]
        /\ m \in m_hSquadMember[n] /\ m \in alive => m_hSquadLeader[m] = n

\* No two monsters of a squad hold the same slot, whoever dies or joins.
\* (Unless one brought a slot along from a squad whose leader died.)
OneHolder ==
    \A m, n \in Monsters :
        /\ m # n
        /\ m_hSquadLeader[m] = m_hSquadLeader[n]
        /\ InSquad(m) /\ m_hSquadLeader[m] \notin disturbed
        /\ m_iMySlot[m] \in Slots
        => m_iMySlot[m] # m_iMySlot[n]

\* The death or the removal of a leader leaves no living monster behind that
\* still follows it, also when it lists monsters that have joined others since.
LeaderDeathDisbands ==
    [][\A m \in Monsters :
          m_hSquadLeader[m] = m /\ m \in alive /\ m \notin alive' =>
              \A n \in alive' : m_hSquadLeader'[n] # m]_vars
=============================================================================
