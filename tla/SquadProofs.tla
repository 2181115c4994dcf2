----------------------------- MODULE SquadProofs -----------------------------
(***************************************************************************)
(* Squads of any number of monsters with any set of slots: leaders and     *)
(* followers agree, and no slot has two holders.                           *)
(***************************************************************************)
EXTENDS Squad, WellFoundedInduction, TLAPS

\* The slots are tried from the lowest bit up: there is a lowest.
LEMMA LeastSlot ==
    ASSUME NEW T, T \subseteq Nat, T # {}
    PROVE  \E x \in T : \A y \in T : x <= y
<1> DEFINE Less == OpToRel(<, Nat)
<1>1. \A x, y \in Nat : y < x => <<y, x>> \in Less
  BY Zenon DEF OpToRel
<1> HIDE DEF Less
<1>2. IsWellFoundedOn(Less, Nat)
  BY NatLessThanWellFounded, Zenon DEF Less
<1>3. PICK x \in T : \A y \in T : ~ (<<y, x>> \in Less)
  BY <1>2, WFMin, Zenon
<1>4. ASSUME NEW y \in T PROVE x <= y
  <2>1. x \in Nat /\ y \in Nat
    OBVIOUS
  <2>2. ~ (y < x)
    BY <1>1, <1>3, <2>1, Zenon
  <2> QED
    BY <2>1, <2>2
<1> QED
  BY <1>4

-----------------------------------------------------------------------------
(* The slots of the squads, apart from how the squads come about.            *)

Masks == [Monsters -> SUBSET Slots]
Mine == [Monsters -> Slots \cup {bits_NO_SLOT, bits_SLOT_SQUAD_SPLIT}]

\* Every slot held in an undisturbed squad is marked in the leader's mask, and
\* held once.
SlotsKept(mask, mine, leader, except) ==
    /\ mask \in Masks /\ mine \in Mine
    /\ \A m \in Monsters :
          leader[m] # NULL /\ leader[m] \notin except /\ mine[m] \in Slots =>
              mine[m] \in mask[leader[m]]
    /\ \A m, n \in Monsters :
          /\ m # n
          /\ leader[m] = leader[n] /\ leader[m] # NULL
          /\ leader[m] \notin except /\ mine[m] \in Slots
          => mine[m] # mine[n]

\* A slot is given up: nobody else holds it, so the mask may forget it.
LEMMA GiveUp ==
    ASSUME NEW mask, NEW mine, NEW except,
           NEW leader \in [Monsters -> Monsters \cup {NULL}],
           SlotsKept(mask, mine, leader, except),
           NEW m \in Monsters, leader[m] # NULL
    PROVE  SlotsKept([mask EXCEPT ![leader[m]] = @ \ {mine[m]}],
                     [mine EXCEPT ![m] = bits_NO_SLOT], leader, except)
<1> DEFINE mask2 == [mask EXCEPT ![leader[m]] = @ \ {mine[m]}]
           mine2 == [mine EXCEPT ![m] = bits_NO_SLOT]
<1>1. mask \in Masks /\ mine \in Mine
  BY DEF SlotsKept
<1>2. mask2 \in Masks /\ mine2 \in Mine
  BY <1>1 DEF Masks, Mine
<1>3. /\ \A r \in Monsters : mine2[r] = IF r = m THEN bits_NO_SLOT ELSE mine[r]
      /\ \A n \in Monsters : mask2[n] = IF n = leader[m] THEN mask[n] \ {mine[m]}
                                        ELSE mask[n]
  BY <1>1 DEF Masks, Mine
<1> HIDE DEF mask2, mine2
<1>4. bits_NO_SLOT \notin Slots
  BY SquadAssumption
<1>5. ASSUME NEW r \in Monsters, leader[r] # NULL, leader[r] \notin except,
             mine2[r] \in Slots
      PROVE  mine2[r] \in mask2[leader[r]]
  <2>1. r # m /\ mine2[r] = mine[r]
    BY <1>3, <1>4, <1>5
  <2>2. mine[r] \in mask[leader[r]]
    BY <1>5, <2>1 DEF SlotsKept
  <2>3. leader[r] = leader[m] => mine[r] # mine[m]
    BY <1>5, <2>1 DEF SlotsKept
  <2> QED
    BY <1>3, <1>5, <2>1, <2>2, <2>3
<1>6. ASSUME NEW r \in Monsters, NEW n \in Monsters, r # n,
             leader[r] = leader[n], leader[r] # NULL, leader[r] \notin except,
             mine2[r] \in Slots
      PROVE  mine2[r] # mine2[n]
  <2>1. r # m /\ mine2[r] = mine[r]
    BY <1>3, <1>4, <1>6
  <2>2. mine[r] # mine[n]
    BY <1>6, <2>1 DEF SlotsKept
  <2> QED
    BY <1>3, <1>4, <1>6, <2>1, <2>2
<1> QED
  BY <1>2, <1>5, <1>6 DEF SlotsKept, mask2, mine2

\* A slot that is free in the mask is taken, whatever was held before.
LEMMA Take ==
    ASSUME NEW mask, NEW mine, NEW except,
           NEW leader \in [Monsters -> Monsters \cup {NULL}],
           SlotsKept(mask, mine, leader, except),
           NEW m \in Monsters, leader[m] # NULL,
           NEW slot \in Slots, slot \notin mask[leader[m]]
    PROVE  SlotsKept([mask EXCEPT ![leader[m]] = @ \cup {slot}],
                     [mine EXCEPT ![m] = slot], leader, except)
<1> DEFINE mask2 == [mask EXCEPT ![leader[m]] = @ \cup {slot}]
           mine2 == [mine EXCEPT ![m] = slot]
<1>1. mask \in Masks /\ mine \in Mine
  BY DEF SlotsKept
<1>2. mask2 \in Masks /\ mine2 \in Mine
  BY <1>1 DEF Masks, Mine
<1>3. /\ \A r \in Monsters : mine2[r] = IF r = m THEN slot ELSE mine[r]
      /\ \A n \in Monsters : mask2[n] = IF n = leader[m] THEN mask[n] \cup {slot}
                                        ELSE mask[n]
  BY <1>1 DEF Masks, Mine
<1> HIDE DEF mask2, mine2
<1>4. \A r \in Monsters \ {m} :
         leader[r] = leader[m] /\ leader[m] \notin except => mine[r] # slot
  BY DEF SlotsKept
<1>5. ASSUME NEW r \in Monsters, leader[r] # NULL, leader[r] \notin except,
             mine2[r] \in Slots
      PROVE  mine2[r] \in mask2[leader[r]]
  <2>1. CASE r = m
    BY <1>3, <1>5, <2>1
  <2>2. CASE r # m
    <3>1. mine[r] \in mask[leader[r]]
      BY <1>3, <1>5, <2>2 DEF SlotsKept
    <3> QED
      BY <1>3, <1>5, <2>2, <3>1
  <2> QED
    BY <2>1, <2>2
<1>6. ASSUME NEW r \in Monsters, NEW n \in Monsters, r # n,
             leader[r] = leader[n], leader[r] # NULL, leader[r] \notin except,
             mine2[r] \in Slots
      PROVE  mine2[r] # mine2[n]
  <2>1. CASE r = m
    BY <1>3, <1>4, <1>6, <2>1
  <2>2. CASE n = m
    BY <1>3, <1>4, <1>6, <2>2
  <2>3. CASE r # m /\ n # m
    BY <1>3, <1>6, <2>3 DEF SlotsKept
  <2> QED
    BY <2>1, <2>2, <2>3
<1> QED
  BY <1>2, <1>5, <1>6 DEF SlotsKept, mask2, mine2

\* With the squad split, m_iMySlot is a number that is no slot.
LEMMA TakeSplit ==
    ASSUME NEW mask, NEW mine, NEW except,
           NEW leader \in [Monsters -> Monsters \cup {NULL}],
           SlotsKept(mask, mine, leader, except),
           NEW m \in Monsters
    PROVE  SlotsKept(mask, [mine EXCEPT ![m] = bits_SLOT_SQUAD_SPLIT], leader,
                     except)
<1> DEFINE mine2 == [mine EXCEPT ![m] = bits_SLOT_SQUAD_SPLIT]
<1>1. mask \in Masks /\ mine \in Mine
  BY DEF SlotsKept
<1>2. mine2 \in Mine
  BY <1>1 DEF Mine
<1>3. \A r \in Monsters :
         mine2[r] = IF r = m THEN bits_SLOT_SQUAD_SPLIT ELSE mine[r]
  BY <1>1 DEF Mine
<1>4. bits_SLOT_SQUAD_SPLIT \notin Slots
  BY SquadAssumption
<1> HIDE DEF mine2
<1> QED
  BY <1>1, <1>2, <1>3, <1>4 DEF SlotsKept, mine2

\* Monsters that leave their squads disturb nobody.
LEMMA Leave ==
    ASSUME NEW mask, NEW mine, NEW except, NEW leader, NEW leader2,
           SlotsKept(mask, mine, leader, except),
           \A r \in Monsters : leader2[r] \in {leader[r], NULL}
    PROVE  SlotsKept(mask, mine, leader2, except)
  BY DEF SlotsKept
-----------------------------------------------------------------------------
(* The slot operators of Squad.                                              *)

HeldSlots == [mask : Masks, mine : Mine]
Kept(held) == SlotsKept(held.mask, held.mine, m_hSquadLeader, disturbed)

Current == [mask |-> m_afSquadSlots, mine |-> m_iMySlot]

\* VacateSlot keeps the slots apart.
LEMMA VacatedKept ==
    ASSUME TypeOK, Kept(Current), NEW m \in Monsters
    PROVE  Vacated(m) \in HeldSlots /\ Kept(Vacated(m))
<1>1. SlotsKept(m_afSquadSlots, m_iMySlot, m_hSquadLeader, disturbed)
  BY DEF Kept, Current
<1>2. m_hSquadLeader \in [Monsters -> Monsters \cup {NULL}]
  BY DEF TypeOK
<1>3. CASE InSquad(m) /\ m_iMySlot[m] # bits_NO_SLOT
  <2> DEFINE mask == [m_afSquadSlots EXCEPT ![m_hSquadLeader[m]] = @ \ {m_iMySlot[m]}]
             mine == [m_iMySlot EXCEPT ![m] = bits_NO_SLOT]
  <2>1. Vacated(m) = [mask |-> mask, mine |-> mine]
    BY <1>3 DEF Vacated
  <2>2. SlotsKept(mask, mine, m_hSquadLeader, disturbed)
    BY <1>1, <1>2, <1>3, GiveUp DEF InSquad
  <2> HIDE DEF mask, mine
  <2>3. mask \in Masks /\ mine \in Mine
    BY <2>2 DEF SlotsKept
  <2> QED
    BY <2>1, <2>2, <2>3 DEF Kept, HeldSlots
<1>4. CASE ~(InSquad(m) /\ m_iMySlot[m] # bits_NO_SLOT)
  <2>1. Vacated(m) = Current
    BY <1>4 DEF Vacated, Current
  <2>2. Current \in HeldSlots
    BY <1>1 DEF SlotsKept, Current, HeldSlots
  <2> QED
    BY <2>1, <2>2
<1> QED
  BY <1>3, <1>4

\* So does OccupySlot, whatever is held before and whatever enemies it compares.
LEMMA OccupiedKept ==
    ASSUME TypeOK, NEW m \in Monsters, NEW desired \in SUBSET Slots, NEW enemy,
           NEW held \in HeldSlots, Kept(held),
           CanOccupy(m, desired, held, enemy)
    PROVE  /\ Occupied(m, desired, held, enemy) \in HeldSlots
           /\ Kept(Occupied(m, desired, held, enemy))
<1>1. SlotsKept(held.mask, held.mine, m_hSquadLeader, disturbed)
  BY DEF Kept
<1>2. m_hSquadLeader \in [Monsters -> Monsters \cup {NULL}]
  BY DEF TypeOK
<1>3. CASE ~InSquad(m)
  BY <1>3 DEF Occupied
<1>4. CASE InSquad(m) /\ SquadEnemySplit(m, enemy)
  <2> DEFINE mine == [held.mine EXCEPT ![m] = bits_SLOT_SQUAD_SPLIT]
  <2>1. Occupied(m, desired, held, enemy) = [mask |-> held.mask, mine |-> mine]
    BY <1>4 DEF Occupied, HeldSlots
  <2>2. SlotsKept(held.mask, mine, m_hSquadLeader, disturbed)
    BY <1>1, <1>2, TakeSplit
  <2> HIDE DEF mine
  <2>3. held.mask \in Masks /\ mine \in Mine
    BY <2>2 DEF SlotsKept
  <2> QED
    BY <2>1, <2>2, <2>3 DEF Kept, HeldSlots
<1>5. CASE InSquad(m) /\ ~SquadEnemySplit(m, enemy)
  <2> DEFINE free == Available(m, desired, held)
             slot == CHOOSE s \in free : \A t \in free : s <= t
             mask == [held.mask EXCEPT ![m_hSquadLeader[m]] = @ \cup {slot}]
             mine == [held.mine EXCEPT ![m] = slot]
  <2>1. free # {} /\ free \subseteq Slots
    BY <1>5 DEF CanOccupy, Available
  <2>2. \E s \in free : \A t \in free : s <= t
    <3> HIDE DEF free
    <3> QED
      BY <2>1, LeastSlot, SquadAssumption
  <2>3. slot \in free
    <3> HIDE DEF free
    <3> QED
      BY <2>2
  <2>4. slot \in Slots /\ slot \notin held.mask[m_hSquadLeader[m]]
    BY <2>3 DEF Available
  <2>5. Occupied(m, desired, held, enemy) = [mask |-> mask, mine |-> mine]
    BY <1>5 DEF Occupied, HeldSlots
  <2>6. SlotsKept(mask, mine, m_hSquadLeader, disturbed)
    <3> HIDE DEF slot
    <3> QED
      BY <1>1, <1>2, <1>5, <2>4, Take DEF InSquad
  <2> HIDE DEF mask, mine
  <2>7. mask \in Masks /\ mine \in Mine
    BY <2>6 DEF SlotsKept
  <2> QED
    BY <2>5, <2>6, <2>7 DEF Kept, HeldSlots
<1> QED
  BY <1>3, <1>4, <1>5
-----------------------------------------------------------------------------
(* The invariant.                                                            *)

\* Leaders, followers and the listed are monsters that exist.
References ==
    \A m, n \in Monsters :
        /\ m_hSquadLeader[m] = n => {m, n} \subseteq present
        /\ m \in m_hSquadMember[n] => m \in present

SquadInv ==
    /\ TypeOK
    /\ References
    /\ SquadsAgree
    /\ SlotsKept(m_afSquadSlots, m_iMySlot, m_hSquadLeader, disturbed)

\* What an action that only moves slots and enemies has to show.
LEMMA SlotsStep ==
    ASSUME SquadInv, NEW held \in HeldSlots, Kept(held), Hold(held),
           UNCHANGED <<netname, life, squad, disturbed>>,
           m_hEnemy' \in [Monsters -> Enemies \cup {NULL}],
           tossing' \subseteq alive
    PROVE  SquadInv'
<1>1. TypeOK'
  BY DEF SquadInv, TypeOK, HeldSlots, Masks, Mine, Hold, life, squad
<1>2. References' /\ SquadsAgree'
  BY DEF SquadInv, References, SquadsAgree, life, squad
<1>3. SlotsKept(m_afSquadSlots, m_iMySlot, m_hSquadLeader, disturbed)'
  BY DEF Kept, Hold, squad, SlotsKept
<1> QED
  BY <1>1, <1>2, <1>3 DEF SquadInv

\* A change of schedule: VacateSlot, then perhaps OccupySlot.
LEMMA ChangeScheduleKeeps ==
    ASSUME SquadInv, NEW m \in Monsters, ChangeSchedule(m)
    PROVE  SquadInv'
<1>1. TypeOK /\ Kept(Current)
  BY DEF SquadInv, Kept, Current
<1>2. PICK ideal \in IdealEnemies(m), own \in Enemies \cup {NULL} :
          LET held == Vacated(m)
              enemy == [ideal EXCEPT ![m] = own]
          IN  /\ m_hEnemy' = enemy
              /\ \/ Hold(held) /\ tossing' = tossing \ {m}
                 \/ \E desired \in {EngageSlots, GrenadeSlots} :
                       /\ CanOccupy(m, desired, held, enemy)
                       /\ Hold(Occupied(m, desired, held, enemy))
                       /\ tossing' = tossing \ {m}
                 \/ /\ InSquad(m)
                    /\ CanOccupy(m, GrenadeSlots, held, enemy)
                    /\ Hold(Occupied(m, GrenadeSlots, held, enemy))
                    /\ tossing' = tossing \cup {m}
  BY DEF ChangeSchedule
<1> DEFINE held == Vacated(m)
           enemy == [ideal EXCEPT ![m] = own]
<1>3. held \in HeldSlots /\ Kept(held)
  BY <1>1, VacatedKept
<1>4. ideal \in [Monsters -> Enemies \cup {NULL}]
  BY <1>1 DEF IdealEnemies, TypeOK
<1>5. m_hEnemy' \in [Monsters -> Enemies \cup {NULL}]
  BY <1>2, <1>4
<1>6. /\ UNCHANGED <<netname, life, squad, disturbed>>
      /\ tossing' \subseteq alive
  BY <1>1, <1>2 DEF ChangeSchedule, TypeOK
<1> HIDE DEF held, enemy
<1>7. CASE Hold(held)
  BY <1>3, <1>5, <1>6, <1>7, SlotsStep
<1>8. ASSUME NEW desired \in {EngageSlots, GrenadeSlots},
             CanOccupy(m, desired, held, enemy),
             Hold(Occupied(m, desired, held, enemy))
      PROVE  SquadInv'
  <2>1. desired \in SUBSET Slots
    BY DEF Slots
  <2>2. /\ Occupied(m, desired, held, enemy) \in HeldSlots
        /\ Kept(Occupied(m, desired, held, enemy))
    BY <1>1, <1>3, <1>8, <2>1, OccupiedKept
  <2> QED
    BY <1>5, <1>6, <1>8, <2>2, SlotsStep
<1> QED
  BY <1>2, <1>7, <1>8 DEF held, enemy

\* OccupySlot in the middle of a schedule.
LEMMA SetScheduleTaskKeeps ==
    ASSUME SquadInv, NEW m \in Monsters, SetScheduleTask(m)
    PROVE  SquadInv'
<1>1. TypeOK /\ Kept(Current)
  BY DEF SquadInv, Kept, Current
<1>2. Current \in HeldSlots
  BY <1>1 DEF Kept, Current, SlotsKept, HeldSlots
<1>3. /\ UNCHANGED <<netname, life, squad, disturbed>>
      /\ m_hEnemy' \in [Monsters -> Enemies \cup {NULL}]
      /\ tossing' \subseteq alive
  BY <1>1 DEF SetScheduleTask, TypeOK
<1>4. CASE Hold(Current)
  BY <1>1, <1>2, <1>3, <1>4, SlotsStep
<1>5. CASE /\ CanOccupy(m, GrenadeSlots, Current, m_hEnemy)
           /\ Hold(Occupied(m, GrenadeSlots, Current, m_hEnemy))
  <2>1. GrenadeSlots \in SUBSET Slots
    BY DEF Slots
  <2>2. /\ Occupied(m, GrenadeSlots, Current, m_hEnemy) \in HeldSlots
        /\ Kept(Occupied(m, GrenadeSlots, Current, m_hEnemy))
    BY <1>1, <1>2, <1>5, <2>1, OccupiedKept
  <2> QED
    BY <1>3, <1>5, <2>2, SlotsStep
<1> QED
  BY <1>4, <1>5 DEF SetScheduleTask, Current
\* SquadRecruit takes monsters that have no squad, and is disturbed by those
\* that hold a slot.
LEMMA StartMonsterKeeps ==
    ASSUME SquadInv, NEW m \in Monsters, StartMonster(m)
    PROVE  SquadInv'
<1>1. TypeOK /\ m \in present
  BY DEF SquadInv, StartMonster
<1>2. CASE UNCHANGED <<squad, disturbed>>
  <2>1. TypeOK'
    BY <1>1, <1>2 DEF StartMonster, TypeOK, slots, squad
  <2>2. References' /\ SquadsAgree'
    BY <1>2 DEF SquadInv, References, SquadsAgree, StartMonster, squad
  <2>3. SlotsKept(m_afSquadSlots, m_iMySlot, m_hSquadLeader, disturbed)'
    BY <1>2 DEF SquadInv, StartMonster, squad, slots
  <2> QED
    BY <2>1, <2>2, <2>3 DEF SquadInv
<1>3. ASSUME ~InSquad(m), NEW new \in Recruits(m), new # {},
             m_hSquadLeader' = [r \in Monsters |->
                 IF r \in new \cup {m} THEN m ELSE m_hSquadLeader[r]],
             m_hSquadMember' = [m_hSquadMember EXCEPT ![m] = new],
             disturbed' = IF \A r \in new \cup {m} : m_iMySlot[r] = bits_NO_SLOT
                          THEN disturbed ELSE disturbed \cup {m}
      PROVE  SquadInv'
  <2>1. /\ new \subseteq present \ {m}
        /\ \A r \in new : m_hSquadLeader[r] = NULL
    BY <1>1, <1>3 DEF Recruits, Recruitable, InSquad
  <2>2. m_hSquadLeader[m] = NULL
    BY <1>3 DEF InSquad
  <2>3. NULL \notin Monsters
    BY SquadAssumption
  <2>4. /\ UNCHANGED <<netname, present, alive, slots, m_hEnemy, tossing>>
        /\ started' = started \cup {m}
    BY DEF StartMonster
  <2>5. TypeOK'
    BY <1>1, <1>3, <2>1, <2>4 DEF TypeOK, slots
  <2>6. /\ \A r \in Monsters : m_hSquadLeader'[r] =
               IF r \in new \cup {m} THEN m ELSE m_hSquadLeader[r]
        /\ \A n \in Monsters : m_hSquadMember'[n] =
               IF n = m THEN new ELSE m_hSquadMember[n]
    BY <1>1, <1>3 DEF TypeOK
  <2>7. References'
    BY <1>1, <2>1, <2>4, <2>6 DEF SquadInv, References
  <2>8. SquadsAgree'
    BY <2>1, <2>2, <2>3, <2>4, <2>6 DEF SquadInv, SquadsAgree
  <2>9. SlotsKept(m_afSquadSlots, m_iMySlot, m_hSquadLeader, disturbed)'
    <3>1. SlotsKept(m_afSquadSlots, m_iMySlot, m_hSquadLeader, disturbed)
      BY DEF SquadInv
    <3>2. m_afSquadSlots' = m_afSquadSlots /\ m_iMySlot' = m_iMySlot
      BY <2>4 DEF slots
    <3>3. bits_NO_SLOT \notin Slots
      BY SquadAssumption
    <3>4. /\ disturbed \subseteq disturbed'
          /\ m \notin disturbed' =>
                 \A r \in new \cup {m} : m_iMySlot[r] \notin Slots
      BY <1>3, <3>3
    <3> QED
      BY <2>6, <3>1, <3>2, <3>4 DEF SlotsKept
  <2> QED
    BY <2>5, <2>7, <2>8, <2>9 DEF SquadInv
<1> QED
  BY <1>2, <1>3 DEF StartMonster, SquadRecruit

\* SquadRemove only makes monsters leave their squads.
LEMMA SquadRemoveLeaves ==
    ASSUME TypeOK, NEW m \in Monsters, InSquad(m), SquadRemove(m)
    PROVE  /\ m_hSquadLeader' \in [Monsters -> Monsters \cup {NULL}]
           /\ m_hSquadMember' \in [Monsters -> SUBSET Monsters]
           /\ \A r \in Monsters : m_hSquadLeader'[r] \in {m_hSquadLeader[r], NULL}
           /\ \A n \in Monsters : m_hSquadMember'[n] \subseteq m_hSquadMember[n]
           /\ m_hSquadLeader'[m] = NULL
  BY DEF TypeOK, InSquad, SquadRemove

\* Killed vacates the slot, then SquadRemove frees the member or the squad.
LEMMA KilledKeeps ==
    ASSUME SquadInv, NEW m \in Monsters, Killed(m)
    PROVE  SquadInv'
<1>1. TypeOK /\ Kept(Current)
  BY DEF SquadInv, Kept, Current
<1>2. Vacated(m) \in HeldSlots /\ Kept(Vacated(m))
  BY <1>1, VacatedKept
<1>3. NULL \notin Monsters
  BY SquadAssumption
<1>4. /\ m_hSquadLeader' \in [Monsters -> Monsters \cup {NULL}]
      /\ m_hSquadMember' \in [Monsters -> SUBSET Monsters]
      /\ \A r \in Monsters : m_hSquadLeader'[r] \in {m_hSquadLeader[r], NULL}
      /\ \A n \in Monsters : m_hSquadMember'[n] \subseteq m_hSquadMember[n]
      /\ m_hSquadLeader'[m] = NULL
  <2>1. CASE InSquad(m)
    BY <1>1, <2>1, SquadRemoveLeaves DEF Killed
  <2>2. CASE ~InSquad(m)
    BY <1>1, <2>2 DEF Killed, TypeOK, InSquad, squad
  <2> QED
    BY <2>1, <2>2
<1>5. /\ UNCHANGED <<netname, present, started, m_hEnemy, disturbed>>
      /\ alive' = alive \ {m} /\ tossing' = tossing \ {m}
      /\ m_afSquadSlots' = Vacated(m).mask /\ m_iMySlot' = Vacated(m).mine
  BY DEF Killed, Hold
<1>6. TypeOK'
  BY <1>1, <1>2, <1>4, <1>5 DEF TypeOK, HeldSlots, Masks, Mine
<1>7. References'
  BY <1>3, <1>4, <1>5 DEF SquadInv, References
<1>8. SquadsAgree'
  <2>1. CASE InSquad(m)
    <3> DEFINE this == m_hSquadLeader[m]
               top == IF InSquad(this) THEN m_hSquadLeader[this] ELSE this
    <3>1. this \in Monsters /\ top \in Monsters
      BY <1>1, <2>1 DEF TypeOK, InSquad
    <3>2. CASE m = top
      <4>1. /\ \A r \in Monsters : m_hSquadLeader'[r] =
                   IF r \in m_hSquadMember[this] \cup {m} THEN NULL
                   ELSE m_hSquadLeader[r]
            /\ \A n \in Monsters : m_hSquadMember'[n] =
                   IF n = this THEN {} ELSE m_hSquadMember[n]
        BY <1>1, <2>1, <3>1, <3>2 DEF Killed, SquadRemove, TypeOK
      <4>2. m_hSquadLeader[this] = m \/ this = m
        BY <3>2
      <4> HIDE DEF this, top
      <4>3. m_hSquadLeader[m] = this
        BY DEF this
      <4>4. ASSUME NEW n \in alive', m_hSquadLeader[n] = n
            PROVE  m_hSquadLeader'[n] = n
        <5>1. n \in Monsters /\ n # m /\ n \in alive
          BY <1>1, <1>5 DEF TypeOK
        <5>2. n \in m_hSquadMember[this] => n = this
          BY <3>1, <4>4, <5>1 DEF SquadInv, SquadsAgree
        <5>3. n # this
          BY <4>2, <4>3, <4>4, <5>1
        <5> QED
          BY <4>1, <4>4, <5>1, <5>2, <5>3
      <4>5. ASSUME NEW r \in Monsters, NEW n \in Monsters
            PROVE  /\ m_hSquadLeader'[r] = n /\ n \in alive' =>
                          m_hSquadLeader'[n] = n
                   /\ r \in m_hSquadMember'[n] /\ r \in alive' =>
                          m_hSquadLeader'[r] = n
        <5>1. m_hSquadLeader'[r] = n => m_hSquadLeader[r] = n
          BY <1>3, <1>4
        <5>2. r \in m_hSquadMember'[n] => n # this /\ r \in m_hSquadMember[n]
          BY <4>1
        <5>3. n # this /\ r \in m_hSquadMember[n] /\ r \in alive' =>
                  r \notin m_hSquadMember[this] /\ r # m /\ m_hSquadLeader[r] = n
          BY <1>5, <3>1 DEF SquadInv, SquadsAgree
        <5> QED
          BY <1>5, <4>1, <4>4, <5>1, <5>2, <5>3 DEF SquadInv, SquadsAgree
      <4>6. ASSUME NEW r \in Monsters, NEW n \in Monsters,
                   m_hSquadLeader'[r] = n, r # n, {r, n} \subseteq alive'
            PROVE  r \in m_hSquadMember'[n]
        <5>1. m_hSquadLeader[r] = n /\ r \in m_hSquadMember[n]
          BY <1>3, <1>4, <1>5, <4>6 DEF SquadInv, SquadsAgree
        <5>2. n # this
          BY <1>3, <4>1, <4>6, <5>1
        <5> QED
          BY <4>1, <5>1, <5>2
      <4> QED
        BY <4>5, <4>6 DEF SquadsAgree
    <3>3. CASE m # top
      <4>1. /\ \A r \in Monsters : m_hSquadLeader'[r] =
                   IF r = m THEN NULL ELSE m_hSquadLeader[r]
            /\ \A n \in Monsters : m_hSquadMember'[n] =
                   IF n = top THEN m_hSquadMember[n] \ {this}
                   ELSE m_hSquadMember[n]
        BY <1>1, <2>1, <3>1, <3>3 DEF Killed, SquadRemove, TypeOK
      <4>2. this \in alive => top = this
        BY <2>1, <3>1 DEF SquadInv, SquadsAgree, InSquad
      <4> HIDE DEF this, top
      <4>3. m_hSquadLeader[m] = this
        BY DEF this
      <4>4. ASSUME NEW r \in Monsters, NEW n \in Monsters,
                   m_hSquadLeader'[r] = n, n \in alive'
            PROVE  m_hSquadLeader'[n] = n
        BY <1>3, <1>5, <4>1, <4>4 DEF SquadInv, SquadsAgree
      <4>5. ASSUME NEW r \in Monsters, NEW n \in Monsters,
                   m_hSquadLeader'[r] = n, r # n, {r, n} \subseteq alive'
            PROVE  r \in m_hSquadMember'[n]
        <5>1. m_hSquadLeader[r] = n /\ r \in m_hSquadMember[n]
          BY <1>3, <1>4, <1>5, <4>5 DEF SquadInv, SquadsAgree
        <5>2. CASE n = top /\ r = this
          <6>1. top = this
            BY <1>5, <4>2, <4>5, <5>2
          <6> QED
            BY <4>5, <5>2, <6>1
        <5> QED
          BY <4>1, <5>1, <5>2
      <4>6. ASSUME NEW r \in Monsters, NEW n \in Monsters,
                   r \in m_hSquadMember'[n], r \in alive'
            PROVE  m_hSquadLeader'[r] = n
        BY <1>4, <1>5, <4>1, <4>6 DEF SquadInv, SquadsAgree
      <4> QED
        BY <4>4, <4>5, <4>6 DEF SquadsAgree
    <3> QED
      BY <3>2, <3>3
  <2>2. CASE ~InSquad(m)
    BY <1>5, <2>2 DEF Killed, squad, SquadInv, SquadsAgree
  <2> QED
    BY <2>1, <2>2
<1>9. SlotsKept(m_afSquadSlots, m_iMySlot, m_hSquadLeader, disturbed)'
  BY <1>2, <1>4, <1>5, Leave DEF Kept
<1> QED
  BY <1>6, <1>7, <1>8, <1>9 DEF SquadInv

\* A removed monster is in nobody's list, and nobody follows it.
LEMMA RemoveKeeps ==
    ASSUME SquadInv, NEW m \in Monsters, Remove(m)
    PROVE  SquadInv'
<1>1. TypeOK
  BY DEF SquadInv
<1>2. NULL \notin Monsters /\ bits_NO_SLOT \notin Slots
  BY SquadAssumption
<1>3. TypeOK'
  BY <1>1 DEF Remove, TypeOK, InSquad
<1>4. /\ \A r \in Monsters : m_hSquadLeader'[r] =
             IF r = m \/ m_hSquadLeader[r] = m THEN NULL ELSE m_hSquadLeader[r]
      /\ \A n \in Monsters : m_hSquadMember'[n] =
             IF n = m THEN {} ELSE m_hSquadMember[n] \ {m}
      /\ \A n \in Monsters : m_afSquadSlots'[n] =
             IF n = m THEN {} ELSE m_afSquadSlots[n]
      /\ \A r \in Monsters : m_iMySlot'[r] =
             IF r = m THEN bits_NO_SLOT ELSE m_iMySlot[r]
      /\ alive' = alive \ {m} /\ present' = present \ {m}
      /\ disturbed \subseteq disturbed'
  BY <1>1 DEF Remove, TypeOK
<1>5. /\ References'
      /\ SquadsAgree'
  <2>1. ASSUME NEW r \in Monsters, NEW n \in Monsters
        PROVE  /\ m_hSquadLeader'[r] = n =>
                      /\ r # m /\ n # m
                      /\ m_hSquadLeader[r] = n
               /\ r \in m_hSquadMember'[n] <=>
                      r \in m_hSquadMember[n] /\ r # m /\ n # m
    BY <1>2, <1>4, <2>1
  <2>2. References'
    BY <1>4, <2>1 DEF SquadInv, References
  <2>3. \A n \in Monsters \ {m} :
            m_hSquadLeader[n] = n => m_hSquadLeader'[n] = n
    BY <1>4
  <2>4. ASSUME NEW r \in Monsters, NEW n \in Monsters
        PROVE  /\ m_hSquadLeader'[r] = n /\ n \in alive' => m_hSquadLeader'[n] = n
               /\ m_hSquadLeader'[r] = n /\ r # n /\ {r, n} \subseteq alive' =>
                      r \in m_hSquadMember'[n]
    BY <1>4, <2>1, <2>3 DEF SquadInv, SquadsAgree
  <2>5. ASSUME NEW r \in Monsters, NEW n \in Monsters,
               r \in m_hSquadMember'[n], r \in alive'
        PROVE  m_hSquadLeader'[r] = n
    <3>1. r # m /\ n # m /\ m_hSquadLeader[r] = n
      BY <1>4, <2>1, <2>5 DEF SquadInv, SquadsAgree
    <3> QED
      BY <1>4, <3>1
  <2>6. SquadsAgree'
    BY <2>4, <2>5 DEF SquadsAgree
  <2> QED
    BY <2>2, <2>6
<1>6. SlotsKept(m_afSquadSlots, m_iMySlot, m_hSquadLeader, disturbed)'
  <2>1. m_afSquadSlots' \in Masks /\ m_iMySlot' \in Mine
    BY <1>3 DEF TypeOK, Masks, Mine
  <2>2. SlotsKept(m_afSquadSlots, m_iMySlot, m_hSquadLeader, disturbed)
    BY DEF SquadInv
  <2>3. ASSUME NEW r \in Monsters, m_hSquadLeader'[r] # NULL,
               m_hSquadLeader'[r] \notin disturbed'
        PROVE  /\ r # m /\ m_hSquadLeader[r] = m_hSquadLeader'[r]
               /\ m_hSquadLeader[r] # m /\ m_hSquadLeader[r] # NULL
               /\ m_hSquadLeader[r] \in Monsters
               /\ m_hSquadLeader[r] \notin disturbed
               /\ m_iMySlot'[r] = m_iMySlot[r]
               /\ m_afSquadSlots'[m_hSquadLeader[r]] =
                      m_afSquadSlots[m_hSquadLeader[r]]
    <3>1. m_hSquadLeader[r] \in Monsters \cup {NULL}
      BY <1>1 DEF TypeOK
    <3> QED
      BY <1>4, <2>3, <3>1
  <2>4. ASSUME NEW r \in Monsters, m_hSquadLeader'[r] # NULL,
               m_hSquadLeader'[r] \notin disturbed', m_iMySlot'[r] \in Slots
        PROVE  m_iMySlot'[r] \in m_afSquadSlots'[m_hSquadLeader'[r]]
    BY <2>2, <2>3, <2>4 DEF SlotsKept
  <2>5. ASSUME NEW r \in Monsters, NEW n \in Monsters, r # n,
               m_hSquadLeader'[r] = m_hSquadLeader'[n],
               m_hSquadLeader'[r] # NULL,
               m_hSquadLeader'[r] \notin disturbed', m_iMySlot'[r] \in Slots
        PROVE  m_iMySlot'[r] # m_iMySlot'[n]
    BY <2>2, <2>3, <2>5 DEF SlotsKept
  <2> QED
    BY <2>1, <2>4, <2>5 DEF SlotsKept
<1> QED
  BY <1>3, <1>5, <1>6 DEF SquadInv

\* The invariant holds of every squad that forms.
THEOREM SquadInvariant == Spec => []SquadInv
<1>1. Init => SquadInv
  <2> SUFFICES ASSUME Init PROVE SquadInv
    OBVIOUS
  <2>1. TypeOK
    BY DEF Init, TypeOK
  <2>2. References /\ SquadsAgree
    BY SquadAssumption DEF Init, References, SquadsAgree
  <2>3. SlotsKept(m_afSquadSlots, m_iMySlot, m_hSquadLeader, disturbed)
    BY DEF Init, SlotsKept, Masks, Mine
  <2> QED
    BY <2>1, <2>2, <2>3 DEF SquadInv
<1>2. SquadInv /\ [Next]_vars => SquadInv'
  <2> SUFFICES ASSUME SquadInv, [Next]_vars PROVE SquadInv'
    OBVIOUS
  <2>0. TypeOK /\ Kept(Current)
    BY DEF SquadInv, Kept, Current
  <2>1. ASSUME NEW m \in Monsters, Spawn(m) PROVE SquadInv'
    <3>1. TypeOK'
      BY <2>0, <2>1 DEF Spawn, TypeOK, squad, slots
    <3>2. References'
      BY <2>1 DEF SquadInv, References, Spawn, squad
    <3>3. SquadsAgree'
      BY <2>1 DEF SquadInv, References, SquadsAgree, Spawn, squad
    <3>4. SlotsKept(m_afSquadSlots, m_iMySlot, m_hSquadLeader, disturbed)'
      BY <2>1 DEF SquadInv, Spawn, squad, slots
    <3> QED
      BY <3>1, <3>2, <3>3, <3>4 DEF SquadInv
  <2>2. ASSUME NEW m \in Monsters, StartMonster(m) PROVE SquadInv'
    BY <2>2, StartMonsterKeeps
  <2>3. ASSUME NEW m \in Monsters, ChangeSchedule(m) PROVE SquadInv'
    BY <2>3, ChangeScheduleKeeps
  <2>4. ASSUME NEW m \in Monsters, SetScheduleTask(m) PROVE SquadInv'
    BY <2>4, SetScheduleTaskKeeps
  <2>5. ASSUME NEW m \in Monsters, GetEnemy(m) PROVE SquadInv'
    <3>1. TypeOK'
      BY <2>0, <2>5 DEF GetEnemy, TypeOK, life, squad, slots
    <3>2. References' /\ SquadsAgree'
      BY <2>5 DEF SquadInv, References, SquadsAgree, GetEnemy, life, squad
    <3>3. SlotsKept(m_afSquadSlots, m_iMySlot, m_hSquadLeader, disturbed)'
      BY <2>5 DEF SquadInv, GetEnemy, squad, slots
    <3> QED
      BY <3>1, <3>2, <3>3 DEF SquadInv
  <2>6. ASSUME NEW m \in Monsters, Killed(m) PROVE SquadInv'
    BY <2>6, KilledKeeps
  <2>7. ASSUME NEW m \in Monsters, DeadScheduleChange(m) PROVE SquadInv'
    <3>1. Vacated(m) \in HeldSlots /\ Kept(Vacated(m))
      BY <2>0, <2>7, VacatedKept
    <3>2. /\ UNCHANGED <<netname, life, squad, disturbed>>
          /\ m_hEnemy' \in [Monsters -> Enemies \cup {NULL}]
          /\ tossing' \subseteq alive
      BY <2>0, <2>7 DEF DeadScheduleChange, TypeOK
    <3> QED
      BY <2>7, <3>1, <3>2, SlotsStep DEF DeadScheduleChange
  <2>8. ASSUME NEW m \in Monsters, Remove(m) PROVE SquadInv'
    BY <2>8, RemoveKeeps
  <2>9. CASE UNCHANGED vars
    BY <2>9 DEF vars, life, squad, slots, SquadInv, TypeOK, References,
                SquadsAgree
  <2> QED
    BY <2>1, <2>2, <2>3, <2>4, <2>5, <2>6, <2>7, <2>8, <2>9 DEF Next
<1> QED
  BY <1>1, <1>2, PTL DEF Spec

-----------------------------------------------------------------------------
(* What it is for.                                                           *)

\* Every variable stays in its type, and every slot number in the masks.
THEOREM TypeCorrect == Spec => []TypeOK
<1>1. SquadInv => TypeOK
  BY DEF SquadInv
<1> QED
  BY <1>1, SquadInvariant, PTL

\* Living leaders and living followers know each other, whoever is recruited,
\* dies or is removed.
THEOREM Agreement == Spec => []SquadsAgree
<1>1. SquadInv => SquadsAgree
  BY DEF SquadInv
<1> QED
  BY <1>1, SquadInvariant, PTL

\* OccupySlot never gives a slot of an undisturbed squad to two members.
THEOREM SlotExclusion == Spec => []OneHolder
<1>1. SquadInv => OneHolder
  BY DEF SquadInv, SlotsKept, OneHolder, InSquad
<1> QED
  BY <1>1, SquadInvariant, PTL

\* Killed and the removal of a leader disband its squad.
THEOREM Disbanding == Spec => LeaderDeathDisbands
<1>1. SquadInv /\ SquadInv' /\ [Next]_vars =>
          [\A m \in Monsters :
              m_hSquadLeader[m] = m /\ m \in alive /\ m \notin alive' =>
                  \A n \in alive' : m_hSquadLeader'[n] # m]_vars
  <2> SUFFICES ASSUME SquadInv, SquadInv', Next,
                      NEW m \in Monsters, m_hSquadLeader[m] = m,
                      m \in alive, m \notin alive',
                      NEW n \in alive', m_hSquadLeader'[n] = m
               PROVE  FALSE
    BY DEF vars
  <2>1. TypeOK /\ TypeOK'
    BY DEF SquadInv
  <2>2. n \in Monsters /\ n \in present'
    BY <2>1 DEF TypeOK
  <2>3. m \in present'
    BY <2>2 DEF SquadInv, References
  <2>4. CASE Killed(m)
    <3>1. InSquad(m) /\ SquadRemove(m)
      BY <2>4, SquadAssumption DEF Killed, InSquad
    <3>2. \A r \in Monsters : m_hSquadLeader'[r] =
              IF r \in m_hSquadMember[m] \cup {m} THEN NULL ELSE m_hSquadLeader[r]
      BY <2>1, <3>1 DEF SquadRemove, TypeOK
    <3>3. n # m /\ n \in alive /\ m_hSquadLeader[n] = m
      BY <2>2, <2>4, <3>2, SquadAssumption DEF Killed
    <3>4. n \in m_hSquadMember[m]
      BY <2>2, <3>3 DEF SquadInv, SquadsAgree
    <3> QED
      BY <2>2, <3>2, <3>4, SquadAssumption
  <2>5. ASSUME NEW k \in Monsters, Killed(k), k # m PROVE FALSE
    BY <2>5 DEF Killed
  <2>6. ASSUME NEW k \in Monsters, Remove(k) PROVE FALSE
    BY <2>3, <2>6 DEF Remove
  <2>7. ASSUME NEW k \in Monsters,
               \/ Spawn(k) \/ StartMonster(k) \/ ChangeSchedule(k)
               \/ SetScheduleTask(k) \/ GetEnemy(k) \/ DeadScheduleChange(k)
        PROVE  FALSE
    BY <2>7 DEF Spawn, StartMonster, ChangeSchedule, SetScheduleTask, GetEnemy,
                DeadScheduleChange, life
  <2> QED
    BY <2>4, <2>5, <2>6, <2>7 DEF Next
<1> QED
  BY <1>1, SquadInvariant, PTL DEF Spec, LeaderDeathDisbands
=============================================================================
