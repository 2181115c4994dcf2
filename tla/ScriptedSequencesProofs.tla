---------------------- MODULE ScriptedSequencesProofs ----------------------
(* Proofs, for any number of scripts and monsters and any map: a script and its monster know each other, scripts wait
   for exactly the monsters on their way, and every variable keeps its type. *)
EXTENDS ScriptedSequences, FiniteSetTheorems, TLAPS

LinkTypes ==
  /\ scripts \subseteq Scripts
  /\ m_hTargetEnt \in [Scripts -> Monsters \cup {NULL}]
  /\ think \in [Scripts -> {"none", "CineThink", "SUB_Remove"}]
  /\ m_pCine \in [Monsters -> Scripts \cup {NULL}]
  /\ m_IdealMonsterState \in [Monsters -> States]
  /\ present \subseteq Monsters

\* A script thinks only without a monster: it looks for one or removes itself.
ThinksAlone == \A c \in Scripts : think[c] # "none" => m_hTargetEnt[c] = NULL

\* A monster is sent into the script state by its script only, and leaves it with the script.
Commanded == \A m \in Monsters : m_IdealMonsterState[m] = "SCRIPT" => m_pCine[m] # NULL

LinkInv == LinkTypes /\ LinksAgree /\ ThinksAlone /\ Commanded

-----------------------------------------------------------------------------
\* CineCleanup gives back monsters with both ends of the link, whichever monsters they are (CBaseMonster::CineCleanup).
LEMMA CleanupKeepsLinks ==
  ASSUME LinkTypes, LinksAgree, Commanded, NEW ms \in SUBSET Monsters, NEW leaving, CineCleanup(ms, leaving)
  PROVE  /\ m_hTargetEnt' \in [Scripts -> Monsters \cup {NULL}]
         /\ m_pCine' \in [Monsters -> Scripts \cup {NULL}]
         /\ m_IdealMonsterState' \in [Monsters -> States]
         /\ \A c \in Scripts, m \in Monsters : m_pCine'[m] = c <=> c \in scripts /\ m_hTargetEnt'[c] = m
         /\ \A c \in Scripts : m_hTargetEnt[c] = NULL => m_hTargetEnt'[c] = NULL
         /\ Commanded'
<1>1. m_hTargetEnt' = [c \in Scripts |-> IF \E m \in ms : m_pCine[m] = c THEN NULL ELSE m_hTargetEnt[c]]
  BY DEF CineCleanup
<1>2. m_pCine' = [m \in Monsters |-> IF m \in ms THEN NULL ELSE m_pCine[m]]
  BY DEF CineCleanup
<1>3. m_IdealMonsterState' = [m \in Monsters |-> IF m \in ms THEN Freed(m) ELSE m_IdealMonsterState[m]]
  BY DEF CineCleanup
<1>4. \A m \in Monsters : Freed(m) \in {"IDLE", "DEAD"}
  BY DEF Freed
<1>5. m_hTargetEnt' \in [Scripts -> Monsters \cup {NULL}]
  BY <1>1 DEF LinkTypes
<1>6. m_pCine' \in [Monsters -> Scripts \cup {NULL}]
  BY <1>2 DEF LinkTypes
<1>7. m_IdealMonsterState' \in [Monsters -> States]
  BY <1>3, <1>4 DEF LinkTypes, States
<1>8. ASSUME NEW c \in Scripts, NEW m \in Monsters
      PROVE  m_pCine'[m] = c <=> c \in scripts /\ m_hTargetEnt'[c] = m
  <2>1. m_pCine'[m] = c <=> m \notin ms /\ m_pCine[m] = c
    BY <1>2, ScriptsAssumption
  <2>2. m_hTargetEnt'[c] = m <=> (\A n \in ms : m_pCine[n] # c) /\ m_hTargetEnt[c] = m
    BY <1>1, ScriptsAssumption
  <2>3. \A n \in Monsters : m_pCine[n] = c <=> c \in scripts /\ m_hTargetEnt[c] = n
    BY DEF LinksAgree
  <2> QED BY <2>1, <2>2, <2>3
<1>9. \A c \in Scripts : m_hTargetEnt[c] = NULL => m_hTargetEnt'[c] = NULL
  BY <1>1
<1>10. Commanded'
  BY <1>2, <1>3, <1>4 DEF Commanded
<1> QED BY <1>5, <1>6, <1>7, <1>8, <1>9, <1>10

-----------------------------------------------------------------------------
LEMMA LinkInit == Init => LinkInv
<1> SUFFICES ASSUME Init PROVE LinkInv
  OBVIOUS
<1>1. LinkTypes
  BY DEF Init, LinkTypes, States
<1>2. LinksAgree
  BY ScriptsAssumption DEF Init, LinksAgree
<1>3. ThinksAlone
  BY DEF Init, ThinksAlone
<1>4. Commanded
  BY DEF Init, Commanded
<1> QED BY <1>1, <1>2, <1>3, <1>4 DEF LinkInv

\* Steps that leave the links alone and never start a think of a script that has a monster.
LEMMA NoLinkChanged ==
  ASSUME LinkInv, UNCHANGED <<scripts, m_hTargetEnt, m_pCine>>,
         think' \in [Scripts -> {"none", "CineThink", "SUB_Remove"}],
         \A c \in Scripts : think'[c] # "none" => m_hTargetEnt[c] = NULL,
         m_IdealMonsterState' \in [Monsters -> States],
         \A m \in Monsters : m_IdealMonsterState'[m] = "SCRIPT" => m_IdealMonsterState[m] = "SCRIPT",
         present' \subseteq Monsters
  PROVE  LinkInv'
<1>1. LinkTypes'
  BY DEF LinkInv, LinkTypes
<1>2. LinksAgree'
  BY DEF LinkInv, LinksAgree
<1>3. ThinksAlone'
  BY DEF LinkInv, ThinksAlone
<1>4. Commanded'
  BY DEF LinkInv, Commanded
<1> QED BY <1>1, <1>2, <1>3, <1>4 DEF LinkInv

\* CCineMonster::Use begins a search only for a script without a monster.
LEMMA UseKeeps ==
  ASSUME LinkInv, NEW n \in Names, Use(n)
  PROVE  LinkInv'
<1>1. think' = [c \in Scripts |-> IF c \in Group(n) /\ m_hTargetEnt[c] = NULL THEN "CineThink" ELSE think[c]]
  BY DEF Use, Used
<1>2. /\ think' \in [Scripts -> {"none", "CineThink", "SUB_Remove"}]
      /\ \A c \in Scripts : think'[c] # "none" => m_hTargetEnt[c] = NULL
  BY <1>1 DEF LinkInv, LinkTypes, ThinksAlone
<1>3. UNCHANGED <<scripts, m_hTargetEnt, m_pCine, m_IdealMonsterState, present>>
  BY DEF Use, mind, body
<1> QED BY <1>2, <1>3, NoLinkChanged DEF LinkInv, LinkTypes

\* CCineMonster::PossessEntity links both ends, which were free.
LEMMA PossessKeeps ==
  ASSUME LinkInv, NEW c \in Scripts, CineThinkPossesses(c)
  PROVE  LinkInv'
<1>1. PICK m \in Monsters : CanPlaySequence(m, c) /\ PossessEntity(c, m)
  BY DEF CineThinkPossesses
<1>2. /\ c \in scripts /\ think[c] = "CineThink" /\ think' = [think EXCEPT ![c] = "none"]
      /\ scripts' = scripts /\ present' = present
  BY DEF CineThinkPossesses, body
<1>3. /\ m_hTargetEnt' = [m_hTargetEnt EXCEPT ![c] = m]
      /\ m_pCine' = [m_pCine EXCEPT ![m] = c]
      /\ m_IdealMonsterState' = [m_IdealMonsterState EXCEPT ![m] = "SCRIPT"]
  BY <1>1 DEF PossessEntity
<1>4. m_pCine[m] = NULL /\ m_hTargetEnt[c] = NULL
  BY <1>1, <1>2 DEF CanPlaySequence, LinkInv, ThinksAlone
<1>5. LinkTypes'
  BY <1>2, <1>3 DEF LinkInv, LinkTypes, States
<1>6. LinksAgree'
  <2> SUFFICES ASSUME NEW d \in Scripts, NEW n \in Monsters
               PROVE  m_pCine'[n] = d <=> d \in scripts' /\ m_hTargetEnt'[d] = n
    BY DEF LinksAgree
  <2>1. m_pCine'[n] = (IF n = m THEN c ELSE m_pCine[n]) /\ m_hTargetEnt'[d] = (IF d = c THEN m ELSE m_hTargetEnt[d])
    BY <1>3 DEF LinkInv, LinkTypes
  <2>2. m_pCine[n] = d <=> d \in scripts /\ m_hTargetEnt[d] = n
    BY DEF LinkInv, LinksAgree
  <2> QED BY <1>2, <1>4, <2>1, <2>2, ScriptsAssumption
<1>7. ThinksAlone'
  BY <1>2, <1>3 DEF LinkInv, LinkTypes, ThinksAlone
<1>8. Commanded'
  BY <1>3, ScriptsAssumption DEF LinkInv, LinkTypes, Commanded
<1> QED BY <1>5, <1>6, <1>7, <1>8 DEF LinkInv

\* A cancelled script (CCineMonster::CancelScript) loses its monster and does not begin to think.
LEMMA CancelKeeps ==
  ASSUME LinkInv, NEW c, NEW leaving, CancelScript(c, leaving), UNCHANGED <<scripts, think, present>>
  PROVE  LinkInv'
<1>1. Cancelled(c) \in SUBSET Monsters
  BY DEF Cancelled, LinkInv, LinkTypes
<1>2. CineCleanup(Cancelled(c), leaving)
  BY DEF CancelScript
<1>3. /\ m_hTargetEnt' \in [Scripts -> Monsters \cup {NULL}]
      /\ m_pCine' \in [Monsters -> Scripts \cup {NULL}]
      /\ m_IdealMonsterState' \in [Monsters -> States]
      /\ \A d \in Scripts, m \in Monsters : m_pCine'[m] = d <=> d \in scripts /\ m_hTargetEnt'[d] = m
      /\ \A d \in Scripts : m_hTargetEnt[d] = NULL => m_hTargetEnt'[d] = NULL
      /\ Commanded'
  BY <1>1, <1>2, CleanupKeepsLinks DEF LinkInv
<1>4. LinkTypes'
  BY <1>3 DEF LinkInv, LinkTypes
<1>5. LinksAgree'
  BY <1>3 DEF LinksAgree
<1>6. ThinksAlone'
  BY <1>3 DEF LinkInv, ThinksAlone
<1> QED BY <1>3, <1>4, <1>5, <1>6 DEF LinkInv

\* CCineMonster::SequenceDone: the monster is given back, the script will be removed or is used again.
LEMMA DoneKeeps ==
  ASSUME LinkInv, NEW m \in Monsters, m_pCine[m] # NULL, SequenceDone(m)
  PROVE  LinkInv'
<1> DEFINE c == m_pCine[m]
           thinks == IF Has(c, "repeatable") THEN think ELSE [think EXCEPT ![c] = "SUB_Remove"]
<1>1. c \in Scripts
  BY DEF LinkInv, LinkTypes
<1>2. CineCleanup({m}, {}) /\ scripts' = scripts /\ present' = present
  BY DEF SequenceDone
<1>3. think' = [d \in Scripts |-> IF d \in Group(map.target[c]) /\ [m_hTargetEnt EXCEPT ![c] = NULL][d] = NULL
                                     THEN "CineThink" ELSE thinks[d]]
  BY DEF SequenceDone, Used
<1>4. /\ m_hTargetEnt' \in [Scripts -> Monsters \cup {NULL}]
      /\ m_pCine' \in [Monsters -> Scripts \cup {NULL}]
      /\ m_IdealMonsterState' \in [Monsters -> States]
      /\ \A d \in Scripts, n \in Monsters : m_pCine'[n] = d <=> d \in scripts /\ m_hTargetEnt'[d] = n
      /\ \A d \in Scripts : m_hTargetEnt[d] = NULL => m_hTargetEnt'[d] = NULL
      /\ Commanded'
  BY <1>2, CleanupKeepsLinks DEF LinkInv
<1>5. m_hTargetEnt'[c] = NULL
  BY <1>1, <1>2 DEF CineCleanup
<1>6. thinks \in [Scripts -> {"none", "CineThink", "SUB_Remove"}]
  BY <1>1 DEF LinkInv, LinkTypes
<1>7. LinkTypes'
  BY <1>2, <1>3, <1>4, <1>6 DEF LinkInv, LinkTypes
<1>8. LinksAgree'
  BY <1>2, <1>4 DEF LinksAgree
<1>9. ThinksAlone'
  <2> SUFFICES ASSUME NEW d \in Scripts, think'[d] # "none" PROVE m_hTargetEnt'[d] = NULL
    BY DEF ThinksAlone
  <2>1. CASE d = c
    BY <2>1, <1>5
  <2>2. CASE d # c
    <3>1. [m_hTargetEnt EXCEPT ![c] = NULL][d] = m_hTargetEnt[d] /\ thinks[d] = think[d]
      BY <2>2 DEF LinkInv, LinkTypes
    <3>2. think'[d] = IF d \in Group(map.target[c]) /\ m_hTargetEnt[d] = NULL THEN "CineThink" ELSE think[d]
      BY <1>3, <3>1
    <3>3. m_hTargetEnt[d] = NULL
      BY <3>2 DEF LinkInv, ThinksAlone
    <3> QED BY <3>3, <1>4
  <2> QED BY <2>1, <2>2
<1> QED BY <1>4, <1>7, <1>8, <1>9 DEF LinkInv

\* A script removes itself (SUB_Remove) only after its monster has been given back.
LEMMA RemoveScriptKeeps ==
  ASSUME LinkInv, NEW c \in Scripts, SUB_Remove(c)
  PROVE  LinkInv'
<1>1. /\ c \in scripts /\ think[c] = "SUB_Remove" /\ scripts' = scripts \ {c}
      /\ think' = [think EXCEPT ![c] = "none"]
      /\ UNCHANGED <<m_hTargetEnt, m_pCine, m_IdealMonsterState, present>>
  BY DEF SUB_Remove, mind, body
<1>2. m_hTargetEnt[c] = NULL
  BY <1>1 DEF LinkInv, ThinksAlone
<1>3. LinkTypes'
  BY <1>1 DEF LinkInv, LinkTypes
<1>4. LinksAgree'
  BY <1>1, <1>2, ScriptsAssumption DEF LinkInv, LinksAgree
<1>5. ThinksAlone'
  BY <1>1 DEF LinkInv, LinkTypes, ThinksAlone
<1>6. Commanded'
  BY <1>1 DEF LinkInv, Commanded
<1> QED BY <1>3, <1>4, <1>5, <1>6 DEF LinkInv

\* A monster that is removed disappears from both ends of its link.
LEMMA RemoveKeeps ==
  ASSUME LinkInv, NEW m \in Monsters, Remove(m)
  PROVE  LinkInv'
<1>1. /\ m_hTargetEnt' = [c \in Scripts |-> IF m_hTargetEnt[c] = m THEN NULL ELSE m_hTargetEnt[c]]
      /\ m_pCine' = [m_pCine EXCEPT ![m] = NULL]
      /\ m_IdealMonsterState' = [m_IdealMonsterState EXCEPT ![m] = "DEAD"]
      /\ present' = present \ {m}
      /\ UNCHANGED <<scripts, think>>
  BY DEF Remove
<1>2. LinkTypes'
  BY <1>1 DEF LinkInv, LinkTypes, States
<1>3. LinksAgree'
  <2> SUFFICES ASSUME NEW d \in Scripts, NEW n \in Monsters
               PROVE  m_pCine'[n] = d <=> d \in scripts' /\ m_hTargetEnt'[d] = n
    BY DEF LinksAgree
  <2>1. m_pCine'[n] = (IF n = m THEN NULL ELSE m_pCine[n]) /\ m_hTargetEnt'[d] = (IF m_hTargetEnt[d] = m THEN NULL ELSE m_hTargetEnt[d])
    BY <1>1 DEF LinkInv, LinkTypes
  <2>2. m_pCine[n] = d <=> d \in scripts /\ m_hTargetEnt[d] = n
    BY DEF LinkInv, LinksAgree
  <2> QED BY <1>1, <2>1, <2>2, ScriptsAssumption
<1>4. ThinksAlone'
  BY <1>1 DEF LinkInv, LinkTypes, ThinksAlone
<1>5. Commanded'
  BY <1>1 DEF LinkInv, LinkTypes, Commanded
<1> QED BY <1>2, <1>3, <1>4, <1>5 DEF LinkInv

-----------------------------------------------------------------------------
\* What a monster does or suffers besides: it never gets a script, and is never sent into one, without being possessed.
LEMMA MonsterKeeps ==
  ASSUME LinkInv, NEW m \in Monsters,
         GetSchedule(m) \/ EnableScript(m) \/ DeathEvent(m) \/ TakeDamage(m) \/ Killed(m) \/ Dies(m) \/ MeetEnemy(m)
  PROVE  LinkInv'
<1>1. UNCHANGED <<scripts, m_hTargetEnt, m_pCine, think, present>>
  BY DEF GetSchedule, EnableScript, DeathEvent, TakeDamage, Killed, Dies, MeetEnemy, script, body
<1>2. \/ m_IdealMonsterState' = m_IdealMonsterState
      \/ \E s \in States \ {"SCRIPT"} : m_IdealMonsterState' = [m_IdealMonsterState EXCEPT ![m] = s]
  <2>1. CASE GetSchedule(m) \/ EnableScript(m) \/ DeathEvent(m) \/ TakeDamage(m) \/ Dies(m)
    BY <2>1 DEF GetSchedule, EnableScript, DeathEvent, TakeDamage, Dies, mind
  <2>2. CASE Killed(m)
    BY <2>2 DEF Killed, States
  <2>3. CASE MeetEnemy(m)
    BY <2>3 DEF MeetEnemy, States
  <2> QED BY <2>1, <2>2, <2>3
<1>3. /\ m_IdealMonsterState' \in [Monsters -> States]
      /\ \A n \in Monsters : m_IdealMonsterState'[n] = "SCRIPT" => m_IdealMonsterState[n] = "SCRIPT"
  BY <1>2 DEF LinkInv, LinkTypes
<1>4. /\ think' \in [Scripts -> {"none", "CineThink", "SUB_Remove"}]
      /\ \A c \in Scripts : think'[c] # "none" => m_hTargetEnt[c] = NULL
      /\ present' \subseteq Monsters
  BY <1>1 DEF LinkInv, LinkTypes, ThinksAlone
<1> QED BY <1>1, <1>3, <1>4, NoLinkChanged

\* ExitScriptedSequence cancels the script, or leaves a dying monster to it.
LEMMA ExitKeeps ==
  ASSUME LinkInv, NEW m \in Monsters, ExitScriptedSequence(m)
  PROVE  LinkInv'
<1>1. UNCHANGED <<scripts, think, present>>
  BY DEF ExitScriptedSequence
<1>2. CASE /\ m_IdealMonsterState' = [m_IdealMonsterState EXCEPT ![m] = "DEAD"]
           /\ UNCHANGED <<m_hTargetEnt, m_pCine>>
  <2>1. /\ m_IdealMonsterState' \in [Monsters -> States]
        /\ \A n \in Monsters : m_IdealMonsterState'[n] = "SCRIPT" => m_IdealMonsterState[n] = "SCRIPT"
    BY <1>2 DEF LinkInv, LinkTypes, States
  <2>2. /\ think' \in [Scripts -> {"none", "CineThink", "SUB_Remove"}]
        /\ \A c \in Scripts : think'[c] # "none" => m_hTargetEnt[c] = NULL
        /\ present' \subseteq Monsters
    BY <1>1 DEF LinkInv, LinkTypes, ThinksAlone
  <2> QED BY <1>1, <1>2, <2>1, <2>2, NoLinkChanged
<1>3. CASE CancelScript(m_pCine[m], {m})
  BY <1>1, <1>3, CancelKeeps
<1> QED BY <1>2, <1>3 DEF ExitScriptedSequence

\* StartSequence and PlayScript give a monster back that has a script.
LEMMA ScriptTaskKeeps ==
  ASSUME LinkInv, NEW m \in Monsters, StartSequence(m) \/ PlayScript(m)
  PROVE  LinkInv'
<1>1. m_pCine[m] # NULL
  BY DEF StartSequence, PlayScript, InScript, LinkInv, Commanded
<1>2. CASE SequenceDone(m)
  BY <1>1, <1>2, DoneKeeps
<1>3. CASE UNCHANGED <<script, m_pCine, m_IdealMonsterState, body>>
  <2>1. UNCHANGED <<scripts, m_hTargetEnt, m_pCine, think, present, m_IdealMonsterState>>
    BY <1>3 DEF script, body
  <2> QED BY <2>1, NoLinkChanged DEF LinkInv, LinkTypes, ThinksAlone
<1> QED BY <1>2, <1>3 DEF StartSequence, PlayScript

LEMMA LinkStep == LinkInv /\ [Next]_vars => LinkInv'
<1> SUFFICES ASSUME LinkInv, [Next]_vars PROVE LinkInv'
  OBVIOUS
<1>1. CASE UNCHANGED vars
  <2>1. UNCHANGED <<scripts, m_hTargetEnt, m_pCine, think, present, m_IdealMonsterState>>
    BY <1>1 DEF vars, script, mind, body
  <2> QED BY <2>1, NoLinkChanged DEF LinkInv, LinkTypes, ThinksAlone
<1>2. ASSUME NEW n \in Names, Use(n) PROVE LinkInv'
  BY <1>2, UseKeeps
<1>3. ASSUME NEW c \in Scripts, CineThinkPossesses(c) PROVE LinkInv'
  BY <1>3, PossessKeeps
<1>4. ASSUME NEW c \in Scripts, CineThinkCancels(c) PROVE LinkInv'
  <2>1. CancelScript(c, {}) /\ UNCHANGED <<scripts, think, present>>
    BY <1>4 DEF CineThinkCancels
  <2> QED BY <2>1, CancelKeeps
<1>5. ASSUME NEW c \in Scripts, SUB_Remove(c) PROVE LinkInv'
  BY <1>5, RemoveScriptKeeps
<1>6. ASSUME NEW m \in Monsters, MonsterThink(m) PROVE LinkInv'
  <2>1. CASE ExitScriptedSequence(m)
    BY <2>1, ExitKeeps
  <2>2. CASE StartSequence(m) \/ PlayScript(m)
    BY <2>2, ScriptTaskKeeps
  <2>3. CASE GetSchedule(m) \/ EnableScript(m)
    BY <2>3, MonsterKeeps
  <2> QED BY <1>6, <2>1, <2>2, <2>3 DEF MonsterThink
<1>7. ASSUME NEW m \in Monsters, DeathEvent(m) \/ TakeDamage(m) \/ Killed(m) \/ Dies(m) \/ MeetEnemy(m) PROVE LinkInv'
  BY <1>7, MonsterKeeps
<1>8. ASSUME NEW m \in Monsters, Remove(m) PROVE LinkInv'
  BY <1>8, RemoveKeeps
<1> QED BY <1>1, <1>2, <1>3, <1>4, <1>5, <1>6, <1>7, <1>8 DEF Next

\* A script and its monster know each other, and no monster is left with a script that has removed itself, for any
\* number of scripts and monsters (m_hTargetEnt of CCineMonster, m_pCine of CBaseMonster).
THEOREM LinksCorrect == Spec => []LinksAgree
<1>1. LinkInv => LinksAgree
  BY DEF LinkInv
<1> QED BY <1>1, LinkInit, LinkStep, PTL DEF Spec

\* The script tasks use m_pCine without a test (schedule.cpp:519, 534, 1271): a monster that comes to them has a script,
\* which exists and knows the monster.
ScriptAtHand ==
  \A m \in Monsters : InScript(m) => m_pCine[m] \in scripts /\ m_hTargetEnt[m_pCine[m]] = m

\* No script task ever runs without its script.
THEOREM TasksHaveScript == Spec => []ScriptAtHand
<1>1. LinkInv => ScriptAtHand
  <2> SUFFICES ASSUME LinkInv, NEW m \in Monsters, InScript(m)
               PROVE  m_pCine[m] \in scripts /\ m_hTargetEnt[m_pCine[m]] = m
    BY DEF ScriptAtHand
  <2>1. m_pCine[m] \in Scripts
    BY DEF InScript, LinkInv, LinkTypes, Commanded
  <2> QED BY <2>1 DEF LinkInv, LinksAgree
<1> QED BY <1>1, LinkInit, LinkStep, PTL DEF Spec

-----------------------------------------------------------------------------
(* Proof that the scripts of a name wait for exactly the monsters on their way, for any number of scripts and monsters. *)

CountTypes ==
  /\ map \in Maps
  /\ m_iDelay \in [Scripts -> Int]
  /\ m_scriptState \in [Monsters -> {"none", "PLAYING", "WAIT", "WALK_TO_MARK"}]
  /\ m_MonsterState \in [Monsters -> States]
  /\ m_pSchedule \in [Monsters -> {"none", "other", "walk", "wait", "play"}]

\* A monster with a script plays it, in the script's schedule, or walks if and only if the script has it walk.
Phases ==
  \A m \in Monsters : m_IdealMonsterState[m] = "SCRIPT" =>
    /\ m_scriptState[m] = "PLAYING" => m_MonsterState[m] = "SCRIPT" /\ m_pSchedule[m] = "play"
    /\ m_scriptState[m] # "PLAYING" => (m_scriptState[m] = "WALK_TO_MARK" <=> Has(m_pCine[m], "walk"))

\* Only a monster that goes on with the schedule of a cancelled script can count down without having been counted.
CountedIfWalking ==
  \A m \in Monsters : InScript(m) /\ m_pSchedule[m] = "walk" /\ m_scriptState[m] # "WALK_TO_MARK" =>
                        map.name[m_pCine[m]] \in disturbed \cup {NoName}

WalkInv == LinkInv /\ CountTypes /\ Phases /\ CountedIfWalking /\ WaitsForWalkers

-----------------------------------------------------------------------------
LEMMA WalkersFinite ==
  ASSUME LinkTypes, NEW n
  PROVE  Walkers(n) \subseteq Monsters /\ IsFiniteSet(Walkers(n))
<1>1. Walkers(n) \subseteq Monsters
  BY DEF Walkers, LinkTypes
<1> QED BY <1>1, MonstersAssumption, FS_Subset

LEMMA WalkInit == Init => WalkInv
<1> SUFFICES ASSUME Init PROVE WalkInv
  OBVIOUS
<1>1. LinkInv
  BY LinkInit
<1>2. CountTypes /\ Phases
  BY DEF Init, CountTypes, Phases, States
<1>3. CountedIfWalking
  BY DEF Init, CountedIfWalking, InScript
<1>4. WaitsForWalkers
  <2> SUFFICES ASSUME NEW n \in Names, NEW c \in Group(n)
               PROVE  m_iDelay[c] = Cardinality(Walkers(n))
    BY DEF WaitsForWalkers
  <2>1. Walkers(n) = {}
    BY DEF Init, Walkers, Walking
  <2>2. c \in Scripts
    BY DEF Init, Group
  <2> QED BY <2>1, <2>2, FS_EmptySet DEF Init
<1> QED BY <1>1, <1>2, <1>3, <1>4 DEF WalkInv

\* Whatever takes monsters out of the script state, or leaves them alone, keeps the count of all names but those of
\* which it cut a walker short.
LEMMA CutShort ==
  ASSUME WalkInv, LinkInv', NEW ms \in SUBSET Monsters,
         \A k \in Monsters \ ms : /\ m_IdealMonsterState'[k] = m_IdealMonsterState[k]
                                  /\ m_MonsterState'[k] = m_MonsterState[k]
                                  /\ m_scriptState'[k] = m_scriptState[k]
                                  /\ m_pSchedule'[k] = m_pSchedule[k]
                                  /\ m_pCine'[k] = m_pCine[k]
                                  /\ k \in present' <=> k \in present,
         \A k \in ms : m_IdealMonsterState'[k] # "SCRIPT",
         map' = map, scripts' \subseteq scripts, \A c \in scripts' : m_iDelay'[c] = m_iDelay[c],
         disturbed \cup NamesOf(ms) \subseteq disturbed'
  PROVE  Phases' /\ CountedIfWalking' /\ WaitsForWalkers'
<1>1. Phases'
  BY DEF WalkInv, Phases, Has
<1>2. CountedIfWalking'
  BY DEF WalkInv, CountedIfWalking, InScript
<1>3. WaitsForWalkers'
  <2> SUFFICES ASSUME NEW n \in Names, n \notin disturbed', NEW c \in scripts', n # NoName, map'.name[c] = n
               PROVE  m_iDelay'[c] = Cardinality(Walkers(n)')
    BY DEF WaitsForWalkers, Group
  <2>1. n \notin disturbed /\ ms \cap Walkers(n) = {}
    BY DEF NamesOf
  <2>2. m_iDelay[c] = Cardinality(Walkers(n))
    BY <2>1 DEF WalkInv, WaitsForWalkers, Group
  <2>3. ASSUME NEW k \in Monsters
        PROVE  k \in Walkers(n)' <=> k \in Walkers(n)
    <3>1. CASE k \in ms
      BY <3>1, <2>1 DEF Walkers, Walking
    <3>2. CASE k \notin ms
      BY <3>2 DEF Walkers, Walking
    <3> QED BY <3>1, <3>2
  <2>4. Walkers(n) \subseteq Monsters /\ Walkers(n)' \subseteq Monsters
    BY DEF Walkers, WalkInv, LinkInv, LinkTypes
  <2>5. Walkers(n)' = Walkers(n)
    BY <2>3, <2>4
  <2> QED BY <2>2, <2>5
<1> QED BY <1>1, <1>2, <1>3

\* CineCleanup gives back monsters, some of which leave in their own think.
LEMMA CleanupCounts ==
  ASSUME WalkInv, LinkInv', NEW ms \in SUBSET Monsters, NEW leaving \in SUBSET ms, CineCleanup(ms, leaving),
         UNCHANGED <<map, scripts, m_iDelay, present>>,
         m_pSchedule' \in [Monsters -> {"none", "other", "walk", "wait", "play"}],
         \A k \in Monsters \ ms : m_pSchedule'[k] = m_pSchedule[k]
  PROVE  WalkInv'
<1> DEFINE dying == {m \in ms : deadflag[m] = "DYING"}
<1>1. /\ m_pCine' = [m \in Monsters |-> IF m \in ms THEN NULL ELSE m_pCine[m]]
      /\ m_scriptState' = [m \in Monsters |-> IF m \in ms THEN "none" ELSE m_scriptState[m]]
      /\ m_IdealMonsterState' = [m \in Monsters |-> IF m \in ms THEN Freed(m) ELSE m_IdealMonsterState[m]]
      /\ m_MonsterState' = [m \in Monsters |-> IF m \in dying \cup leaving THEN Freed(m) ELSE m_MonsterState[m]]
      /\ disturbed' = disturbed \cup NamesOf(ms)
  BY DEF CineCleanup
<1>2. \A m \in Monsters : Freed(m) \in {"IDLE", "DEAD"}
  BY DEF Freed
<1>3. CountTypes'
  <2>1. m_MonsterState' \in [Monsters -> States]
    BY <1>1, <1>2 DEF WalkInv, CountTypes, States
  <2>2. m_scriptState' \in [Monsters -> {"none", "PLAYING", "WAIT", "WALK_TO_MARK"}]
    BY <1>1 DEF WalkInv, CountTypes
  <2> QED BY <2>1, <2>2 DEF WalkInv, CountTypes
<1>4. \A k \in Monsters \ ms : /\ m_IdealMonsterState'[k] = m_IdealMonsterState[k]
                               /\ m_MonsterState'[k] = m_MonsterState[k]
                               /\ m_scriptState'[k] = m_scriptState[k]
                               /\ m_pSchedule'[k] = m_pSchedule[k]
                               /\ m_pCine'[k] = m_pCine[k]
                               /\ k \in present' <=> k \in present
  <2> SUFFICES ASSUME NEW k \in Monsters \ ms
               PROVE  /\ m_IdealMonsterState'[k] = m_IdealMonsterState[k]
                      /\ m_MonsterState'[k] = m_MonsterState[k]
                      /\ m_scriptState'[k] = m_scriptState[k]
                      /\ m_pSchedule'[k] = m_pSchedule[k]
                      /\ m_pCine'[k] = m_pCine[k]
                      /\ k \in present' <=> k \in present
    OBVIOUS
  <2>1. k \notin dying \cup leaving
    OBVIOUS
  <2> QED BY <1>1, <2>1
<1>5. \A k \in ms : m_IdealMonsterState'[k] # "SCRIPT"
  BY <1>1, <1>2
<1>6. Phases' /\ CountedIfWalking' /\ WaitsForWalkers'
  BY <1>1, <1>4, <1>5, CutShort
<1> QED BY <1>3, <1>6 DEF WalkInv

\* Steps that change nothing the count depends on.
LEMMA CountUntouched ==
  ASSUME WalkInv, LinkInv', scripts' \subseteq scripts, m_iDelay' \in [Scripts -> Int],
         \A c \in scripts' : m_iDelay'[c] = m_iDelay[c],
         UNCHANGED <<map, m_pCine, m_scriptState, m_MonsterState, m_IdealMonsterState, m_pSchedule, present, disturbed>>
  PROVE  WalkInv'
<1>1. CountTypes'
  BY DEF WalkInv, CountTypes
<1>2. NamesOf({}) = {}
  BY DEF NamesOf
<1>3. Phases' /\ CountedIfWalking' /\ WaitsForWalkers'
  BY <1>2, CutShort
<1> QED BY <1>1, <1>3 DEF WalkInv

-----------------------------------------------------------------------------
\* A monster that is possessed is one more on its way, if its script has it walk (PossessEntity and DelayStart(1)).
LEMMA PossessCounts ==
  ASSUME WalkInv, LinkInv', NEW c \in Scripts, CineThinkPossesses(c)
  PROVE  WalkInv'
<1>1. PICK m \in Monsters :
        /\ CanPlaySequence(m, c)
        /\ PossessEntity(c, m)
        /\ disturbed' = IF Stale(m) THEN (disturbed \cup {map.name[c]}) \ {NoName} ELSE disturbed
  BY DEF CineThinkPossesses
<1>2. /\ c \in scripts
      /\ UNCHANGED <<map, scripts, m_MonsterState, m_pSchedule, present>>
  BY DEF CineThinkPossesses, body
<1>3. /\ m_pCine' = [m_pCine EXCEPT ![m] = c]
      /\ m_IdealMonsterState' = [m_IdealMonsterState EXCEPT ![m] = "SCRIPT"]
      /\ m_scriptState' = [m_scriptState EXCEPT ![m] = IF Has(c, "walk") THEN "WALK_TO_MARK" ELSE "WAIT"]
      /\ m_iDelay' = IF Has(c, "walk") THEN [d \in Scripts |-> IF d \in Group(map.name[c]) THEN m_iDelay[d] + 1 ELSE m_iDelay[d]]
                     ELSE m_iDelay
  BY <1>1 DEF PossessEntity, DelayMore
<1>4. m \in present /\ m_IdealMonsterState[m] # "SCRIPT"
  BY <1>1 DEF CanPlaySequence, WalkInv, LinkInv, Commanded
<1>5. /\ m_pCine'[m] = c /\ m_IdealMonsterState'[m] = "SCRIPT"
      /\ m_scriptState'[m] = IF Has(c, "walk") THEN "WALK_TO_MARK" ELSE "WAIT"
      /\ \A k \in Monsters \ {m} : /\ m_pCine'[k] = m_pCine[k]
                                   /\ m_IdealMonsterState'[k] = m_IdealMonsterState[k]
                                   /\ m_scriptState'[k] = m_scriptState[k]
  BY <1>3 DEF WalkInv, LinkInv, LinkTypes, CountTypes
<1>6. CountTypes'
  BY <1>2, <1>3 DEF WalkInv, CountTypes
<1>7. Phases'
  <2> SUFFICES ASSUME NEW k \in Monsters, m_IdealMonsterState'[k] = "SCRIPT"
               PROVE  /\ m_scriptState'[k] = "PLAYING" => m_MonsterState'[k] = "SCRIPT" /\ m_pSchedule'[k] = "play"
                      /\ m_scriptState'[k] # "PLAYING" => (m_scriptState'[k] = "WALK_TO_MARK" <=> "walk" \in map'.flags[m_pCine'[k]])
    BY DEF Phases, Has
  <2>1. CASE k = m
    BY <2>1, <1>2, <1>5 DEF Has
  <2>2. CASE k # m
    BY <2>2, <1>2, <1>5 DEF WalkInv, Phases, Has
  <2> QED BY <2>1, <2>2
<1>8. CountedIfWalking'
  <2> SUFFICES ASSUME NEW k \in Monsters, InScript(k)', m_pSchedule'[k] = "walk", m_scriptState'[k] # "WALK_TO_MARK"
               PROVE  map'.name[m_pCine'[k]] \in disturbed' \cup {NoName}
    BY DEF CountedIfWalking
  <2>1. CASE k = m
    <3>1. Stale(m)
      BY <2>1, <1>2 DEF Stale, InScript
    <3> QED BY <3>1, <2>1, <1>1, <1>2, <1>5
  <2>2. CASE k # m
    <3>1. map.name[m_pCine[k]] \in disturbed \cup {NoName}
      BY <2>2, <1>2, <1>5 DEF WalkInv, CountedIfWalking, InScript
    <3> QED BY <3>1, <2>2, <1>1, <1>2, <1>5
  <2> QED BY <2>1, <2>2
<1>9. WaitsForWalkers'
  <2> SUFFICES ASSUME NEW n \in Names, n \notin disturbed', NEW d \in scripts', n # NoName, map'.name[d] = n
               PROVE  m_iDelay'[d] = Cardinality(Walkers(n)')
    BY DEF WaitsForWalkers, Group
  <2>1. n \notin disturbed /\ (n = map.name[c] => ~Stale(m))
    BY <1>1
  <2>2. d \in Scripts /\ d \in scripts /\ map.name[d] = n
    BY <1>2 DEF WalkInv, LinkInv, LinkTypes
  <2>3. m_iDelay[d] = Cardinality(Walkers(n)) /\ m_iDelay[d] \in Int
    BY <2>1, <2>2 DEF WalkInv, CountTypes, WaitsForWalkers, Group
  <2>4. m \notin Walkers(n)
    BY <1>4 DEF Walkers, Walking
  <2>5. \A k \in Monsters \ {m} : k \in Walkers(n)' <=> k \in Walkers(n)
    BY <1>2, <1>5 DEF Walkers, Walking
  <2>6. m \in Walkers(n)' <=> Has(c, "walk") /\ n = map.name[c]
    <3>1. n = map.name[c] => (m_MonsterState[m] = "SCRIPT" => m_pSchedule[m] \in {"walk", "none"})
      BY <2>1 DEF Stale
    <3>2. m \in Walkers(n)' <=> /\ m_scriptState'[m] = "WALK_TO_MARK"
                                /\ m_MonsterState[m] = "SCRIPT" => m_pSchedule[m] \in {"walk", "none"}
                                /\ map.name[c] = n
      BY <1>2, <1>4, <1>5 DEF Walkers, Walking
    <3> QED BY <3>1, <3>2, <1>5
  <2>7. Walkers(n) \subseteq Monsters /\ Walkers(n)' \subseteq Monsters
    BY DEF Walkers, WalkInv, LinkInv, LinkTypes
  <2>8. CASE Has(c, "walk") /\ n = map.name[c]
    <3>1. Walkers(n)' = Walkers(n) \cup {m}
      BY <2>5, <2>6, <2>7, <2>8
    <3>2. IsFiniteSet(Walkers(n))
      BY WalkersFinite DEF WalkInv, LinkInv
    <3>3. Cardinality(Walkers(n)') = Cardinality(Walkers(n)) + 1
      BY <3>1, <3>2, <2>4, FS_AddElement
    <3>4. m_iDelay'[d] = m_iDelay[d] + 1
      BY <2>2, <2>8, <1>3 DEF Group
    <3> QED BY <3>3, <3>4, <2>3
  <2>9. CASE ~(Has(c, "walk") /\ n = map.name[c])
    <3>1. Walkers(n)' = Walkers(n)
      BY <2>4, <2>5, <2>6, <2>7, <2>9
    <3>2. m_iDelay'[d] = m_iDelay[d]
      BY <2>2, <2>9, <1>3 DEF Group
    <3> QED BY <3>1, <3>2, <2>3
  <2> QED BY <2>8, <2>9
<1> QED BY <1>6, <1>7, <1>8, <1>9 DEF WalkInv

\* A monster that reaches its mark is one less on its way (TASK_ENABLE_SCRIPT and DelayStart(0)).
LEMMA EnableCounts ==
  ASSUME WalkInv, LinkInv', NEW m \in Monsters, EnableScript(m)
  PROVE  WalkInv'
<1> DEFINE here == map.name[m_pCine[m]]
<1>1. /\ InScript(m) /\ m_pSchedule[m] = "walk"
      /\ m_pSchedule' = [m_pSchedule EXCEPT ![m] = "wait"]
      /\ m_iDelay' = [c \in Scripts |-> IF c \in Group(here) THEN m_iDelay[c] - 1 ELSE m_iDelay[c]]
      /\ UNCHANGED <<map, scripts, m_pCine, m_scriptState, m_MonsterState, m_IdealMonsterState, present, disturbed>>
  BY DEF EnableScript, DelayLess, body
<1>2. /\ m_pSchedule'[m] = "wait"
      /\ \A k \in Monsters \ {m} : m_pSchedule'[k] = m_pSchedule[k]
  BY <1>1 DEF WalkInv, CountTypes
<1>3. CountTypes'
  BY <1>1 DEF WalkInv, CountTypes
<1>4. m \in present /\ m_MonsterState[m] = "SCRIPT" /\ m_IdealMonsterState[m] = "SCRIPT"
  BY <1>1 DEF InScript
<1>5. m_scriptState[m] # "PLAYING"
  BY <1>1, <1>4 DEF WalkInv, Phases
<1>6. Phases'
  <2> SUFFICES ASSUME NEW k \in Monsters, m_IdealMonsterState'[k] = "SCRIPT"
               PROVE  /\ m_scriptState'[k] = "PLAYING" => m_MonsterState'[k] = "SCRIPT" /\ m_pSchedule'[k] = "play"
                      /\ m_scriptState'[k] # "PLAYING" => (m_scriptState'[k] = "WALK_TO_MARK" <=> "walk" \in map'.flags[m_pCine'[k]])
    BY DEF Phases, Has
  <2> QED BY <1>1, <1>2, <1>5 DEF WalkInv, Phases, Has
<1>7. CountedIfWalking'
  <2> SUFFICES ASSUME NEW k \in Monsters, InScript(k)', m_pSchedule'[k] = "walk", m_scriptState'[k] # "WALK_TO_MARK"
               PROVE  map'.name[m_pCine'[k]] \in disturbed' \cup {NoName}
    BY DEF CountedIfWalking
  <2>1. k # m
    BY <1>2
  <2> QED BY <1>1, <1>2, <2>1 DEF WalkInv, CountedIfWalking, InScript
<1>8. WaitsForWalkers'
  <2> SUFFICES ASSUME NEW n \in Names, n \notin disturbed, NEW d \in scripts, n # NoName, map.name[d] = n
               PROVE  m_iDelay'[d] = Cardinality(Walkers(n)')
    BY <1>1 DEF WaitsForWalkers, Group
  <2>1. d \in Scripts
    BY DEF WalkInv, LinkInv, LinkTypes
  <2>2. m_iDelay[d] = Cardinality(Walkers(n)) /\ m_iDelay[d] \in Int
    BY <2>1 DEF WalkInv, CountTypes, WaitsForWalkers, Group
  <2>3. m \notin Walkers(n)'
    BY <1>1, <1>2, <1>4 DEF Walkers, Walking
  <2>4. \A k \in Monsters \ {m} : k \in Walkers(n)' <=> k \in Walkers(n)
    BY <1>1, <1>2 DEF Walkers, Walking
  <2>5. Walkers(n) \subseteq Monsters /\ Walkers(n)' \subseteq Monsters
    BY DEF Walkers, WalkInv, LinkInv, LinkTypes
  <2>6. Walkers(n)' = Walkers(n) \ {m}
    BY <2>3, <2>4, <2>5
  <2>7. CASE n = here
    <3>1. m_scriptState[m] = "WALK_TO_MARK"
      BY <1>1, <2>7 DEF WalkInv, CountedIfWalking
    <3>2. m \in Walkers(n)
      BY <1>1, <1>4, <2>7, <3>1 DEF Walkers, Walking
    <3>3. IsFiniteSet(Walkers(n))
      BY WalkersFinite DEF WalkInv, LinkInv
    <3>4. Cardinality(Walkers(n)') = Cardinality(Walkers(n)) - 1
      BY <2>6, <3>2, <3>3, FS_RemoveElement
    <3>5. m_iDelay'[d] = m_iDelay[d] - 1
      BY <1>1, <2>1, <2>7 DEF Group
    <3> QED BY <2>2, <3>4, <3>5
  <2>8. CASE n # here
    <3>1. m \notin Walkers(n)
      BY <2>8 DEF Walkers
    <3>2. m_iDelay'[d] = m_iDelay[d]
      BY <1>1, <2>1, <2>8 DEF Group
    <3> QED BY <2>2, <2>6, <3>1, <3>2
  <2> QED BY <2>7, <2>8
<1> QED BY <1>3, <1>6, <1>7, <1>8 DEF WalkInv

\* A think that keeps every monster's script, and whether it is on its way, keeps the count.
LEMMA SameWalkers ==
  ASSUME WalkInv, LinkInv', UNCHANGED <<map, scripts, m_iDelay, m_pCine, present, disturbed>>,
         \A k \in Monsters : Walking(k)' <=> Walking(k)
  PROVE  WaitsForWalkers'
<1> SUFFICES ASSUME NEW n \in Names, n \notin disturbed, NEW d \in scripts, n # NoName, map.name[d] = n
             PROVE  m_iDelay'[d] = Cardinality(Walkers(n)')
  BY DEF WaitsForWalkers, Group
<1>1. Walkers(n) \subseteq Monsters /\ Walkers(n)' \subseteq Monsters
  BY DEF Walkers, WalkInv, LinkInv, LinkTypes
<1>2. ASSUME NEW k \in Monsters PROVE k \in Walkers(n)' <=> k \in Walkers(n)
  BY DEF Walkers
<1>3. Walkers(n)' = Walkers(n)
  BY <1>1, <1>2
<1> QED BY <1>3 DEF WalkInv, WaitsForWalkers, Group

\* GetSchedule sends a monster to its mark if and only if it has been counted.
LEMMA ScheduleCounts ==
  ASSUME WalkInv, LinkInv', NEW m \in Monsters, GetSchedule(m)
  PROVE  WalkInv'
<1>1. /\ m_MonsterState[m] # m_IdealMonsterState[m] \/ m_pSchedule[m] = "none"
      /\ m_MonsterState' = [m_MonsterState EXCEPT ![m] = m_IdealMonsterState[m]]
      /\ m_pSchedule' = [m_pSchedule EXCEPT ![m] = IF m_IdealMonsterState[m] # "SCRIPT" THEN "other"
                                                   ELSE IF Has(m_pCine[m], "walk") THEN "walk" ELSE "wait"]
      /\ UNCHANGED <<map, scripts, m_iDelay, m_pCine, m_scriptState, m_IdealMonsterState, present, disturbed>>
  BY DEF GetSchedule, script
<1>2. /\ m_MonsterState'[m] = m_IdealMonsterState[m]
      /\ m_pSchedule'[m] = IF m_IdealMonsterState[m] # "SCRIPT" THEN "other"
                           ELSE IF Has(m_pCine[m], "walk") THEN "walk" ELSE "wait"
      /\ \A k \in Monsters \ {m} : m_MonsterState'[k] = m_MonsterState[k] /\ m_pSchedule'[k] = m_pSchedule[k]
  BY <1>1 DEF WalkInv, CountTypes
<1>3. CountTypes'
  BY <1>1 DEF WalkInv, CountTypes, LinkInv, LinkTypes
<1>4. m_IdealMonsterState[m] = "SCRIPT" => /\ m_scriptState[m] # "PLAYING"
                                           /\ m_scriptState[m] = "WALK_TO_MARK" <=> Has(m_pCine[m], "walk")
  BY <1>1 DEF WalkInv, Phases
<1>5. Phases'
  <2> SUFFICES ASSUME NEW k \in Monsters, m_IdealMonsterState'[k] = "SCRIPT"
               PROVE  /\ m_scriptState'[k] = "PLAYING" => m_MonsterState'[k] = "SCRIPT" /\ m_pSchedule'[k] = "play"
                      /\ m_scriptState'[k] # "PLAYING" => (m_scriptState'[k] = "WALK_TO_MARK" <=> "walk" \in map'.flags[m_pCine'[k]])
    BY DEF Phases, Has
  <2> QED BY <1>1, <1>2, <1>4 DEF WalkInv, Phases, Has
<1>6. CountedIfWalking'
  <2> SUFFICES ASSUME NEW k \in Monsters, InScript(k)', m_pSchedule'[k] = "walk", m_scriptState'[k] # "WALK_TO_MARK"
               PROVE  map'.name[m_pCine'[k]] \in disturbed' \cup {NoName}
    BY DEF CountedIfWalking
  <2>1. k # m
    BY <1>1, <1>2, <1>4
  <2> QED BY <1>1, <1>2, <2>1 DEF WalkInv, CountedIfWalking, InScript
<1>7. \A k \in Monsters : Walking(k)' <=> Walking(k)
  <2> SUFFICES ASSUME NEW k \in Monsters PROVE Walking(k)' <=> Walking(k)
    OBVIOUS
  <2>1. CASE k = m
    BY <2>1, <1>1, <1>2, <1>4 DEF Walking
  <2>2. CASE k # m
    BY <2>2, <1>1, <1>2 DEF Walking
  <2> QED BY <2>1, <2>2
<1>8. WaitsForWalkers'
  BY <1>1, <1>7, SameWalkers
<1> QED BY <1>3, <1>5, <1>6, <1>8 DEF WalkInv

\* A monster that begins to play is at its mark.
LEMMA PlayCounts ==
  ASSUME WalkInv, LinkInv', NEW m \in Monsters, InScript(m), m_pSchedule[m] = "wait",
         m_pSchedule' = [m_pSchedule EXCEPT ![m] = "play"],
         m_scriptState' = [m_scriptState EXCEPT ![m] = "PLAYING"],
         UNCHANGED <<map, scripts, m_iDelay, m_pCine, m_MonsterState, m_IdealMonsterState, present, disturbed>>
  PROVE  WalkInv'
<1>1. /\ m_pSchedule'[m] = "play" /\ m_scriptState'[m] = "PLAYING"
      /\ \A k \in Monsters \ {m} : m_scriptState'[k] = m_scriptState[k] /\ m_pSchedule'[k] = m_pSchedule[k]
  BY DEF WalkInv, CountTypes
<1>2. m_MonsterState[m] = "SCRIPT"
  BY DEF InScript
<1>3. CountTypes'
  BY DEF WalkInv, CountTypes
<1>4. Phases'
  <2> SUFFICES ASSUME NEW k \in Monsters, m_IdealMonsterState'[k] = "SCRIPT"
               PROVE  /\ m_scriptState'[k] = "PLAYING" => m_MonsterState'[k] = "SCRIPT" /\ m_pSchedule'[k] = "play"
                      /\ m_scriptState'[k] # "PLAYING" => (m_scriptState'[k] = "WALK_TO_MARK" <=> "walk" \in map'.flags[m_pCine'[k]])
    BY DEF Phases, Has
  <2> QED BY <1>1, <1>2 DEF WalkInv, Phases, Has
<1>5. CountedIfWalking'
  <2> SUFFICES ASSUME NEW k \in Monsters, InScript(k)', m_pSchedule'[k] = "walk", m_scriptState'[k] # "WALK_TO_MARK"
               PROVE  map'.name[m_pCine'[k]] \in disturbed' \cup {NoName}
    BY DEF CountedIfWalking
  <2>1. k # m
    BY <1>1
  <2> QED BY <1>1, <2>1 DEF WalkInv, CountedIfWalking, InScript
<1>6. \A k \in Monsters : Walking(k)' <=> Walking(k)
  BY <1>1, <1>2 DEF Walking
<1>7. WaitsForWalkers'
  BY <1>6, SameWalkers
<1> QED BY <1>3, <1>4, <1>5, <1>7 DEF WalkInv

-----------------------------------------------------------------------------
\* SequenceDone, of a monster that has its script.
LEMMA DoneCounts ==
  ASSUME WalkInv, LinkInv', NEW m \in Monsters, SequenceDone(m)
  PROVE  WalkInv'
<1>1. /\ CineCleanup({m}, {})
      /\ m_pSchedule' = [m_pSchedule EXCEPT ![m] = "none"]
      /\ UNCHANGED <<map, scripts, m_iDelay, present>>
  BY DEF SequenceDone
<1>2. /\ m_pSchedule' \in [Monsters -> {"none", "other", "walk", "wait", "play"}]
      /\ \A k \in Monsters \ {m} : m_pSchedule'[k] = m_pSchedule[k]
  BY <1>1 DEF WalkInv, CountTypes
<1> QED BY <1>1, <1>2, CleanupCounts

\* One monster leaves the script state for good, or was not in it.
LEMMA OneLeaves ==
  ASSUME WalkInv, LinkInv', CountTypes', NEW m \in Monsters,
         \A k \in Monsters \ {m} : /\ m_IdealMonsterState'[k] = m_IdealMonsterState[k]
                                   /\ m_MonsterState'[k] = m_MonsterState[k]
                                   /\ m_scriptState'[k] = m_scriptState[k]
                                   /\ m_pSchedule'[k] = m_pSchedule[k]
                                   /\ m_pCine'[k] = m_pCine[k]
                                   /\ k \in present' <=> k \in present,
         m_IdealMonsterState'[m] # "SCRIPT",
         UNCHANGED <<map, scripts, m_iDelay>>,
         disturbed \cup NamesOf({m}) \subseteq disturbed'
  PROVE  WalkInv'
<1>1. Phases' /\ CountedIfWalking' /\ WaitsForWalkers'
  BY CutShort
<1> QED BY <1>1 DEF WalkInv

\* ExitScriptedSequence: a monster that fails or is hurt cancels the scripts of the name, or dies on its own.
LEMMA ExitCounts ==
  ASSUME WalkInv, LinkInv', NEW m \in Monsters, ExitScriptedSequence(m)
  PROVE  WalkInv'
<1>1. /\ InScript(m)
      /\ m_pSchedule' = [m_pSchedule EXCEPT ![m] = "other"]
      /\ UNCHANGED <<map, scripts, m_iDelay, present>>
  BY DEF ExitScriptedSequence
<1>2. /\ m_pSchedule' \in [Monsters -> {"none", "other", "walk", "wait", "play"}]
      /\ \A k \in Monsters \ {m} : m_pSchedule'[k] = m_pSchedule[k]
  BY <1>1 DEF WalkInv, CountTypes
<1>3. CASE /\ m_IdealMonsterState' = [m_IdealMonsterState EXCEPT ![m] = "DEAD"]
           /\ m_MonsterState' = [m_MonsterState EXCEPT ![m] = "DEAD"]
           /\ disturbed' = disturbed \cup NamesOf({m})
           /\ UNCHANGED <<m_pCine, m_scriptState>>
  <2>1. /\ m_IdealMonsterState'[m] # "SCRIPT"
        /\ \A k \in Monsters \ {m} : m_IdealMonsterState'[k] = m_IdealMonsterState[k] /\ m_MonsterState'[k] = m_MonsterState[k]
    BY <1>3 DEF WalkInv, LinkInv, LinkTypes, CountTypes
  <2>2. CountTypes'
    BY <1>1, <1>2, <1>3 DEF WalkInv, CountTypes, States
  <2> QED BY <1>1, <1>2, <1>3, <2>1, <2>2, OneLeaves
<1>4. CASE CancelScript(m_pCine[m], {m})
  <2> DEFINE ms == Cancelled(m_pCine[m])
  <2>1. m \in present /\ m_MonsterState[m] = "SCRIPT" /\ m_pCine[m] \in Scripts
    BY <1>1 DEF InScript, WalkInv, LinkInv, LinkTypes, Commanded
  <2>2. m_hTargetEnt[m_pCine[m]] = m
    BY <2>1 DEF WalkInv, LinkInv, LinksAgree
  <2>3. ms \in SUBSET Monsters /\ {m} \in SUBSET ms
    BY <2>1, <2>2 DEF Cancelled, WalkInv, LinkInv, LinkTypes
  <2>4. CineCleanup(ms, {m})
    BY <1>4 DEF CancelScript
  <2>5. \A k \in Monsters \ ms : m_pSchedule'[k] = m_pSchedule[k]
    BY <1>2, <2>3
  <2> HIDE DEF ms
  <2> QED BY <1>1, <1>2, <2>3, <2>4, <2>5, CleanupCounts
<1> QED BY <1>3, <1>4 DEF ExitScriptedSequence

\* Deaths, removals and enemies.
LEMMA FateCounts ==
  ASSUME WalkInv, LinkInv', NEW m \in Monsters, Killed(m) \/ Remove(m) \/ MeetEnemy(m)
  PROVE  WalkInv'
<1>1. CASE Killed(m)
  <2>1. /\ m_IdealMonsterState' = [m_IdealMonsterState EXCEPT ![m] = "DEAD"]
        /\ disturbed' = disturbed \cup NamesOf({m})
        /\ UNCHANGED <<map, scripts, m_iDelay, m_pCine, m_scriptState, m_MonsterState, m_pSchedule, present>>
    BY <1>1 DEF Killed, script
  <2>2. CountTypes'
    BY <2>1 DEF WalkInv, CountTypes
  <2>3. m_IdealMonsterState'[m] # "SCRIPT" /\ \A k \in Monsters \ {m} : m_IdealMonsterState'[k] = m_IdealMonsterState[k]
    BY <2>1 DEF WalkInv, LinkInv, LinkTypes
  <2> QED BY <2>1, <2>2, <2>3, OneLeaves
<1>2. CASE Remove(m)
  <2>1. /\ m_IdealMonsterState' = [m_IdealMonsterState EXCEPT ![m] = "DEAD"]
        /\ m_MonsterState' = [m_MonsterState EXCEPT ![m] = "DEAD"]
        /\ m_scriptState' = [m_scriptState EXCEPT ![m] = "none"]
        /\ m_pSchedule' = [m_pSchedule EXCEPT ![m] = "none"]
        /\ m_pCine' = [m_pCine EXCEPT ![m] = NULL]
        /\ present' = present \ {m}
        /\ disturbed' = disturbed \cup NamesOf({m})
        /\ UNCHANGED <<map, scripts, m_iDelay>>
    BY <1>2 DEF Remove
  <2>2. CountTypes'
    BY <2>1 DEF WalkInv, CountTypes, States
  <2>3. /\ m_IdealMonsterState'[m] # "SCRIPT"
        /\ \A k \in Monsters \ {m} : /\ m_IdealMonsterState'[k] = m_IdealMonsterState[k]
                                     /\ m_MonsterState'[k] = m_MonsterState[k]
                                     /\ m_scriptState'[k] = m_scriptState[k]
                                     /\ m_pSchedule'[k] = m_pSchedule[k]
                                     /\ m_pCine'[k] = m_pCine[k]
                                     /\ k \in present' <=> k \in present
    BY <2>1 DEF WalkInv, LinkInv, LinkTypes, CountTypes
  <2> QED BY <2>1, <2>2, <2>3, OneLeaves
<1>3. CASE MeetEnemy(m)
  <2>1. PICK state \in {"IDLE", "COMBAT"} :
          /\ m_MonsterState' = [m_MonsterState EXCEPT ![m] = state]
          /\ m_IdealMonsterState' = [m_IdealMonsterState EXCEPT ![m] = state]
          /\ m_pSchedule' = [m_pSchedule EXCEPT ![m] = "other"]
    BY <1>3 DEF MeetEnemy
  <2>2. UNCHANGED <<map, scripts, m_iDelay, m_pCine, m_scriptState, present, disturbed>>
    BY <1>3 DEF MeetEnemy, script, body
  <2>3. CountTypes'
    BY <2>1, <2>2 DEF WalkInv, CountTypes, States
  <2>4. /\ m_IdealMonsterState'[m] # "SCRIPT"
        /\ \A k \in Monsters \ {m} : /\ m_IdealMonsterState'[k] = m_IdealMonsterState[k]
                                     /\ m_MonsterState'[k] = m_MonsterState[k]
                                     /\ m_pSchedule'[k] = m_pSchedule[k]
    BY <2>1 DEF WalkInv, LinkInv, LinkTypes, CountTypes
  <2>5. NamesOf({m}) = {}
    BY <1>3 DEF MeetEnemy, NamesOf, Walkers, Walking
  <2> QED BY <2>2, <2>3, <2>4, <2>5, OneLeaves
<1> QED BY <1>1, <1>2, <1>3

LEMMA WalkStep == WalkInv /\ [Next]_vars => WalkInv'
<1> SUFFICES ASSUME WalkInv, [Next]_vars PROVE WalkInv'
  OBVIOUS
<1>1. LinkInv'
  BY LinkStep DEF WalkInv
<1>2. CASE UNCHANGED vars
  BY <1>1, <1>2, CountUntouched DEF vars, script, mind, body, WalkInv, CountTypes
<1>3. ASSUME NEW n \in Names, Use(n) PROVE WalkInv'
  BY <1>1, <1>3, CountUntouched DEF Use, mind, body, WalkInv, CountTypes
<1>4. ASSUME NEW c \in Scripts, CineThinkPossesses(c) PROVE WalkInv'
  BY <1>1, <1>4, PossessCounts
<1>5. ASSUME NEW c \in Scripts, CineThinkCancels(c) PROVE WalkInv'
  <2>1. /\ CineCleanup(Cancelled(c), {})
        /\ UNCHANGED <<map, scripts, m_iDelay, m_pSchedule, present>>
    BY <1>5 DEF CineThinkCancels, CancelScript
  <2>2. Cancelled(c) \in SUBSET Monsters
    BY DEF Cancelled, WalkInv, LinkInv, LinkTypes
  <2> QED BY <1>1, <2>1, <2>2, CleanupCounts DEF WalkInv, CountTypes
<1>6. ASSUME NEW c \in Scripts, SUB_Remove(c) PROVE WalkInv'
  <2>1. /\ scripts' = scripts \ {c}
        /\ m_iDelay' = [m_iDelay EXCEPT ![c] = 0]
        /\ UNCHANGED <<map, m_pCine, m_scriptState, m_MonsterState, m_IdealMonsterState, m_pSchedule, present, disturbed>>
    BY <1>6 DEF SUB_Remove, mind, body
  <2>2. m_iDelay' \in [Scripts -> Int] /\ \A d \in scripts' : m_iDelay'[d] = m_iDelay[d]
    BY <2>1 DEF WalkInv, CountTypes, LinkInv, LinkTypes
  <2> QED BY <1>1, <2>1, <2>2, CountUntouched
<1>7. ASSUME NEW m \in Monsters, GetSchedule(m) PROVE WalkInv'
  BY <1>1, <1>7, ScheduleCounts
<1>8. ASSUME NEW m \in Monsters, EnableScript(m) PROVE WalkInv'
  BY <1>1, <1>8, EnableCounts
<1>9. ASSUME NEW m \in Monsters, ExitScriptedSequence(m) PROVE WalkInv'
  BY <1>1, <1>9, ExitCounts
<1>10. ASSUME NEW m \in Monsters, StartSequence(m) PROVE WalkInv'
  <2>1. CASE SequenceDone(m)
    BY <1>1, <2>1, DoneCounts
  <2>2. CASE ~SequenceDone(m)
    <3>1. /\ InScript(m) /\ m_pSchedule[m] = "wait"
          /\ m_pSchedule' = [m_pSchedule EXCEPT ![m] = "play"]
          /\ m_scriptState' = [m_scriptState EXCEPT ![m] = "PLAYING"]
          /\ UNCHANGED <<map, scripts, m_iDelay, m_pCine, m_MonsterState, m_IdealMonsterState, present, disturbed>>
      BY <1>10, <2>2 DEF StartSequence, script, body
    <3> QED BY <1>1, <3>1, PlayCounts
  <2> QED BY <2>1, <2>2
<1>11. ASSUME NEW m \in Monsters, PlayScript(m) PROVE WalkInv'
  BY <1>1, <1>11, DoneCounts DEF PlayScript
<1>12. ASSUME NEW m \in Monsters, DeathEvent(m) \/ TakeDamage(m) \/ Dies(m) PROVE WalkInv'
  <2>1. UNCHANGED <<map, scripts, m_iDelay, m_pCine, m_scriptState, m_MonsterState, m_IdealMonsterState, m_pSchedule, present, disturbed>>
    BY <1>12 DEF DeathEvent, TakeDamage, Dies, script, mind
  <2> QED BY <1>1, <2>1, CountUntouched DEF WalkInv, CountTypes
<1>13. ASSUME NEW m \in Monsters, Killed(m) \/ Remove(m) \/ MeetEnemy(m) PROVE WalkInv'
  BY <1>1, <1>13, FateCounts
<1> QED BY <1>2, <1>3, <1>4, <1>5, <1>6, <1>7, <1>8, <1>9, <1>10, <1>11, <1>12, <1>13 DEF Next, MonsterThink

\* The scripts of a name wait for exactly the monsters on their way for them, as long as none was cut short, for any
\* number of scripts and monsters and any map (m_iDelay of CCineMonster).
THEOREM WalkersCounted == Spec => []WaitsForWalkers
<1>1. WalkInv => WaitsForWalkers
  BY DEF WalkInv
<1> QED BY <1>1, WalkInit, WalkStep, PTL DEF Spec

-----------------------------------------------------------------------------
(* Type correctness. *)

\* What the other variables hold; scripts that have gone or have no name do not count.
BodyTypes ==
  /\ m_startTime \in [Scripts -> {"now", "far"}]
  /\ deadflag \in [Monsters -> {"NO", "DYING", "DEAD"}]
  /\ hurt \cup killed \subseteq Monsters
  /\ uses \in 0..MaxUses
  /\ disturbed \subseteq Names

Uncounted == \A c \in Scripts : c \notin scripts \/ map.name[c] = NoName => m_iDelay[c] = 0

TypeInv == WalkInv /\ BodyTypes /\ Uncounted

LEMMA NamesAreNames == \A ms : NamesOf(ms) \subseteq Names
BY DEF NamesOf

\* CineCleanup and what it calls keep the types of the bodies.
LEMMA CleanupTypes ==
  ASSUME LinkInv, BodyTypes, NEW ms \in SUBSET Monsters, NEW leaving, CineCleanup(ms, leaving)
  PROVE  /\ deadflag' \in [Monsters -> {"NO", "DYING", "DEAD"}]
         /\ hurt' \subseteq Monsters
         /\ disturbed' \subseteq Names
<1>1. \A d : d = {m \in ms : deadflag[m] = "DYING"} =>
        /\ deadflag' = [m \in Monsters |-> IF m \in d THEN "DEAD"
                                           ELSE IF m \in leaving \cap hurt THEN "DYING" ELSE deadflag[m]]
        /\ hurt' = hurt \cup d
        /\ disturbed' = disturbed \cup NamesOf(ms)
  BY DEF CineCleanup
<1> DEFINE d == {m \in ms : deadflag[m] = "DYING"}
<1>2. d \subseteq Monsters
  OBVIOUS
<1>3. /\ deadflag' = [m \in Monsters |-> IF m \in d THEN "DEAD"
                                         ELSE IF m \in leaving \cap hurt THEN "DYING" ELSE deadflag[m]]
      /\ hurt' = hurt \cup d
      /\ disturbed' = disturbed \cup NamesOf(ms)
  BY <1>1
<1> HIDE DEF d
<1>4. deadflag' \in [Monsters -> {"NO", "DYING", "DEAD"}]
  BY <1>3 DEF BodyTypes
<1>5. hurt' \subseteq Monsters
  BY <1>2, <1>3 DEF BodyTypes
<1>6. disturbed' \subseteq Names
  BY <1>3, NamesAreNames DEF BodyTypes
<1> QED BY <1>4, <1>5, <1>6

\* Use begins the wait of scripts, whichever they are.
LEMMA UsedTypes ==
  ASSUME BodyTypes, NEW cs, NEW target, NEW thinks, Used(cs, target, thinks)
  PROVE  m_startTime' \in [Scripts -> {"now", "far"}]
BY DEF Used, BodyTypes

LEMMA BodyStep == TypeInv /\ [Next]_vars => BodyTypes'
<1> SUFFICES ASSUME TypeInv, [Next]_vars PROVE BodyTypes'
  OBVIOUS
<1>0. LinkInv /\ LinkTypes /\ CountTypes /\ BodyTypes
  BY DEF TypeInv, WalkInv, LinkInv
<1>1. CASE UNCHANGED vars
  BY <1>0, <1>1 DEF vars, script, body, BodyTypes
<1>2. ASSUME NEW n \in Names, Use(n) PROVE BodyTypes'
  <2>1. m_startTime' \in [Scripts -> {"now", "far"}]
    BY <1>0, <1>2, UsedTypes DEF Use
  <2>2. uses' \in 0..MaxUses
    BY <1>0, <1>2, ScriptsAssumption DEF Use, BodyTypes
  <2> QED BY <1>0, <1>2, <2>1, <2>2 DEF Use, body, BodyTypes
<1>3. ASSUME NEW c \in Scripts, CineThinkPossesses(c) PROVE BodyTypes'
  <2>1. m_startTime' \in [Scripts -> {"now", "far"}]
    BY <1>0, <1>3 DEF CineThinkPossesses, PossessEntity, DelayMore, BodyTypes
  <2>2. map.name[c] \in Names \cup {NoName}
    BY <1>0, MapsAssumption DEF CountTypes
  <2>3. disturbed' \subseteq Names
    BY <1>0, <1>3, <2>2 DEF CineThinkPossesses, BodyTypes
  <2> QED BY <1>0, <1>3, <2>1, <2>3 DEF CineThinkPossesses, body, BodyTypes
<1>4. ASSUME NEW c \in Scripts, CineThinkCancels(c) PROVE BodyTypes'
  <2>1. Cancelled(c) \in SUBSET Monsters
    BY <1>0 DEF Cancelled, LinkTypes
  <2>2. CineCleanup(Cancelled(c), {})
    BY <1>4 DEF CineThinkCancels, CancelScript
  <2> QED BY <1>0, <1>4, <2>1, <2>2, CleanupTypes DEF CineThinkCancels, BodyTypes
<1>5. ASSUME NEW c \in Scripts, SUB_Remove(c) PROVE BodyTypes'
  BY <1>0, <1>5 DEF SUB_Remove, body, BodyTypes
<1>6. ASSUME NEW m \in Monsters, GetSchedule(m) PROVE BodyTypes'
  BY <1>0, <1>6 DEF GetSchedule, script, BodyTypes
<1>7. ASSUME NEW m \in Monsters, EnableScript(m) PROVE BodyTypes'
  BY <1>0, <1>7 DEF EnableScript, DelayLess, body, BodyTypes
<1>8. ASSUME NEW m \in Monsters, ExitScriptedSequence(m) PROVE BodyTypes'
  <2>1. UNCHANGED <<m_startTime, killed, uses>>
    BY <1>8 DEF ExitScriptedSequence
  <2>2. CASE deadflag[m] = "DYING"
    BY <1>0, <1>8, <2>1, <2>2, NamesAreNames DEF ExitScriptedSequence, BodyTypes
  <2>3. CASE deadflag[m] # "DYING"
    <3>1. Cancelled(m_pCine[m]) \in SUBSET Monsters
      BY <1>0 DEF Cancelled, LinkTypes
    <3>2. CineCleanup(Cancelled(m_pCine[m]), {m})
      BY <1>8, <2>3 DEF ExitScriptedSequence, CancelScript
    <3> QED BY <1>0, <2>1, <3>1, <3>2, CleanupTypes DEF BodyTypes
  <2> QED BY <2>2, <2>3
<1>9. ASSUME NEW m \in Monsters, SequenceDone(m) PROVE BodyTypes'
  <2>1. CineCleanup({m}, {}) /\ UNCHANGED <<killed, uses>>
    BY <1>9 DEF SequenceDone
  <2>2. m_startTime' \in [Scripts -> {"now", "far"}]
    BY <1>0, <1>9, UsedTypes DEF SequenceDone
  <2> QED BY <1>0, <2>1, <2>2, CleanupTypes DEF BodyTypes
<1>10. ASSUME NEW m \in Monsters, StartSequence(m) PROVE BodyTypes'
  <2>1. CASE SequenceDone(m)
    BY <2>1, <1>9
  <2>2. CASE ~SequenceDone(m)
    BY <1>0, <1>10, <2>2 DEF StartSequence, script, body, BodyTypes
  <2> QED BY <2>1, <2>2
<1>11. ASSUME NEW m \in Monsters, PlayScript(m) PROVE BodyTypes'
  BY <1>9, <1>11 DEF PlayScript
<1>12. ASSUME NEW m \in Monsters, DeathEvent(m) \/ TakeDamage(m) \/ Dies(m) PROVE BodyTypes'
  BY <1>0, <1>12 DEF DeathEvent, TakeDamage, Dies, script, BodyTypes
<1>13. ASSUME NEW m \in Monsters, Killed(m) \/ Remove(m) \/ MeetEnemy(m) PROVE BodyTypes'
  BY <1>0, <1>13, NamesAreNames DEF Killed, Remove, MeetEnemy, script, body, BodyTypes
<1> QED BY <1>1, <1>2, <1>3, <1>4, <1>5, <1>6, <1>7, <1>8, <1>10, <1>11, <1>12, <1>13 DEF Next, MonsterThink

LEMMA UncountedStep == TypeInv /\ [Next]_vars => Uncounted'
<1> SUFFICES ASSUME TypeInv, [Next]_vars PROVE Uncounted'
  OBVIOUS
<1>0. Uncounted /\ m_iDelay \in [Scripts -> Int] /\ scripts \subseteq Scripts
  BY DEF TypeInv, WalkInv, LinkInv, LinkTypes, CountTypes
<1>1. ASSUME UNCHANGED <<map, scripts, m_iDelay>> PROVE Uncounted'
  BY <1>0, <1>1 DEF Uncounted
<1>2. ASSUME UNCHANGED <<map, scripts>>, NEW n, DelayMore(n) \/ DelayLess(n) PROVE Uncounted'
  <2>1. \A c \in Scripts : c \notin Group(n) => m_iDelay'[c] = m_iDelay[c]
    BY <1>2 DEF DelayMore, DelayLess
  <2>2. \A c \in Scripts : c \notin scripts \/ map.name[c] = NoName => c \notin Group(n)
    BY DEF Group
  <2> QED BY <1>0, <1>2, <2>1, <2>2 DEF Uncounted
<1>3. ASSUME NEW c \in Scripts, CineThinkPossesses(c) PROVE Uncounted'
  <2>1. UNCHANGED <<map, scripts>> /\ \E m \in Monsters : PossessEntity(c, m)
    BY <1>3 DEF CineThinkPossesses
  <2>2. CASE Has(c, "walk")
    BY <1>2, <2>1, <2>2 DEF PossessEntity
  <2>3. CASE ~Has(c, "walk")
    BY <1>1, <2>1, <2>3 DEF PossessEntity
  <2> QED BY <2>2, <2>3
<1>4. ASSUME NEW c \in Scripts, SUB_Remove(c) PROVE Uncounted'
  BY <1>0, <1>4 DEF SUB_Remove, Uncounted
<1>5. ASSUME NEW m \in Monsters, EnableScript(m) PROVE Uncounted'
  BY <1>2, <1>5 DEF EnableScript
<1>6. ASSUME NEW m \in Monsters, ExitScriptedSequence(m) PROVE Uncounted'
  BY <1>1, <1>6 DEF ExitScriptedSequence
<1>7. ASSUME NEW m \in Monsters, StartSequence(m) \/ PlayScript(m) PROVE Uncounted'
  BY <1>1, <1>7 DEF StartSequence, PlayScript, SequenceDone, script
<1>8. ASSUME NEW m \in Monsters,
             GetSchedule(m) \/ DeathEvent(m) \/ TakeDamage(m) \/ Killed(m) \/ Dies(m) \/ Remove(m) \/ MeetEnemy(m)
      PROVE  Uncounted'
  BY <1>1, <1>8 DEF GetSchedule, DeathEvent, TakeDamage, Killed, Dies, Remove, MeetEnemy, script
<1>9. ASSUME NEW n \in Names, Use(n) PROVE Uncounted'
  BY <1>1, <1>9 DEF Use
<1>10. ASSUME NEW c \in Scripts, CineThinkCancels(c) PROVE Uncounted'
  BY <1>1, <1>10 DEF CineThinkCancels
<1>11. CASE UNCHANGED vars
  BY <1>1, <1>11 DEF vars, script
<1> QED BY <1>3, <1>4, <1>5, <1>6, <1>7, <1>8, <1>9, <1>10, <1>11 DEF Next, MonsterThink

\* Every variable keeps its type, and no count is below zero unless its name lost count, for any maps.
THEOREM TypeCorrect == Spec => []TypeOK
<1>1. Init => TypeInv
  <2> SUFFICES ASSUME Init PROVE BodyTypes /\ Uncounted
    BY WalkInit DEF TypeInv
  <2>1. BodyTypes
    BY ScriptsAssumption DEF Init, BodyTypes
  <2>2. Uncounted
    BY DEF Init, Uncounted
  <2> QED BY <2>1, <2>2
<1>2. TypeInv /\ [Next]_vars => TypeInv'
  BY WalkStep, BodyStep, UncountedStep DEF TypeInv
<1>3. TypeInv => TypeOK
  <2> SUFFICES ASSUME TypeInv PROVE TypeOK
    OBVIOUS
  <2>1. ASSUME NEW c \in Scripts, m_iDelay[c] < 0 PROVE map.name[c] \in disturbed
    <3>1. c \in scripts /\ map.name[c] # NoName
      BY <2>1 DEF TypeInv, Uncounted
    <3>2. map.name[c] \in Names
      BY <3>1, MapsAssumption DEF TypeInv, WalkInv, CountTypes
    <3> SUFFICES ASSUME map.name[c] \notin disturbed PROVE FALSE
      OBVIOUS
    <3>3. c \in Group(map.name[c])
      BY <3>1 DEF Group
    <3>4. m_iDelay[c] = Cardinality(Walkers(map.name[c]))
      BY <3>2, <3>3 DEF TypeInv, WalkInv, WaitsForWalkers
    <3>5. Cardinality(Walkers(map.name[c])) \in Nat
      BY WalkersFinite, FS_CardinalityType DEF TypeInv, WalkInv, LinkInv
    <3> QED BY <2>1, <3>4, <3>5
  <2> QED BY <2>1 DEF TypeInv, WalkInv, LinkInv, LinkTypes, CountTypes, BodyTypes, TypeOK
<1> QED BY <1>1, <1>2, <1>3, PTL DEF Spec
=============================================================================
