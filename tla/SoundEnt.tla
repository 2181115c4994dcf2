------------------------------ MODULE SoundEnt ------------------------------
(***************************************************************************)
(* The world's sound list (CSoundEnt, src/game/server/soundent.cpp): a     *)
(* fixed pool of sounds, each in the active or in the free list, linked    *)
(* through m_iNext.  One sound per client is reserved when the map starts  *)
(* and never expires; the others are inserted by weapons, doors, grenades  *)
(* and bodies, and a think function frees those that have expired.         *)
(*                                                                         *)
(* Clients are numbered as their reserved sounds are (ClientSoundIndex).   *)
(* Monsters link the sounds they hear through m_iNextAudible, a field of   *)
(* the sounds themselves, which all monsters share.                        *)
(* Times are relative to gpGlobals->time.  Where a sound is, how loud it   *)
(* is and which kinds a monster listens for are abstracted to the choice   *)
(* of the sounds it hears among those that have a type.                    *)
(***************************************************************************)
EXTENDS Integers

CONSTANTS MAX_WORLD_SOUNDS, \* sounds in the pool (64)
          maxClients,
          Monsters,         \* those followed, of all that listen
          MaxDuration,      \* bounds the durations of inserted sounds
          ThinkInterval     \* from one Think to the next (0.3 seconds)

SOUNDLIST_EMPTY == -1
SOUND_NEVER_EXPIRE == -1

Pool == 0 .. MAX_WORLD_SOUNDS - 1
Clients == 0 .. maxClients - 1   \* and their reserved sounds
Link == Pool \cup {SOUNDLIST_EMPTY}
Off == -1                        \* nextthink of an entity that never thinks

ASSUME PoolAssumption ==
    /\ MAX_WORLD_SOUNDS \in Nat /\ maxClients \in Nat
    /\ 0 < maxClients /\ maxClients < MAX_WORLD_SOUNDS
    /\ MaxDuration \in Nat /\ ThinkInterval \in Nat \ {0}

VARIABLES
    m_iActiveSound, m_iFreeSound, \* the heads of the two lists
    m_iNext,        \* Pool -> Link
    m_iType,        \* "none", or "sound" for any type a monster may hear
    expires,        \* m_flExpireTime - time, 0 when past; or never
    nextthink,      \* of the sound entity, relative to the time
    alive,          \* the clients that are in the game and alive
    m_iNextAudible, \* Pool -> Link: the list a monster built last
    m_iAudibleList, \* Monsters -> Link: head of the sounds it heard
    listened        \* the monsters that have called Listen

lists == <<m_iActiveSound, m_iFreeSound, m_iNext>>
hearing == <<m_iNextAudible, m_iAudibleList, listened>>
vars == <<lists, m_iType, expires, nextthink, alive, hearing>>

-----------------------------------------------------------------------------
(* Walking a list. *)

\* The links a walk from head follows, one for each step it could make before
\* it has been everywhere; a list that ends has SOUNDLIST_EMPTY last.
Links(next, head) ==
    LET link[k \in 0 .. MAX_WORLD_SOUNDS] ==
            IF k = 0 THEN head
            ELSE LET s == link[k - 1]
                 IN  IF s = SOUNDLIST_EMPTY THEN s ELSE next[s]
    IN  link

Ends(next, head) == Links(next, head)[MAX_WORLD_SOUNDS] = SOUNDLIST_EMPTY

\* The sounds a walk visits.
Walk(next, head) ==
    {Links(next, head)[k] : k \in 0 .. MAX_WORLD_SOUNDS - 1} \ {SOUNDLIST_EMPTY}

Active == Walk(m_iNext, m_iActiveSound)
Free == Walk(m_iNext, m_iFreeSound)

\* When the walk over the active list comes to a sound.
Place(s) ==
    CHOOSE k \in 0 .. MAX_WORLD_SOUNDS - 1 : Links(m_iNext, m_iActiveSound)[k] = s

-----------------------------------------------------------------------------
\* Initialize: all sounds are linked into the free list, then one sound per
\* client is taken from its top; the client that is reserved for last heads
\* the active list.  Monsters are allocated zeroed.
Init ==
    /\ m_iActiveSound = maxClients - 1
    /\ m_iFreeSound = maxClients
    /\ m_iNext = [s \in Pool |-> IF s \in Clients THEN s - 1
                                 ELSE IF s + 1 \in Pool THEN s + 1
                                 ELSE SOUNDLIST_EMPTY]
    /\ m_iType = [s \in Pool |-> "none"]
    /\ expires = [s \in Pool |->
                     IF s \in Clients THEN SOUND_NEVER_EXPIRE ELSE 0]
    /\ nextthink = ThinkInterval
    /\ alive = {}
    /\ m_iNextAudible = [s \in Pool |-> 0]
    /\ m_iAudibleList = [m \in Monsters |-> 0]
    /\ listened = {}

\* InsertSound: takes a sound off the free list (IAllocSound) and fills it in;
\* nothing when the free list is empty.
InsertSound(duration) ==
    /\ m_iFreeSound # SOUNDLIST_EMPTY
    /\ m_iActiveSound' = m_iFreeSound
    /\ m_iFreeSound' = m_iNext[m_iFreeSound]
    /\ m_iNext' = [m_iNext EXCEPT ![m_iFreeSound] = m_iActiveSound]
    /\ m_iType' = [m_iType EXCEPT ![m_iFreeSound] = "sound"]
    /\ expires' = [expires EXCEPT ![m_iFreeSound] = duration]
    /\ UNCHANGED <<nextthink, alive, hearing>>

-----------------------------------------------------------------------------
(* Think: one pass over the active list. *)

Expired(s) == expires[s] # SOUND_NEVER_EXPIRE /\ expires[s] <= 0

\* The state of the pass: the lists, the sound it looks at and the one before.
SweepStart ==
    [next |-> m_iNext, active |-> m_iActiveSound, free |-> m_iFreeSound,
     sound |-> m_iActiveSound, previous |-> SOUNDLIST_EMPTY]

\* FreeSound: unlinks the sound the pass looks at and puts it on top of the
\* free list; the pass goes on with the sound that followed it.
FreeSound(st) ==
    LET follow == st.next[st.sound]
        unlinked == IF st.previous = SOUNDLIST_EMPTY THEN st.next
                    ELSE [st.next EXCEPT ![st.previous] = follow]
    IN  [st EXCEPT !.next = [unlinked EXCEPT ![st.sound] = st.free],
                   !.active = IF st.previous = SOUNDLIST_EMPTY
                              THEN follow ELSE @,
                   !.free = st.sound,
                   !.sound = follow]

KeepSound(st) ==
    [st EXCEPT !.previous = st.sound, !.sound = st.next[st.sound]]

\* Mutant: a freed sound is remembered as the one before.
SweepRemembersFreed(st) ==
    IF st.sound = SOUNDLIST_EMPTY THEN st
    ELSE IF Expired(st.sound)
         THEN [FreeSound(st) EXCEPT !.previous = st.sound]
    ELSE KeepSound(st)

SweepStep(st) ==
    IF st.sound = SOUNDLIST_EMPTY THEN st
    ELSE IF Expired(st.sound) THEN FreeSound(st)
    ELSE KeepSound(st)

\* A pass ends within as many steps as there are sounds (PoolPartition).
Sweep ==
    LET after[k \in 0 .. MAX_WORLD_SOUNDS] ==
            IF k = 0 THEN SweepStart
            ELSE LET st == after[k - 1] IN SweepStep(st)
    IN  after[MAX_WORLD_SOUNDS]

\* Mutant: the think function does not ask for the next one.
AskNotAgain == nextthink' = Off

AskAgain == nextthink' = ThinkInterval

Think ==
    /\ nextthink = 0
    /\ AskAgain
    /\ LET end == Sweep
       IN  /\ m_iNext' = end.next
           /\ m_iActiveSound' = end.active
           /\ m_iFreeSound' = end.free
    /\ UNCHANGED <<m_iType, expires, alive, hearing>>

\* Time passes; the engine calls a think function that is due first.
Tick ==
    /\ nextthink # 0
    /\ nextthink' = IF nextthink = Off THEN Off ELSE nextthink - 1
    /\ expires' = [s \in Pool |-> IF expires[s] > 0 THEN expires[s] - 1
                                  ELSE expires[s]]
    /\ UNCHANGED <<lists, m_iType, alive, hearing>>

-----------------------------------------------------------------------------
(* The clients' reserved sounds. *)

\* A player joins or respawns.
Spawn(c) ==
    /\ c \notin alive
    /\ alive' = alive \cup {c}
    /\ UNCHANGED <<lists, m_iType, expires, nextthink, hearing>>

\* CSound::Reset: ends the list at the sound it resets.
Reset(s) ==
    /\ m_iType' = [m_iType EXCEPT ![s] = "none"]
    /\ m_iNext' = [m_iNext EXCEPT ![s] = SOUNDLIST_EMPTY]
    /\ UNCHANGED <<m_iActiveSound, m_iFreeSound>>

\* CBasePlayer::Killed.
Killed(c) ==
    /\ c \in alive
    /\ Reset(c)
    /\ alive' = alive \ {c}
    /\ UNCHANGED <<expires, nextthink, hearing>>

\* A player killed by its own fall in PostThink, which has checked that it is
\* alive and goes on to UpdatePlayerSound.
KilledInPostThink(c) ==
    /\ c \in alive
    /\ m_iNext' = [m_iNext EXCEPT ![c] = SOUNDLIST_EMPTY]
    /\ m_iType' = [m_iType EXCEPT ![c] = "sound"]
    /\ alive' = alive \ {c}
    /\ UNCHANGED <<m_iActiveSound, m_iFreeSound, expires, nextthink, hearing>>

\* ClientDisconnect, of a client that may be dead.
ClientDisconnect(c) ==
    /\ Reset(c)
    /\ alive' = alive \ {c}
    /\ UNCHANGED <<expires, nextthink, hearing>>

\* UpdatePlayerSound, from the PostThink of a player that is alive.
UpdatePlayerSound(c) ==
    /\ c \in alive
    /\ m_iType' = [m_iType EXCEPT ![c] = "sound"]
    /\ UNCHANGED <<lists, expires, nextthink, alive, hearing>>

-----------------------------------------------------------------------------
(* CBaseMonster::Listen and the walks over what it heard. *)

\* The sound of a set that comes last in the active list.
Last(sounds) ==
    IF sounds = {} THEN SOUNDLIST_EMPTY
    ELSE CHOOSE s \in sounds : \A t \in sounds : Place(t) <= Place(s)

\* Mutant: the list is not emptied first, the first sound leads to the old one.
AudibleLinksAppend(heard) ==
    [s \in Pool |->
        IF s \notin heard THEN m_iNextAudible[s]
        ELSE IF \A t \in heard : Place(s) <= Place(t)
             THEN m_iAudibleList[CHOOSE m \in Monsters : TRUE]
             ELSE Last({t \in heard : Place(t) < Place(s)})]

\* Each sound heard is linked to the one heard before it, the first to none.
AudibleLinks(heard) ==
    [s \in Pool |->
        IF s \notin heard THEN m_iNextAudible[s]
        ELSE Last({t \in heard : Place(t) < Place(s)})]

\* What a monster may hear.
Heard == SUBSET {s \in Active : m_iType[s] # "none"}

Listen(m) ==
    \E heard \in Heard :
        /\ m_iNextAudible' = AudibleLinks(heard)
        /\ m_iAudibleList' = [m_iAudibleList EXCEPT ![m] = Last(heard)]
        /\ listened' = listened \cup {m}
        /\ UNCHANGED <<lists, m_iType, expires, nextthink, alive>>

\* Listen, of a monster whose own state is not followed.
ListenOther ==
    \E heard \in Heard :
        /\ m_iNextAudible' = AudibleLinks(heard)
        /\ UNCHANGED <<lists, m_iType, expires, nextthink, alive,
                        m_iAudibleList, listened>>

\* The loop of PBestSound and PBestScent, which a monster may run in a later
\* think than the one it listened in.
AudibleWalkEnds(m) == Ends(m_iNextAudible, m_iAudibleList[m])

-----------------------------------------------------------------------------
Next ==
    \/ \E duration \in 0 .. MaxDuration : InsertSound(duration)
    \/ Think
    \/ Tick
    \/ \E c \in Clients :
           \/ Spawn(c) \/ Killed(c) \/ KilledInPostThink(c)
           \/ ClientDisconnect(c) \/ UpdatePlayerSound(c)
    \/ \E m \in Monsters : Listen(m)
    \/ ListenOther

Spec == Init /\ [][Next]_vars

\* Frames go on, and the engine calls the think functions that are due: only
\* Think moves nextthink away from 0, so its fairness is stated of nextthink.
FairSpec == Spec /\ WF_vars(Tick) /\ WF_nextthink(nextthink = 0 /\ AskAgain)

-----------------------------------------------------------------------------
TypeOK ==
    /\ m_iActiveSound \in Link /\ m_iFreeSound \in Link
    /\ m_iNext \in [Pool -> Link]
    /\ m_iType \in [Pool -> {"none", "sound"}]
    /\ expires \in [Pool -> {SOUND_NEVER_EXPIRE} \cup 0 .. MaxDuration]
    /\ nextthink \in 0 .. ThinkInterval
    /\ alive \subseteq Clients
    /\ m_iNextAudible \in [Pool -> Link]
    /\ m_iAudibleList \in [Monsters -> Link]
    /\ listened \subseteq Monsters

\* Every walk over a list ends and no sound is in both lists, although a
\* player's death cuts the active list and Think relinks it while it walks.
\* A client's reserved sound is never handed out for anything else, not even
\* after the active list has lost it, and no other sound is ever lost.
PoolPartition ==
    /\ Ends(m_iNext, m_iActiveSound)
    /\ Ends(m_iNext, m_iFreeSound)
    /\ Active \cap Free = {}
    /\ Clients \cap Free = {}
    /\ Pool \ Clients \subseteq Active \cup Free

\* The walk over the sounds a monster heard ends, although other monsters have
\* relinked some of them since and others have been freed and inserted anew.
AudibleListsEnd == \A m \in listened : AudibleWalkEnds(m)

\* A full pool recovers, whatever goes on being inserted.
FullPoolRecovers ==
    m_iFreeSound = SOUNDLIST_EMPTY ~> m_iFreeSound # SOUNDLIST_EMPTY

\* "Reset ... doesn't expire or unlink it" (soundent.cpp:39-41): a sound that
\* has not expired stays in the active list.
StaysLinked == [][\A s \in Active : Expired(s) \/ s \in Active']_vars
=============================================================================
