# MK: Half-Life — TLA+ models

A verification project for this repository, a Half-Life 1 mod built on
BugfixedHL-Rebased. It holds TLA+ modules translated from the source, TLC
configurations that check them on small instances and theorems that TLAPS
proves for every instance. Paths below are relative to the repository root.

## 1. The system

The repository builds two libraries that the GoldSrc engine loads: the client
(`src/game/client`, HUD, user interface, updater) and the server
(`src/game/server`, the game itself); both share `src/pm_shared` (player
movement), `src/game/shared` and `src/common`. Almost everything runs in the
engine's main thread, driven by frames, network messages and entity `Think`,
`Touch`, `Use` and `Blocked` callbacks. The exception is the self-updater, which
owns the program's only threads.

| Component | State it keeps | Operations | Talks to | What is hard | What makes it correct |
|---|---|---|---|---|---|
| HTTP client `client/updater/http_client` | request queue, response queue, shutdown and abort flags | `Get`, `RunFrame`, `AbortCurrentDownload`, `Shutdown`, worker loop | libcurl; callbacks into checker and installer | a worker thread, a condition variable, two flags read without the mutex | each request answered at most once, in order; no lost wake-up; an abort hits its target; `Shutdown` returns |
| Update checker `client/updater/update_checker` | in-progress and found flags, latest version, asset URL | `CheckForUpdates`, `OnDataLoaded`, `RunFrame` | HTTP client, notification dialog | a response arrives frames later; a release list of any shape | an update is only offered when it is newer; never two checks at once |
| Update installer `client/updater/update_installer` | status, in-process and abort flags, a future, the file lists | `StartUpdate`, `RunFrame`, `CancelInstallation`, `Shutdown`, async extraction, hashing and installation | HTTP client, dialogs, engine exit commands, file system | three threads, spin waits, cancellation at any point, failure of any file | files are only overwritten with consent; a cancel ends the session; the game cannot be quit in the middle of an installation |
| Version numbers `shared/CGameVersion` | major, minor, patch, tag | parse, compare | checker | pre-release order | the comparison is a total order |
| World sounds `server/soundent` | a pool of 64 sounds on two linked lists | alloc, free, insert, expire | monsters' `Listen`, players | index-linked lists shared by everyone | no sound is on both lists or lost; clients keep their reserved sound |
| Squads `server/squadmonster` | members, enemy, slot mask per leader | add, recruit, remove, occupy, vacate, `Killed` | schedules | stale references to dead leaders, slots kept across squads | a slot has one owner; members agree on their leader |
| Map entities `server/buttons`, `doors`, `triggers`, `subs` | position, toggle state and pending think of every mover, the inputs of multisources, the progress of managers | `Use`, `Touch`, `Blocked`, `TakeDamage`, thinks, `FireTargets` | each other, by name | calls are synchronous and re-enter the entity that made them; an entity has one think only | nothing waits for a think that is not set; multisources know their buttons; doors close, managers finish |
| Voice control `client/cl_voice_status`, `server/voice_gamemgr` | per slot the wish for voice, the ban mask and what has been sent; at the client what the server is believed to have | `UpdateServerState`, `UpdateMasks`, `vban`, `VModEnable`, two messages | the engine's listening table | both ends outlive the connection; bans get lost | when nothing more is said, everyone hears whom he should |
| Scripted sequences `server/scripted` | each script's monster, count of walkers and start time; each monster's script, state and schedule | `Use`, `CineThink`, `PossessEntity`, `CancelScript`, `SequenceDone`, script tasks | monsters' schedules, other scripts by name | monsters are hurt, die, disappear and are taken over between their thinks | script and monster know each other; scripts that wait for walkers start; every script ends |

How they interact. `CHud::Frame` calls the `RunFrame`
of the HTTP client, the checker and the installer, in this order. The checker and the
installer hand requests with callbacks to the client; response callbacks run in
the main thread under the client's mutex, write callbacks run in the worker
thread. A successful check opens a dialog whose button starts the installer.
The installer runs one `std::async` task at a time for extracting, hashing and
copying, and disables the engine's exit commands while it copies.
On the server, players and other noise makers write to the sound list, monsters
read it when they think, and squads are formed, consulted and left in the think
and death functions of their members. Map entities fire one another by name, at
once or after a delay, and players, monsters and scripts fire them; scripts take
monsters out of their schedules and give them back. The voice managers talk
to each other by console commands and user messages.

Parts that are not modelled (each is a component in PROJECT.json with its
sources):

| Part | Why not |
|---|---|
| HUD elements, user interface panels | event handlers and drawing, hardly any shared state; the calls of `CHud::Frame` and `CHud::Shutdown` to the updater and the updater's dialogs are in `Updater` |
| Server message hooks, player status | parse engine messages; the status request is on the plan |
| Demo and log names | formatting and file I/O |
| Input, view, prediction, player movement | floating point, out of TLC's reach |
| Schedules, tasks, navigation | a large interpreter of task tables with geometric decisions; `SoundEnt` and `Squad` take what it decides as free choices |
| Flocks | on the plan |
| Platforms and trains | movers like the doors, along paths whose length is geometry |
| Map rules | scores, texts and equipment; no steps of their own |
| Monster makers, talking monsters | sit on top of the schedule interpreter; monster makers appear as creators of monsters |
| Game rules, map cycle, teams | intermission and map cycle are on the plan; the rest is scores and spawn points |
| Players, weapons, items | damage and physics; what a player does to the sound list is in `SoundEnt` |
| Save and restore | serialises every entity through offset tables |
| AMX Mod X module, console variables, message parsing | stateless forwarding, static registration, byte buffers |
| Vendored code | third party |

## 2. The plan

Order: what can lose a user's work or hang the game first, then the server's
shared data structures.

1. `HttpClient`, `RequestChannel`: the worker thread, and what it promises.
2. `Updater`: the client with the checker and the installer, all threads.
3. `UpdateFiles`: what an update does to the files.
4. `GameVersion`, `UpdateChecker`: which release is offered and installed.
5. `SoundEnt`: the world's sound list.
6. `Squad`: squads and attack slots.
7. Proofs of 1 to 6 and 8 to 10.
8. `MapEntities`: the entities map authors wire together.
9. `VoiceMasks`: the protocol of the voice managers.
10. `ScriptedSequences`: scripts and the monsters they possess.

All of these are done. Left, in this order:

- squads saved and restored (slots without the mask), as an action of `Squad`;
- damaged metadata files and several updates in one game in `UpdateFiles`;
- intermission and the map cycle; flocks; platforms and trains; the status
  request of the server message hooks.

Composition: `Updater` EXTENDS `HttpClient` and joins its actions with the
callbacks of the checker and the installer. `HttpClient` implements
`RequestChannel` by a refinement mapping. `UpdateChecker` EXTENDS `GameVersion`.
`UpdateFiles` opens up what `Updater` calls the "hash" and "install" tasks, and
`UpdateChecker` what it calls `OnDataLoaded`. The server's modules stand alone:
in the code, too, they share nothing but the monsters and the uses that come from
outside, which each module lets happen at any time. `VoiceMasks` holds both ends of
its protocol. `X`'s proofs are in
`XProofs`, its instance for TLC in `MCX`; those of `HttpClient` open `UpdaterProofs`, which builds on them.

## 3. The modules and the code

Variables and actions have the names of the members and functions they stand
for. Operators under a comment "Mutant" are variants of the definition that
follows them, with a mistake; no specification uses them: they show that a
property notices the mistake.

**HttpClient** (`http_client.cpp`, `http_client.h`). `worker` is the place in
`WorkerThreadFunc`: about to evaluate the wait's predicate (`check`), blocked
in the condition variable (`asleep`), between dequeueing and
`curl_easy_perform` (`prepare`), inside it (`perform`), about to queue the
response (`respond`). `main` is the place in `RunFrame` or `Shutdown`. A critical
section is one step, except that of `RunFrame`, which holds the mutex while it
runs callbacks. The flags `m_bShutdown` and `m_bAbortCurrentDownload` are read by
the progress callback without the mutex (`WorkerAbort`). `Get` is not called from
inside a callback: `m_Mutex` is not
recursive, so a callback that called `Get` would block itself; none does.

**RequestChannel** is the abstract specification: a sequence of pending
requests, answered from its head, at most once, until it is closed.

**Updater** (`update_checker.cpp`, `update_installer.cpp`, `update_dialogs.cpp`,
`engine_patches.cpp`). Adds the checker's `m_bInProgress` and the offer on
screen, the installer's flags, `m_Status` and future, the zip file with
whose bytes are in it, the exit commands and `quitting`. `tasks` has the task of
the future and one that a new one replaces, because assigning to a future blocks until
the old task has ended (`call = "replace"`). A call of the main thread that
waits, or that can be observed halfway, is several steps: `call` says where it is
(`spin`: `CancelInstallation` and `Shutdown` wait for `m_bAbortRequested` to be
reset; `cleanUp`; `finish`; `waitInstall`: `Shutdown` runs `RunFrame` until the
installation has ended). A task's file work is one step with an outcome; its last
look at the abort flag is another. The write callback is two steps,
`WriteCheck` and `WriteData`, since the main thread can cancel in between.

**UpdateFiles** (`ValidateUpdateFiles`, `ShowNextReplaceDialog`,
`BeginFileUpdating`). A file's content is what its hash tells apart: a release's,
the user's, a broken copy, none. Each update says anew which files it leaves to the
user (`metaIsUserModifiable`). `CopyMetadata` comes before the `CopyFile`s, as in
the code; each may fail or be the last before the game is killed (`MetadataFails`,
`CopyFails`). Copies happen in any order: the
code's is that of the file names, which the model does not have, and of the questions.

**UpdateChecker** (`OnDataLoaded` and what follows), **GameVersion**
(`CGameVersion.cpp`). The loop over the releases is described by the set of
releases it visits before its `break`, of which it takes the first that is no
draft as the latest; the assignments happen before the assets are read, which may
throw (`AssetsThrow`; a URL that was chosen before stays), and reading a malformed release throws out of the loop
(`LoadThrows`). A tag is its rank in the order of `strcmp`.

**SoundEnt** (`soundent.cpp`, the calls in `player.cpp`, `client.cpp`,
`monsters.cpp`). The pool with its two lists linked through `m_iNext`, `Think`
as the pass it is, `CSound::Reset`, and `Listen`, which threads what a monster
hears through the sounds' `m_iNextAudible`. One monster is followed; `ListenOther`
stands for all others. What a monster hears is any selection of the
active sounds that have a type.

**Squad** (`squadmonster.cpp`, `squadmonster.h`, calls in `monsters.cpp`,
`hgrunt.cpp`, `schedule.cpp`). `ChangeSchedule` is one think that changes the
schedule: `ScheduleChange` vacates the slot, `GetIdealState` may tell the squad of
an enemy, `GetSchedule` may take a slot of one kind. `SetScheduleTask` is
the task that changes a schedule without `ScheduleChange`. `SquadRemove` is
translated with what its loop compares. `Recruits` are any of those the code's
search may find, up to `MAX_SQUAD_MEMBERS`. `Remove` clears every `EHANDLE` to
the entity. `disturbed` records the leaders for which the code gives up
on slots: those that recruited a monster still holding the slot of an earlier
squad, or lost a living member that was removed without being killed.

**MapEntities** (`buttons.cpp`, `doors.cpp`, `triggers.cpp`, `subs.cpp`). A map is
a record of the entities' keys and of their edict numbers, in whose order the engine finds
them (`InOrder`). The call stack of C++ is `stack`, the sequence of calls still to be made: `Call` makes
the first of them and puts the calls that this one makes before the rest, so that an
entity is seen half way through its own function, as in the code. The engine calls
a think or a player's use, touch or shot only when `stack` is empty. Positions are
"low", "between" and "high"; a `LinearMove` to where the mover already is calls its
move-done function at once. `ManagerThink` puts a `Fire` for each target that is due on the stack, which
looks the entities of that name up when its turn has come. Every delay is any time, hence pending thinks happen in
any order. A `DelayedUse` or a clone of a threaded manager is an entity of its
own (`delayed`, `clones`). As a caller the former is a `Stranger`, which no multisource knows, the latter a
number, known to a multisource that registered while the clone ran; a clone is killed by its manager's name. `Realign` is
what `Blocked` does to a namesake when both doors rest.

**VoiceMasks** (`cl_voice_status.cpp`, `voice_gamemgr.cpp`). One slot is followed with
all clients that use it in turn; the server treats the slots independently of each
other. `toClient` and `toServer` are reliable and ordered; `vban` loses messages
(`LoseVBan`). The client's variables survive `Disconnect`, the server's survive
`ChangeLevel`, and `RestartServer` resets the server's. `late` says that
`m_LastUpdateServerState` lies ahead of the clock of the connection. `Connect`
stands for the engine's connection and `ClientPutInServer`, and names of players
reach clients at once.

**ScriptedSequences** (`scripted.cpp`, `schedule.cpp`, `combat.cpp`). The actions on
scripts are `Use`, `CineThink` (it finds a monster or cancels the scripts of its name)
and `SUB_Remove`; those of monsters are the parts of their think that
concern scripts, in the order the tasks come: `GetSchedule`, `EnableScript` (the
mark is reached), `StartSequence`, `PlayScript`, or `ExitScriptedSequence` when a
task fails or damage breaks the script. `m_MonsterState` and `m_IdealMonsterState`
are apart until the monster thinks; that is when it can be killed, cancelled or
possessed again. A monster in a script is not killed by what hurts it (`TakeDamage`), but a killtarget may remove it (`Remove`). `disturbed` records the names of which a walker was cut short.

## 4. What is checked

In all there are twelve runs. Every run that passes explores the whole state space of its instance.

| Run | Instance | What it shows |
|---|---|---|
| `http_client` | three requests: one answered, one in the worker's hands and one queued at the same time; no symmetry, since liveness is checked | `NoLostWakeup`; `AbortHitsItsTarget`: an abort never hits a later transfer; `ChannelSpec`: the client implements `RequestChannel`; `ShutdownCompletes`, `EveryRequestAnswered` |
| `updater` | two checks, two updates: the smallest number with one update after another, cancelled or failed, and an offer under an update | `RequestsDoNotOverlap` (sessions and checks), `PhasesAgree` (flags, status and exit commands), `CleanUpIsSafe`, `ExtractsOwnDownload`, `InstallationEnds`, `QuitAfterInstallation` |
| `updater_abort` | the same | **violated** `AbortWaitEnds`: a task that took its last look at the flag just before it was set never resets it; the main thread spins for ever |
| `files` | an ordinary file, a library that is moved away first, a file that each release may leave to the user or not; two releases, with or without each file | `EditsNeedConsent`, whatever fails; `UpdatedUnlessFailed` and `OnlyAsksAboutChangedFiles` as long as no copy has failed |
| `files_retry` | the same | **violated** `SuccessMeansUpdated`: after a failed installation the new metadata is in place, so the retry skips the ordinary files that were never copied, and reports success |
| `checker` | lists of at most two releases around version 1.2.0: older, equal, newer, prereleases, drafts, bad tags, malformed, with and without a platform's asset | `FindsNewest`, `NothingMissed`, `InstallsWhatWasOffered` |
| `sounds` | two clients, four sounds (two to insert), one followed monster, durations 0 and 1 | `PoolPartition`: the lists are apart, reserved sounds are never free and only they are ever lost; `AudibleListsEnd`, `FullPoolRecovers` |
| `sound_reset` | the same | **violated** `StaysLinked`: resetting the sound of a client that died or left ends the active list there, and the reserved sounds of the clients with lower numbers are lost to all monsters |
| `squad` | three monsters in all combinations of names, one enemy, one engage slot and two grenade slots | `SquadsAgree`, `OneHolder`, `LeaderDeathDisbands` |
| `map_entities` | eight small maps of two buttons, two doors, a multisource, a manager, a counter and a trigger; four things that players do | `NothingStranded`, `InputsMatch`; `MotionEnds`: doors that return close, managers finish |
| `voice` | two clients that use the slot in turn, two others of different teams for one more slot; five changes by users, administrator and server, two messages on their way | `SettledMeansRight`; `Settles`: the exchange ends for clients whose user wants voice |
| `scripts` | two monsters, three scripts in four arrangements: a meeting, one with a script that moves its monster at once, a guard with an idle animation and a second script of its name without a monster, a parade; two uses from outside | `LinksAgree`, `WaitsForWalkers`, `EveryScriptEnds` |

Why the bounds are enough. The HTTP client tells requests apart only by their
place in the queues, and three fill every place. The updater's flags remember one
session; a second one meets the leftovers of the first, a third would meet
leftovers of the same kinds. Files do not influence one another, except through
the failure of a copy, for which one copied and one failing file are needed;
`IsSpecialFile` matters to platform files only, the only ones that are in use
while the game runs. The loop of the checker looks at one release after another
and stops, so two show a release before and after the latest; theorems
extend this to lists of any length. Two insertable sounds have a middle and an end
beside the reserved ones at the list's tail; two clients show the loss of one by the
death of the other. Three monsters are a leader, a follower and one more that
is recruited by either or has left; the theorems extend this to any number. One
enemy is enough to split a squad, because a leader without an enemy
differs from a member with one. Two buttons fill a multisource and two doors a name;
a counter of two has a first and a last use; four inputs open a door, block it and use it
again on its way. A slot's earlier client, its present one and one more player
make every kind of stale bit, and two messages on their way every reordering between a
mask and a ban. Two monsters are a walker and the partner that waits for it; a third
script takes over what the first two released.

`squad` is symmetric in
the monsters (no liveness is checked there). It does not check for deadlock, since the
behaviour really ends when all monsters have been removed; nor do
`map_entities`, `voice` and `scripts`, in which nothing is left to do when players and
users have used up their bound. In the
other specifications a deadlock would be reported; `HttpClient` and `Updater`
have an explicit step of the program that has ended.

The properties of `updater` that mention `rechecked` are about games in which
nobody types `update_check` while an offer is shown or an update runs: with
it, a second update can be offered while the first runs, and be started as soon as that one is cancelled, with
its transfer still under way (section 7). The restriction of `OneHolder` to leaders that are not `disturbed`, and of
`SquadsAgree` and `LeaderDeathDisbands` to living followers, are limits of what
the code achieves, see section 7.

## 5. Fairness

- `HttpClient`: `ThreadFairness` says that the operating system runs the worker,
  that curl calls the progress callback of a transfer again and again (it does so
  at least once per second, also when no data arrives), and that `RunFrame`'s
  loop and the join go on once they have begun. The end of a transfer by itself is
  **not** assumed. `NetFairness`, which assumes it, is the premise of
  `EveryRequestAnswered` only; it has strong fairness for taking the mutex, because
  each frame holds it for a moment.
- `Updater`: `UFairness` is the same for its threads: tasks end, because archives
  and file lists are finite; calls that the main thread is in go on;
  `CHud::Shutdown` goes on from the installer to the client. `FrameFairness`:
  frames poll the installer again and again, though never while callbacks
  run, hence strong fairness. Nothing is assumed of the user or of the network.
- `SoundEnt`: time passes and a think function that is due is called. The fairness
  of `Think` is stated of `nextthink` alone, which only `Think` moves away from 0.
- `MapEntities`: a call goes on, and the engine calls the thinks that are set. Strong
  fairness is needed because a think of a door or a manager cannot happen while a call is in
  progress; nothing is assumed of the players or of buttons and triggers.
- `VoiceMasks`: both ends run frames, and the reliable channel delivers. `vban` is strongly fair:
  of the bans a client sends again and again some arrive. Nothing makes users stop
  but their bound.
- `ScriptedSequences`: each monster thinks; one weak fairness condition for all parts of the
  think, since they exclude each other. It includes that a walk ends, with success
  (`EnableScript`) or otherwise (`ExitScriptedSequence`, which disables it), that animations end, and
  that a script's start time, if it is not the far one, is reached. Scripts are not assumed to think.
- `UpdateFiles`, `UpdateChecker` and `Squad` have no fairness: no liveness property
  is stated of them.

## 6. What is proved

TLAPS proves these for all values of the constants that the named assumptions
allow (`NoRequestAssumption`: the null request is no request; `FilesAssumption`:
special files are platform files, those that a release may leave to the user are files, and the kinds of content differ;
`CheckerAssumption`; `UpdaterAssumption`: list requests are requests;
`PoolAssumption`: there are more sounds than clients, durations are natural; `VoiceAssumption`: the player of
this client has a slot, no player has none; `BoundsAssumption`: the bounds are natural;
`ScriptsAssumption`, `MonstersAssumption` and `MapsAssumption`: null entities and the
empty name are apart from the others, there are finitely many monsters, and a map names its scripts;
of `MapEntities`: `NamesAssumption`, the empty key is no name and a stranger no entity; `ClonesAssumption`, neither is a number; `ClassesAssumption`, an
entity is of one class; `MapsAssumption`, a map has finitely many entities with different numbers, and its keys are names or
empty; `CountAssumption` and `InputsAssumption`, a count is positive, the bound natural; `SquadAssumption`: slots are numbers, the marks for no slot and a
split squad are not slots, a squad has room for its leader).

**UpdaterProofs.** Of the client: `IInv` = `TypeOK`, `Control`, `NoLostWakeup`,
`AbortHitsItsTarget`. `Control` makes it inductive: the worker holds a request
exactly in the states where it works on one, and the shutdown flag is up exactly
when the main thread joins or has stopped. From it follow `TypeCorrect`, `WakeupNotLost`,
`AbortOnTarget` and `ImplementsChannel`: under the mapping *pending* = responses
\o the worker's request \o request queue, `Get` is a `Submit`, a callback an `Answer`,
`ShutdownBegin` closes, and every other step is a stutter. Lemmas about heads,
tails and concatenations carry the sequences.

Of the updater, whose every step is one of the client or leaves it alone (`HttpStep`):
`UInv` = `IInv`, `UTypeOK`, `Bookkeeping` (the requests without an
answer are those in the client's queues and hands, each once), `CheckKnown` (the checker is in progress
exactly when one list is under way), `Flags` and `Peace`: as long as no second check was made, a check, an offer
and an update exclude each other, at most one task runs, that of the status, and the exit commands
are stubs exactly while installing. The condition is needed because `update_check` during an update starts over
with a new session. Hence `UpdaterTypeCorrect`, `NoRequestsOverlap`, `PhasesInStep`,
`CleanUpSafe`, `OwnDownload`.

**UpdateFilesProofs.** `TypeCorrect`. `ConsentInv`: the lists are empty outside an
update, a listed file that the user edited was agreed to, is still to be asked
about or is a platform file, and no existing file that the update leaves to the user is listed;
hence `ConsentNeeded` and `ModifiableUntouched`, which hold with failing
copies and kills. `UpdateInv`: as long as nothing failed, what differs from the
installed metadata was edited, was left to the user or is unknown to it, what an update leaves out
may differ, and what it leaves to the user and differs from it counts as theirs once its metadata is in place (`KeptIsTheirs`);
hence `UpdateComplete` and `AsksAboutChangedFiles`.

**UpdateCheckerProofs.** `CompareAntisymmetric`, `CompareEqual` and
`NotNewerTransitive`: the comparison of versions is a total order. `CheckInv`: a
URL is of the latest version, and without a second check an offer is the
latest version and newer than the game; hence `URLOfLatest`, `NewestFound` (for any
sorted list of any length) and `OfferedIsInstalled`. `NewerIsVisited`: transitivity makes the
loop's early end harmless for a sorted list; hence `NothingNewerMissed`.

**SquadProofs.** `SquadInv` = `TypeOK`, `References` (leaders,
followers and listed members exist), `SquadsAgree`, `SlotsKept` (outside
disturbed squads a held slot is marked in the leader's mask, and held once).
`SlotsKept` is needed because taking a free slot excludes others only if the slots
of others are marked. Lemmas follow the code: giving a slot up (`GiveUp`), taking
one (`Take`, `TakeSplit`), leaving (`Leave`), one lemma per action that touches squads;
`LeastSlot` shows that the search for the lowest free bit finds one.
Hence `TypeCorrect`, `Agreement`, `SlotExclusion`, `Disbanding`.

**ScriptedSequencesProofs.** `LinkInv` = `LinkTypes`, `LinksAgree`, `ThinksAlone` (a script thinks only
without a monster), `Commanded` (the script state is ordered by a script and leaves with it). `ThinksAlone`
is needed because a script that removes itself would leave its monster behind, and a search
would take a second one. Hence `LinksCorrect` and `TasksHaveScript`: the script tasks, which use `m_pCine`
without a test, always find a script that knows the monster.

`WalkInv` = `LinkInv`, `CountTypes`, `Phases` (a monster walks exactly if its
script has it walk, until it plays), `CountedIfWalking` (only a monster that goes on with the schedule of a
cancelled script counts down what it never counted up, and its name is then `disturbed`), `WaitsForWalkers`.
One lemma per action follows the set of walkers of each name, and the cardinality theorems of the library
turn one walker more or less into `m_iDelay` up or down. Hence `WalkersCounted`, for any map.
`Uncounted` adds that only a counter of a disturbed name goes below zero, which with `WaitsForWalkers` gives
`TypeCorrect`.

**VoiceMasksProofs.** `VInv` = `TypeOK`, `SlotUse` (without a connection nothing is on its way), `WishKnown` (what
the server is believed to know of the client's wish is what it was told last, or has forgotten
since), `BansKnown` (the last mask on its way, or what the client made of it, holds the bans the server believes it
has sent). Hence `TypeCorrect` and `SettledIsRight`.

**SoundEntProofs.** `SInv` = `TypeOK`, `NeverExpire`, `PoolInv`, `HeardInv`. `PoolInv`: there are ranks
by which the active and the free list are sorted, the lists have nothing in common, hold all but clients' sounds,
and a client's sound ranks after every other in the active list, so that
only clients' sounds are lost when the list is cut. `HeardInv` ranks the sounds that
monsters have heard along `m_iNextAudible`. A walk of more steps than there are sounds would visit one
twice, which ranks exclude. The walks are recursive functions: the library's theorems on recursion
take operators, so an induction over sets of numbers, from `WFMin`, stands in for them.
Hence `TypeCorrect`, `ListsPartitionPool`, `AudibleWalksEnd`, `PassesEnd`.

**MapEntitiesProofs.** `MapInv` = `TypeOK`, `CallTypes`, `Linked`. The property is about the times when no call is
in progress, the invariant about every moment, so it says which call on the stack excuses an
entity that is half way through its function. `Linked` consists of `Shallow` (a move-done call and the second half of a
button's use run at once: nobody sees the state before them), `MoverOK` (a mover that moves has its think or its move-done
call), `ButtonOK` (a button that is pushed or released is where its state says), `FiringOK` (a manager that takes no
use has its think or its `fired` call), `CountOK`, `MembersKnown` (a multisource has registered each entity once, all wired to it)
and `InputOK`: what a multisource holds of a plain button is what the
button shows, unless the button's one use of it is still on the stack, below whatever the first targets
set off. That there is at most one such use is what needs `Shallow`: a button that comes
back cannot arrive before the uses of its last arrival are made.
`StepLinks` is the frame rule: a step of one entity that makes the calls `frames` keeps what holds of all
others, so each action has one lemma (`...Links`) about its own entity. `Registered` shows that a multisource knows each
member once, in whatever order the engine finds the clones. `OrderLists` shows by counting (ranks
that differ fill 1 to n) that `InOrder` lists each entity once, `UseAllCalls`, `TurnAllCalls` and `FireDueCalls` what the helpers put on
the stack; the `...Types` lemmas carry `TypeOK`. Hence `TypeCorrect`, `NothingEverStranded` and `SourcesKnow`, for every map.

Only model-checked: all liveness (`ShutdownCompletes`, `MotionEnds` and the like), since fairness and ENABLED are beyond
the prover.

## 7. Behaviour worth knowing

Besides the violated properties of section 4 the models contain, and the
code does, the following.

- `WorkerPrepare` clears the abort flag right before `curl_easy_perform`, with an abort
  meant for that transfer, which then runs to its end, although `http_client.h:129`
  speaks of aborting the current download.
- The write callback of a cancelled download that is still under way tests the flags of
  the session that is there now: if an update was started meanwhile through `update_check`,
  the old download writes into the new zip file.
- `OccupySlot` overwrites `m_iMySlot` (`squadmonster.cpp:88`). A grunt that tosses a grenade
  and asks for cover through `TASK_SET_SCHEDULE` (`hgrunt.cpp:1459`, `schedule.cpp:661`) takes
  a second grenade slot, and the first stays marked until the squad is disbanded.

- `src/src/game/client/engine_patches.cpp:130` tests the saved handler of `_restart` the wrong way
  round: after an installation the command stays a stub, although
  `engine_patches.h:108` says "Reenables commands disabled with
  DisableExitCommands."
- `CUpdateInstaller::Shutdown` waits for the abort flag also when the task has
  ended already and only its result waits for the next frame; then nobody
  resets the flag.
- A later offer replaces the URL behind an offer on screen; `CleanUp` and
  `StartUpdate` assert conditions that `update_check` during an update can break
  (`update_installer.cpp:239`).
- A platform file that is missing is asked about like an edited one; the
  comment at `update_installer.cpp:1141` says platform files are always
  replaced. Files that an earlier release left and the installed one does not
  list are reported as edited.
- When this platform's asset is missing, the other platform's may be taken
  (`update_checker.cpp:268`).
- A player killed by its fall inside `PostThink` has its sound reset and set
  again in the same call and stays audible while dead (`player.cpp:3216`).
- `m_iNextAudible` of a fresh sound and `m_iAudibleList` of a fresh monster are
  0, so a walk before the first `Listen` would go round sound 0 for ever;
  `AudibleListsEnd` is about monsters that have listened.
- `SquadRemove` looks for the leader in the leader's list instead of the member
  (`squadmonster.cpp:168`), so dead members stay listed: they are counted, they can
  split the enemy of the squad, and are disbanded with it even if they joined
  another one since. With four monsters, a corpse that led others and is
  recruited by name can make `SquadRemove` take the wrong entry out; therefore
  the properties speak of the living.
- Dying and dead monsters are recruited, `IsAlive` being true of the dying; one
  killed before `StartMonster` leads a squad.
- When a leader dies its followers keep `m_iMySlot`, and clear that bit in the mask
  of the next squad that recruits them (`disturbed`). The comment at
  `squadmonster.cpp:139` speaks of promoting a follower, the code disbands.
- A multisource that is used by a caller it has not registered, a `DelayedUse` or a clone
  made after it registered, toggles its last input: the test in `buttons.cpp:177` is
  never true, though the comment at line 181 counts on it. One that is used in the
  0.1 s before it registers misses that use (`disturbed`).
- A button whose master locks between the push and the arrival stays pushed half way
  without a think; a counter that runs out while its master is locked never fires and
  counts below zero. `NothingStranded` names both. A touch button that is shot
  loses its touch function even if it is locked (`buttons.cpp:428`).
- A mute may be undone for a moment by an older ban that is still on its way; the two ends
  notice. `ChangeLevel` resets what the server has sent (`voice_gamemgr.cpp:136`) but not what the client
  believes: a client without voice whose user unmutes somebody right after it repeats its ban
  every second, because the server has no news to answer with. The client filters chat by its own bans (`chat.cpp:1291`), the server by its mask.
- A monster that is hurt, fails or dies on its way to a mark is never counted down
  (`scripted.cpp:713`): scripts of that name wait for ever, which is why `WaitsForWalkers` and
  `EveryScriptEnds` leave out the names that are `disturbed`.
- A script whose monster is absent cancels all scripts of its name each second
  (`CineThinkCancels`). A monster that is possessed and has not thought is not cancelled, since
  its state is not SCRIPT yet (`scripted.cpp:671`).
- A monster killed before it has thought about its possession keeps its script. One that was
  killed and has not thought is alive for `CanPlaySequence`: it plays, is given back as if it
  lived and is never killed again, having `bits_MEMORY_KILLED` (`combat.cpp:578`). Monsters
  that die in a script never call `Killed`, so their makers are not told.
- A saved game has the members' slots but not the leader's mask
  (`squadmonster.cpp:35`); saved games are not modelled.

## 8. Limits of the models

`Updater` does not look into files and `UpdateFiles` not at threads; nothing
edits files while an update runs. The flags are interleaved
sequentially, as `std::atomic` with its default order does; `m_Status`, which a
task and the main thread both write, is a plain variable in the code and is
taken to be read and written whole. `SoundEnt` leaves out positions and
volumes, and the `Initialize` of a map with more clients than sounds. `Squad` has
monsters of one class and the slots of human grunts; other squad monsters ask for
slots in `GetSchedule` only, which is `ChangeSchedule`. `MapEntities` leaves out the kinds of
use (on, off), rotating movers and relays, and a door's sound is only whether it plays.
`ScriptedSequences` has monsters that can be interrupted at any time, no AI scripts and
no talking monsters, whose `StartFollowing` leaves a script by its own rules; ALERT
counts as IDLE, as it does for scripts that name their monster. Scripts are not removed
by killtargets. Each monster is spawned once;
an index of an entity that is used again is a new monster.
