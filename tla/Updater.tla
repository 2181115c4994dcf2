------------------------------ MODULE Updater ------------------------------
(***************************************************************************)
(* The self-updater: CHttpClient with its two users, CUpdateChecker, which *)
(* downloads the list of releases and offers the newest one in a dialog,   *)
(* and CUpdateInstaller, which downloads the zip file of the accepted      *)
(* release, extracts it, hashes it, asks about edited files and installs   *)
(* it (client/updater/update_checker.cpp, update_installer.cpp,            *)
(* update_dialogs.cpp).                                                    *)
(*                                                                         *)
(* The main thread, HttpClient's worker and the std::async tasks of the    *)
(* installer interleave; what the tasks do to files is left to UpdateFiles *)
(* and how a release is chosen to UpdateChecker.                           *)
(***************************************************************************)
EXTENDS HttpClient, FiniteSets

CONSTANTS
    ListRequest,    \* the requests for the list of releases
    NoTask          \* there is no async task

ASSUME UpdaterAssumption == ListRequest \subseteq Request

ZipRequest == Request \ ListRequest

VARIABLES
    m_bInProgress,      \* CUpdateChecker: the list is being downloaded
    offer,              \* CUpdateNotificationDialog is on screen
    m_bIsInProcess,
    m_bAbortRequested,
    m_Status,
    tasks,              \* the task of m_AsyncResult and one it replaced
    call,               \* what the main thread is doing inside the installer
    session,            \* history: the zip request of the last update
    zipOpen,            \* m_ZipDownloadFile.is_open()
    zipBytes,           \* history: whose bytes the zip file holds
    chunk,              \* where the zip request's write callback is
    exitCmd,            \* CEnginePatches: the handlers of "quit" and
                        \* "_restart"; a "stub" has the engine's saved
    quitting,           \* CHud::Shutdown has begun
    rechecked           \* history: update_check has been typed while an offer
                        \* was on screen or an update in process

updater == <<m_bInProgress, offer, m_bIsInProcess, m_bAbortRequested,
             m_Status, tasks, call, session, zipOpen, zipBytes, chunk,
             exitCmd, quitting, rechecked>>

vars == <<http, updater>>

Status == {"None", "Downloading", "Extracting", "Hashing", "Confirming",
           "Installing"}

Task == [kind : {"extract", "hash", "install"},
         pc   : {"work", "return", "done"},
         ok   : BOOLEAN]

Call ==
    { "none",
      "spin",         \* waits for m_bAbortRequested to be reset
      "replace",      \* the old task's future blocks the assignment
      "waitInstall",  \* Shutdown runs RunFrame until the update has ended
      "cleanUp",      \* about to run CleanUp
      "finish" }      \* about to clear m_bIsInProcess

UTypeOK ==
    /\ TypeOK
    /\ m_bInProgress \in BOOLEAN
    /\ offer \in BOOLEAN
    /\ m_bIsInProcess \in BOOLEAN
    /\ m_bAbortRequested \in BOOLEAN
    /\ m_Status \in Status
    /\ tasks \in [{"current", "old"} -> Task \cup {NoTask}]
    /\ call \in Call
    /\ session \in ZipRequest \cup {NoRequest}
    /\ zipOpen \in BOOLEAN
    /\ zipBytes \subseteq ZipRequest
    /\ chunk \in {"none", "checked", "written", "refused"}
    /\ exitCmd \in [{"quit", "_restart"} -> {"engine", "stub", "null"}]
    /\ quitting \in BOOLEAN
    /\ rechecked \in BOOLEAN

-----------------------------------------------------------------------------
UInit ==
    /\ Init
    /\ m_bInProgress = FALSE
    /\ offer = FALSE
    /\ m_bIsInProcess = FALSE
    /\ m_bAbortRequested = FALSE
    /\ m_Status = "None"
    /\ tasks = [i \in {"current", "old"} |-> NoTask]
    /\ call = "none"
    /\ session = NoRequest
    /\ zipOpen = FALSE
    /\ zipBytes = {}
    /\ chunk = "none"
    /\ exitCmd = [c \in {"quit", "_restart"} |-> "engine"]
    /\ quitting = FALSE
    /\ rechecked = FALSE

\* The main thread is back in the engine and may run commands and frames.
Idle == main = "idle" /\ call = "none" /\ ~quitting

Running(i) == tasks[i] # NoTask /\ tasks[i].pc # "done"

FutureReady == tasks["current"] # NoTask /\ tasks["current"].pc = "done"

\* m_AsyncResult = std::async(...): the new task starts, then the assignment
\* waits for the task it replaces.
StartTask(kind) ==
    /\ tasks' = [current |-> [kind |-> kind, pc |-> "work", ok |-> FALSE],
                 old |-> IF Running("current") THEN tasks["current"] ELSE NoTask]
    /\ call' = IF Running("current") THEN "replace" ELSE "none"

\* ErrorOccured sets m_Status and calls CleanUp, then clears m_bIsInProcess.
ErrorOccured ==
    /\ m_Status' = "None"
    /\ call' = "cleanUp"

-----------------------------------------------------------------------------
(* CUpdateChecker. *)

CheckForUpdates(r) ==
    /\ Idle
    /\ r \in ListRequest
    /\ ~m_bInProgress
    /\ rechecked' = (rechecked \/ offer \/ m_bIsInProcess)
    /\ Get(r)
    /\ m_bInProgress' = TRUE
    /\ UNCHANGED <<offer, m_bIsInProcess, m_bAbortRequested, m_Status, tasks,
                   call, session, zipOpen, zipBytes, chunk, exitCmd, quitting>>

\* A list that was loaded and holds a newer release raises the offer.
OnDataLoaded ==
    /\ call = "none"
    /\ FrameCallback
    /\ Head(m_ResponseQueue).req \in ListRequest
    /\ m_bInProgress' = FALSE
    /\ \/ UNCHANGED offer
       \/ Head(m_ResponseQueue).ok /\ offer' = TRUE
    /\ UNCHANGED <<m_bIsInProcess, m_bAbortRequested, m_Status, tasks, call,
                   session, zipOpen, zipBytes, chunk, exitCmd, quitting,
                   rechecked>>

CloseOffer ==
    /\ Idle
    /\ offer
    /\ offer' = FALSE
    /\ UNCHANGED <<http, m_bInProgress, m_bIsInProcess, m_bAbortRequested,
                   m_Status, tasks, call, session, zipOpen, zipBytes, chunk,
                   exitCmd, quitting, rechecked>>

-----------------------------------------------------------------------------
(* CUpdateInstaller in the main thread. *)

\* The offer's Update button.  Clearing m_AsyncResult waits for a task that
\* is still running.
StartUpdate(r) ==
    /\ Idle
    /\ offer
    /\ ~m_bIsInProcess
    /\ ~Running("current")
    /\ r \in ZipRequest
    /\ Get(r)
    /\ offer' = FALSE
    /\ m_bIsInProcess' = TRUE
    /\ m_bAbortRequested' = FALSE
    /\ m_Status' = "Downloading"
    /\ tasks' = [tasks EXCEPT !["current"] = NoTask]
    /\ session' = r
    /\ zipOpen' = TRUE
    /\ zipBytes' = {}
    /\ UNCHANGED <<m_bInProgress, call, chunk, exitCmd, quitting, rechecked>>

\* The update is refused (already installing, installer disabled) or fails
\* before the download begins: metadata, temporary directory, no asset.
StartUpdateFails ==
    /\ Idle
    /\ offer
    /\ offer' = FALSE
    /\ IF m_bIsInProcess
         THEN UNCHANGED <<tasks, m_bAbortRequested>>
         ELSE /\ ~Running("current")
              /\ tasks' = [tasks EXCEPT !["current"] = NoTask]
              /\ m_bAbortRequested' = FALSE
    /\ UNCHANGED <<http, m_bInProgress, m_bIsInProcess, m_Status, call,
                   session, zipOpen, zipBytes, chunk, exitCmd, quitting,
                   rechecked>>

\* CancelInstallation, from the button of the dialog the status shows.
CancelDownload ==
    /\ Idle
    /\ m_bIsInProcess
    /\ m_Status = "Downloading"
    /\ AbortCurrentDownload
    /\ ErrorOccured
    /\ UNCHANGED <<m_bInProgress, offer, m_bIsInProcess, m_bAbortRequested,
                   tasks, session, zipOpen, zipBytes, chunk, exitCmd, quitting,
                   rechecked>>

\* Mutant: an installation is aborted like the other tasks.
CancelAnyTask ==
    /\ Idle
    /\ m_bIsInProcess
    /\ m_Status \in {"Extracting", "Hashing", "Installing"}
    /\ m_bAbortRequested' = TRUE
    /\ call' = "spin"
    /\ UNCHANGED <<http, m_bInProgress, offer, m_bIsInProcess, m_Status, tasks,
                   session, zipOpen, zipBytes, chunk, exitCmd, quitting,
                   rechecked>>

CancelTask ==
    /\ Idle
    /\ m_bIsInProcess
    /\ m_Status \in {"Extracting", "Hashing"}
    /\ m_bAbortRequested' = TRUE
    /\ call' = "spin"
    /\ UNCHANGED <<http, m_bInProgress, offer, m_bIsInProcess, m_Status, tasks,
                   session, zipOpen, zipBytes, chunk, exitCmd, quitting,
                   rechecked>>

CancelConfirmation ==
    /\ Idle
    /\ m_bIsInProcess
    /\ m_Status = "Confirming"
    /\ ErrorOccured
    /\ UNCHANGED <<http, m_bInProgress, offer, m_bIsInProcess,
                   m_bAbortRequested, tasks, session, zipOpen, zipBytes, chunk,
                   exitCmd, quitting, rechecked>>

\* Mutant: the task is not waited for.
SpinEndsAtOnce ==
    /\ call = "spin"
    /\ m_bAbortRequested' = FALSE
    /\ ErrorOccured
    /\ UNCHANGED <<http, m_bInProgress, offer, m_bIsInProcess, tasks, session,
                   zipOpen, zipBytes, chunk, exitCmd, quitting, rechecked>>

\* while (m_bAbortRequested) yield();
SpinEnds ==
    /\ call = "spin"
    /\ ~m_bAbortRequested
    /\ ErrorOccured
    /\ UNCHANGED <<http, m_bInProgress, offer, m_bIsInProcess,
                   m_bAbortRequested, tasks, session, zipOpen, zipBytes, chunk,
                   exitCmd, quitting, rechecked>>

CleanUp ==
    /\ call = "cleanUp"
    /\ m_Status' = "None"
    /\ zipOpen' = FALSE
    /\ call' = "finish"
    /\ UNCHANGED <<http, m_bInProgress, offer, m_bIsInProcess,
                   m_bAbortRequested, tasks, session, zipBytes, chunk, exitCmd,
                   quitting, rechecked>>

\* Mutant: m_bIsInProcess is not reset.
FinishInProcess ==
    /\ call = "finish"
    /\ call' = "none"
    /\ UNCHANGED <<http, m_bInProgress, offer, m_bIsInProcess,
                   m_bAbortRequested, m_Status, tasks, session, zipOpen,
                   zipBytes, chunk, exitCmd, quitting, rechecked>>

Finish ==
    /\ call = "finish"
    /\ m_bIsInProcess' = FALSE
    /\ call' = "none"
    /\ UNCHANGED <<http, m_bInProgress, offer, m_bAbortRequested, m_Status,
                   tasks, session, zipOpen, zipBytes, chunk, exitCmd, quitting,
                   rechecked>>

ReplaceEnds ==
    /\ call = "replace"
    /\ ~Running("old")
    /\ tasks' = [tasks EXCEPT !["old"] = NoTask]
    /\ call' = "none"
    /\ UNCHANGED <<http, m_bInProgress, offer, m_bIsInProcess,
                   m_bAbortRequested, m_Status, session, zipOpen, zipBytes,
                   chunk, exitCmd, quitting, rechecked>>

\* Mutant: the callback does not look at m_bIsInProcess.
ZipResponseAlways ==
    /\ call = "none"
    /\ FrameCallback
    /\ Head(m_ResponseQueue).req \in ZipRequest
    /\ zipOpen' = FALSE
    /\ IF Head(m_ResponseQueue).ok /\ zipBytes # {}
         THEN /\ m_Status' = "Extracting"
              /\ StartTask("extract")
         ELSE /\ ErrorOccured
              /\ UNCHANGED tasks
    /\ UNCHANGED <<m_bInProgress, offer, m_bIsInProcess, m_bAbortRequested,
                   session, zipBytes, chunk, exitCmd, quitting, rechecked>>

\* The response callback of a zip request, whichever update issued it.
ZipResponse ==
    /\ call = "none"
    /\ FrameCallback
    /\ Head(m_ResponseQueue).req \in ZipRequest
    /\ zipOpen' = FALSE
    /\ \/ /\ ~m_bIsInProcess
          /\ UNCHANGED <<m_Status, m_bAbortRequested, tasks, call>>
       \/ /\ m_bIsInProcess
          /\ ~Head(m_ResponseQueue).ok
          /\ ErrorOccured
          /\ UNCHANGED <<m_bAbortRequested, tasks>>
       \/ /\ m_bIsInProcess
          /\ Head(m_ResponseQueue).ok
          /\ \/ /\ ErrorOccured          \* the archive cannot be opened
                /\ UNCHANGED tasks
             \/ /\ zipBytes # {}
                /\ m_Status' = "Extracting"
                /\ StartTask("extract")
          /\ UNCHANGED m_bAbortRequested
    /\ UNCHANGED <<m_bInProgress, offer, m_bIsInProcess, session, zipBytes,
                   chunk, exitCmd, quitting, rechecked>>

\* RunFrame finds the extraction finished: the metadata of the update is read
\* and the files are hashed.
ExtractionDone ==
    /\ Idle
    /\ m_bIsInProcess
    /\ m_Status = "Extracting"
    /\ FutureReady
    /\ \/ /\ ErrorOccured
          /\ tasks' = [tasks EXCEPT !["current"] = NoTask]
       \/ /\ tasks["current"].ok
          /\ m_Status' = "Hashing"
          /\ StartTask("hash")
    /\ UNCHANGED <<http, m_bInProgress, offer, m_bIsInProcess,
                   m_bAbortRequested, session, zipOpen, zipBytes, chunk,
                   exitCmd, quitting, rechecked>>

DisableExitCommands ==
    exitCmd' = [c \in {"quit", "_restart"} |-> "stub"]

\* The test of _restart's saved handler is the other way round.
EnableExitCommands ==
    exitCmd' = [exitCmd EXCEPT
                   !["quit"] = IF @ = "stub" THEN "engine" ELSE @,
                   !["_restart"] = IF @ # "stub" THEN "null" ELSE @]

BeginFileUpdating ==
    /\ m_Status' = "Installing"
    /\ DisableExitCommands
    /\ StartTask("install")

\* RunFrame finds the hashing finished: the files are validated, and installed
\* at once when the user need not be asked about any.
HashingDone ==
    /\ Idle
    /\ m_bIsInProcess
    /\ m_Status = "Hashing"
    /\ FutureReady
    /\ \/ /\ ErrorOccured
          /\ tasks' = [tasks EXCEPT !["current"] = NoTask]
          /\ UNCHANGED exitCmd
       \/ /\ tasks["current"].ok
          /\ m_Status' = "Confirming"
          /\ tasks' = [tasks EXCEPT !["current"] = NoTask]
          /\ UNCHANGED <<call, exitCmd>>
       \/ /\ tasks["current"].ok
          /\ BeginFileUpdating
    /\ UNCHANGED <<http, m_bInProgress, offer, m_bIsInProcess,
                   m_bAbortRequested, session, zipOpen, zipBytes, chunk,
                   quitting, rechecked>>

\* The last of the confirmation dialogs has been answered.
ConfirmationDone ==
    /\ Idle
    /\ m_bIsInProcess
    /\ m_Status = "Confirming"
    /\ BeginFileUpdating
    /\ UNCHANGED <<http, m_bInProgress, offer, m_bIsInProcess,
                   m_bAbortRequested, session, zipOpen, zipBytes, chunk,
                   quitting, rechecked>>

UpdateInstallStatus ==
    /\ m_bIsInProcess
    /\ m_Status = "Installing"
    /\ FutureReady
    /\ tasks' = [tasks EXCEPT !["current"] = NoTask]
    /\ EnableExitCommands
    /\ m_Status' = "None"
    /\ call' = "cleanUp"
    /\ UNCHANGED <<http, m_bInProgress, offer, m_bIsInProcess,
                   m_bAbortRequested, session, zipOpen, zipBytes, chunk,
                   quitting, rechecked>>

\* Mutant: Shutdown's wait does not run RunFrame.
InstallDoneInFrames == Idle /\ UpdateInstallStatus

\* RunFrame, of a frame or of Shutdown's wait, finds the installation
\* finished, successfully or not.
InstallDone ==
    /\ Idle \/ call = "waitInstall"
    /\ UpdateInstallStatus

\* CUpdateInstaller::Shutdown.
InstallerShutdown ==
    /\ Idle
    /\ quitting' = TRUE
    /\ \/ /\ ~m_bIsInProcess
          /\ UNCHANGED <<http, m_Status, m_bAbortRequested, call>>
       \/ /\ m_bIsInProcess
          /\ m_Status = "Installing"
          /\ call' = "waitInstall"
          /\ UNCHANGED <<http, m_Status, m_bAbortRequested>>
       \/ /\ m_bIsInProcess
          /\ m_Status = "Downloading"
          /\ AbortCurrentDownload
          /\ m_Status' = "None"
          /\ call' = "cleanUp"
          /\ UNCHANGED m_bAbortRequested
       \/ /\ m_bIsInProcess
          /\ m_Status = "Confirming"
          /\ m_Status' = "None"
          /\ call' = "cleanUp"
          /\ UNCHANGED <<http, m_bAbortRequested>>
       \/ /\ m_bIsInProcess
          /\ m_Status \in {"None", "Extracting", "Hashing"}
          /\ m_bAbortRequested' = TRUE
          /\ call' = "spin"
          /\ UNCHANGED <<http, m_Status>>
    /\ UNCHANGED <<m_bInProgress, offer, m_bIsInProcess, tasks, session,
                   zipOpen, zipBytes, chunk, exitCmd, rechecked>>

\* CHud::Shutdown then shuts the HTTP client down.
HttpShutdown ==
    /\ quitting
    /\ call = "none"
    /\ ShutdownBegin
    /\ UNCHANGED updater

-----------------------------------------------------------------------------
(* The installer's tasks. *)

\* The work ends, done, failed or aborted; the abort flag is only looked at
\* between two files.
AsyncWork(i) ==
    /\ tasks[i] # NoTask
    /\ tasks[i].pc = "work"
    /\ \E ok \in BOOLEAN :
          tasks' = [tasks EXCEPT ![i].pc = "return", ![i].ok = ok]
    /\ UNCHANGED <<http, m_bInProgress, offer, m_bIsInProcess,
                   m_bAbortRequested, m_Status, call, session, zipOpen,
                   zipBytes, chunk, exitCmd, quitting, rechecked>>

\* The last look at the abort flag; then the future is ready.
AsyncReturn(i) ==
    /\ tasks[i] # NoTask
    /\ tasks[i].pc = "return"
    /\ tasks' = [tasks EXCEPT ![i].pc = "done"]
    /\ m_bAbortRequested' = FALSE
    /\ m_Status' = IF m_bAbortRequested THEN "None" ELSE m_Status
    /\ UNCHANGED <<http, m_bInProgress, offer, m_bIsInProcess, call, session,
                   zipOpen, zipBytes, chunk, exitCmd, quitting, rechecked>>

-----------------------------------------------------------------------------
(* The HTTP worker, with the write callback of the zip requests. *)

\* Mutant: the list of releases is written to the zip file, too.
WriteCheckAnyRequest ==
    /\ worker = "perform"
    /\ chunk \in {"none", "written"}
    /\ chunk' = IF m_bIsInProcess THEN "checked" ELSE "refused"
    /\ UNCHANGED <<http, m_bInProgress, offer, m_bIsInProcess,
                   m_bAbortRequested, m_Status, tasks, call, session, zipOpen,
                   zipBytes, exitCmd, quitting, rechecked>>

\* The callback looks at the installer's flags ...
WriteCheck ==
    /\ worker = "perform"
    /\ current \in ZipRequest
    /\ chunk \in {"none", "written"}
    /\ chunk' = IF m_bIsInProcess /\ ~m_bAbortRequested
                THEN "checked" ELSE "refused"
    /\ m_bAbortRequested' = (m_bAbortRequested /\ ~m_bIsInProcess)
    /\ UNCHANGED <<http, m_bInProgress, offer, m_bIsInProcess, m_Status, tasks,
                   call, session, zipOpen, zipBytes, exitCmd, quitting,
                   rechecked>>

\* ... and then writes to whatever file m_ZipDownloadFile is; writing fails
\* when it is closed, and may fail when it is open.
WriteData ==
    /\ chunk = "checked"
    /\ \/ /\ zipOpen
          /\ zipBytes' = zipBytes \cup {current}
          /\ chunk' = "written"
       \/ /\ chunk' = "refused"
          /\ UNCHANGED zipBytes
    /\ UNCHANGED <<http, m_bInProgress, offer, m_bIsInProcess,
                   m_bAbortRequested, m_Status, tasks, call, session, zipOpen,
                   exitCmd, quitting, rechecked>>

\* curl_easy_perform ends outside the write callback; a zip file is complete
\* when its last piece has been written.
TransferEnds ==
    /\ current \in ZipRequest => chunk # "checked"
    /\ \/ WorkerAbort
       \/ WorkerFinish(FALSE)
       \/ /\ current \in ZipRequest => chunk = "written"
          /\ WorkerFinish(TRUE)
    /\ chunk' = "none"
    /\ UNCHANGED <<m_bInProgress, offer, m_bIsInProcess, m_bAbortRequested,
                   m_Status, tasks, call, session, zipOpen, zipBytes, exitCmd,
                   quitting, rechecked>>

-----------------------------------------------------------------------------
Frame ==
    /\ call = "none"
    /\ ~quitting
    /\ FrameBegin \/ FrameEnd
    /\ UNCHANGED updater

SpuriousStep == SpuriousWakeup /\ UNCHANGED updater

ClientStep ==
    /\ \/ WorkerCheck
       \/ WorkerPrepare
       \/ WorkerRespond
       \/ ShutdownJoin
    /\ UNCHANGED updater

Terminated ==
    /\ main = "stopped"
    /\ UNCHANGED vars

UNext ==
    \/ \E r \in Request : CheckForUpdates(r) \/ StartUpdate(r)
    \/ OnDataLoaded \/ CloseOffer
    \/ StartUpdateFails \/ ZipResponse
    \/ CancelDownload \/ CancelTask \/ CancelConfirmation
    \/ SpinEnds \/ CleanUp \/ Finish \/ ReplaceEnds
    \/ ExtractionDone \/ HashingDone \/ ConfirmationDone \/ InstallDone
    \/ InstallerShutdown \/ HttpShutdown
    \/ \E i \in {"current", "old"} : AsyncWork(i) \/ AsyncReturn(i)
    \/ WriteCheck \/ WriteData \/ TransferEnds
    \/ Frame \/ ClientStep \/ SpuriousStep
    \/ Terminated

USpec == UInit /\ [][UNext]_vars

(***************************************************************************)
(* Fairness.  The operating system runs every thread, archives and file    *)
(* lists are finite, curl calls its progress callback, a call the main     *)
(* thread is in goes on, and CHud::Shutdown goes on to the HTTP client.    *)
(* Nothing is assumed of the user or of the network.                       *)
(***************************************************************************)
UFairness ==
    /\ \A i \in {"current", "old"} : WF_vars(AsyncWork(i)) /\ WF_vars(AsyncReturn(i))
    /\ WF_vars(SpinEnds) /\ WF_vars(CleanUp) /\ WF_vars(Finish)
    /\ WF_vars(ReplaceEnds)
    /\ WF_vars(HttpShutdown)
    /\ WF_vars(WriteData)
    /\ WF_vars(WorkerAbort /\ TransferEnds)
    /\ WF_vars(ClientStep)

\* RunFrame's loop over the responses ends.  A frame that polls the installer
\* comes again and again between the frames' callbacks: strong fairness.
FrameFairness ==
    /\ WF_vars(FrameEnd /\ Frame)
    /\ WF_vars(OnDataLoaded) /\ WF_vars(ZipResponse)
    /\ SF_vars(ExtractionDone) /\ SF_vars(HashingDone) /\ SF_vars(InstallDone)

UFairSpec == USpec /\ UFairness /\ FrameFairness

-----------------------------------------------------------------------------
(* Properties.  Most are about updates in peace: update_check, typed while  *)
(* an offer is on screen or an update in process, starts a check whose offer *)
(* can begin a second update as soon as the first is cancelled, with its     *)
(* transfer still under way, whose write callback may then write into the    *)
(* second one's zip file.                                                    *)

Answered(r) == \E i \in DOMAIN delivered : delivered[i].req = r

\* The callback of a cancelled update's download has run before the next
\* update begins: the requests are answered in order, and the next offer
\* comes from a list that was asked for later.
SessionsDoNotOverlap ==
    m_bIsInProcess /\ ~rechecked =>
        \A r \in ZipRequest \cap issued : r = session \/ Answered(r)

\* The updater is never stuck, whatever was typed: between two calls it is
\* either idle or in a phase that a response, a task or a dialog will end.
InProcessHasStatus ==
    call = "none" /\ m_bIsInProcess /\ ~quitting => m_Status # "None"

\* CleanUp runs under the conditions it asserts, and never under a task that
\* still uses the temporary directory and the file lists.
CleanUpIsSafe ==
    call = "cleanUp" /\ ~rechecked =>
        /\ m_Status = "None" /\ m_bIsInProcess /\ ~m_bAbortRequested
        /\ ~Running("current") /\ ~Running("old")

\* Quitting is disabled while files are being replaced, and only then.
ExitDisabledWhileInstalling ==
    ~rechecked =>
        /\ exitCmd["quit"] = "stub" <=> m_Status = "Installing"
        /\ Running("current") /\ tasks["current"].kind = "install" =>
              exitCmd = [c \in {"quit", "_restart"} |-> "stub"]

\* There is never more than one list of releases under way, and the checker
\* knows whether there is one.
OneCheckAtATime ==
    Cardinality({r \in ListRequest \cap issued : ~Answered(r)})
        = IF m_bInProgress THEN 1 ELSE 0

\* No two requests of a kind are under way that would confuse each other's
\* callbacks: one list of releases, and the zip file of one update.
RequestsDoNotOverlap == SessionsDoNotOverlap /\ OneCheckAtATime

\* The status, m_bIsInProcess and the exit commands agree on the phase the
\* update is in, through failures, cancellations and the end of the game.
PhasesAgree == InProcessHasStatus /\ ExitDisabledWhileInstalling

\* Extraction only ever starts from the response of the update in process and
\* a file that is wholly its own.
ExtractsOwnDownload ==
    [][m_Status # "Extracting" /\ m_Status' = "Extracting" /\ ~rechecked =>
          /\ m_bIsInProcess
          /\ Head(m_ResponseQueue).req = session
          /\ zipBytes = {session}]_vars

\* An installation that has begun ends, whether its files could be replaced
\* or not.
InstallationEnds == m_Status = "Installing" ~> ~m_bIsInProcess \/ rechecked

\* Quitting in the middle of an installation waits for it and then ends.
QuitAfterInstallation ==
    call = "waitInstall" /\ ~rechecked ~> main = "stopped"

\* update_installer.h of CancelInstallation: "Cancels the installation.", and of
\* Shutdown: "Stops all async tasks."  The wait of either for the task to
\* notice the abort ends.
AbortWaitEnds == call = "spin" ~> call # "spin"
=============================================================================
