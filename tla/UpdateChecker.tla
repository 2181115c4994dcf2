--------------------------- MODULE UpdateChecker ---------------------------
(***************************************************************************)
(* CUpdateChecker: which release of a downloaded list is offered, which of *)
(* its assets is installed, and when the installer is refused              *)
(* (client/updater/update_checker.cpp).                                    *)
(*                                                                         *)
(* What is published changes while the game runs, so two checks may see    *)
(* two lists.  The download of the list is a step (see Updater for its     *)
(* interleavings); the installation is one as well.                        *)
(***************************************************************************)
EXTENDS GameVersion, Sequences

CONSTANTS
    m_CurVersion,
    Published,  \* the lists of releases that may be found
    Nothing     \* no list, release, version, offer or URL

\* A release that is neither a draft nor badly tagged is a candidate; reading
\* a malformed one throws.  Its assets, in any order, are for this platform, for
\* another one, or name no platform; reading a malformed one throws.
Asset == {"mine", "other", "generic"}

Release ==
    [version : Version,
     kind    : {"candidate", "draft", "badTag", "malformed"},
     noAuto  : BOOLEAN,                        \* "[no auto-update]"
     assets  : SUBSET (Asset \cup {"malformed"})]

ASSUME CheckerAssumption ==
    /\ m_CurVersion \in Version
    /\ Published \subseteq Seq(Release)
    /\ Nothing \notin Version

VARIABLES
    m_bInProgress,
    m_bUpdateFound,
    m_LatestVersion,
    m_ZipURL,               \* the version and the asset it is of
    m_bDisableInstaller,
    offer,                  \* the version that the dialog on screen shows
    target,                 \* what is being installed
    loaded,                 \* history: the last list that was read to its end
    rechecked               \* history: a check began with an offer on screen

vars == <<m_bInProgress, m_bUpdateFound, m_LatestVersion, m_ZipURL,
          m_bDisableInstaller, offer, target, loaded, rechecked>>

URL == [version : Version, asset : Asset]

TypeOK ==
    /\ m_bInProgress \in BOOLEAN
    /\ m_bUpdateFound \in BOOLEAN
    /\ m_LatestVersion \in Version \cup {Nothing}
    /\ m_ZipURL \in URL \cup {Nothing}
    /\ m_bDisableInstaller \in BOOLEAN
    /\ offer \in Version \cup {Nothing}
    /\ target \in URL \cup {Nothing}
    /\ loaded \in Published \cup {Nothing}
    /\ rechecked \in BOOLEAN

Init ==
    /\ m_bInProgress = FALSE
    /\ m_bUpdateFound = FALSE
    /\ m_LatestVersion = Nothing
    /\ m_ZipURL = Nothing
    /\ m_bDisableInstaller = FALSE
    /\ offer = Nothing
    /\ target = Nothing
    /\ loaded = Nothing
    /\ rechecked = FALSE

-----------------------------------------------------------------------------
(* OnDataLoaded's loop over the releases. *)

\* Mutant: drafts are not skipped.
CandidatesAndDrafts(list) ==
    {i \in DOMAIN list : list[i].kind \in {"candidate", "draft"}}

Candidates(list) == {i \in DOMAIN list : list[i].kind = "candidate"}

\* The loop ends at the first candidate that is not newer than the game.
Visited(list) ==
    {i \in DOMAIN list :
        \A j \in Candidates(list) :
            j < i => Newer(list[j].version, m_CurVersion)}

\* Mutant: the game's own version is newer than itself.
UpdatesOrSame(list) ==
    {i \in Visited(list) \cap Candidates(list) :
        ~Newer(m_CurVersion, list[i].version)}

Updates(list) ==
    {i \in Visited(list) \cap Candidates(list) :
        Newer(list[i].version, m_CurVersion)}

\* The first candidate is taken for the latest.
IsLatest(list, i) ==
    i \in Candidates(list) /\ \A j \in Candidates(list) : i <= j

\* An asset with the platform's name is the right one; else the first one is
\* taken that "client" is in the name of.
ChosenAssets(assets) == IF "mine" \in assets THEN {"mine"} ELSE assets

-----------------------------------------------------------------------------
\* FetchReleaseList
CheckForUpdates ==
    /\ ~m_bInProgress
    /\ m_bInProgress' = TRUE
    /\ m_bUpdateFound' = FALSE
    /\ rechecked' = (rechecked \/ offer # Nothing)
    /\ UNCHANGED <<m_LatestVersion, m_ZipURL, m_bDisableInstaller, offer,
                   target, loaded>>

\* The request failed, or what was downloaded is no list.
LoadFails ==
    /\ m_bInProgress
    /\ m_bInProgress' = FALSE
    /\ UNCHANGED <<m_bUpdateFound, m_LatestVersion, m_ZipURL,
                   m_bDisableInstaller, offer, target, loaded, rechecked>>

\* An empty list ends the check before anything is assigned.
LoadEmpty(list) ==
    /\ m_bInProgress
    /\ list = <<>>
    /\ m_bInProgress' = FALSE
    /\ loaded' = list
    /\ UNCHANGED <<m_bUpdateFound, m_LatestVersion, m_ZipURL,
                   m_bDisableInstaller, offer, target, rechecked>>

\* Reading a malformed release throws; a flag seen before it stays set.
LoadThrows(list) ==
    /\ m_bInProgress
    /\ \E i \in Visited(list) :
          /\ list[i].kind = "malformed"
          /\ m_bDisableInstaller' =
                (m_bDisableInstaller \/ \E j \in Updates(list) :
                                            j < i /\ list[j].noAuto)
          /\ \A j \in Visited(list) : j < i => list[j].kind # "malformed"
    /\ m_bInProgress' = FALSE
    /\ UNCHANGED <<m_bUpdateFound, m_LatestVersion, m_ZipURL, offer, target,
                   loaded, rechecked>>

\* What the loop found is stored before the assets are read; without a
\* candidate, or with a malformed asset, reading them throws.
StoreResult(list) ==
    /\ m_bInProgress
    /\ list # <<>>
    /\ \A i \in Visited(list) : list[i].kind # "malformed"
    /\ m_bInProgress' = FALSE
    /\ m_bUpdateFound' = (Updates(list) # {})
    /\ m_bDisableInstaller' =
          (m_bDisableInstaller \/ \E i \in Updates(list) : list[i].noAuto)
    /\ loaded' = list
    /\ UNCHANGED <<target, rechecked>>

\* An asset without the platform's name that was read before the malformed one
\* stays chosen, but is not offered.
AssetsThrow(list) ==
    /\ StoreResult(list)
    /\ \/ Candidates(list) = {} /\ m_LatestVersion' = Nothing /\ m_ZipURL' = Nothing
       \/ \E i \in DOMAIN list :
             /\ IsLatest(list, i)
             /\ "malformed" \in list[i].assets
             /\ m_LatestVersion' = list[i].version
             /\ m_ZipURL' \in {Nothing} \cup
                               [version : {list[i].version},
                                asset : list[i].assets \ {"mine", "malformed"}]
    /\ UNCHANGED offer

\* Mutant: whether the assets can be read is not looked at.
SelectUnread(list) ==
    /\ StoreResult(list)
    /\ \E i \in DOMAIN list :
          /\ IsLatest(list, i)
          /\ m_LatestVersion' = list[i].version
          /\ m_ZipURL' \in IF list[i].assets = {} THEN {Nothing}
                           ELSE [version : {list[i].version},
                                 asset : ChosenAssets(list[i].assets)]
    /\ offer' = IF m_bUpdateFound' THEN m_LatestVersion' ELSE offer

\* The asset is chosen, and an update is offered.  The platform's own asset may
\* come before a malformed one, which is not read then.
SelectAsset(list) ==
    /\ StoreResult(list)
    /\ \E i \in DOMAIN list :
          /\ IsLatest(list, i)
          /\ "malformed" \in list[i].assets => "mine" \in list[i].assets
          /\ m_LatestVersion' = list[i].version
          /\ m_ZipURL' \in IF list[i].assets = {} THEN {Nothing}
                           ELSE [version : {list[i].version},
                                 asset : ChosenAssets(list[i].assets)]
    /\ offer' = IF m_bUpdateFound' THEN m_LatestVersion' ELSE offer

OnDataLoaded(list) ==
    LoadEmpty(list) \/ LoadThrows(list) \/ AssetsThrow(list) \/ SelectAsset(list)

CloseOffer ==
    /\ offer # Nothing
    /\ offer' = Nothing
    /\ UNCHANGED <<m_bInProgress, m_bUpdateFound, m_LatestVersion, m_ZipURL,
                   m_bDisableInstaller, target, loaded, rechecked>>

\* The Update button.  The installer refuses when it is busy or disabled, or
\* when there is no URL.
StartUpdate ==
    /\ offer # Nothing
    /\ offer' = Nothing
    /\ target' = IF target # Nothing \/ m_bDisableInstaller THEN target
                                                            ELSE m_ZipURL
    /\ UNCHANGED <<m_bInProgress, m_bUpdateFound, m_LatestVersion, m_ZipURL,
                   m_bDisableInstaller, loaded, rechecked>>

\* The update fails or is cancelled; one that succeeds quits the game.
UpdateEnds ==
    /\ target # Nothing
    /\ target' = Nothing
    /\ UNCHANGED <<m_bInProgress, m_bUpdateFound, m_LatestVersion, m_ZipURL,
                   m_bDisableInstaller, offer, loaded, rechecked>>

Next ==
    \/ CheckForUpdates
    \/ LoadFails
    \/ \E list \in Published : OnDataLoaded(list)
    \/ CloseOffer
    \/ StartUpdate
    \/ UpdateEnds

Spec == Init /\ [][Next]_vars

-----------------------------------------------------------------------------
(* Properties. *)

\* "Versions are sorted": candidates come newest first.
Sorted(list) ==
    \A i, j \in Candidates(list) :
        i < j => NotNewer(list[j].version, list[i].version)

\* The update that is offered is the newest release, and one is found just when
\* there is one: what the loop with its early end computes is what its purpose
\* asks for.
FindsNewest ==
    ~m_bInProgress /\ loaded # Nothing /\ m_bUpdateFound /\ Sorted(loaded) =>
        /\ Newer(m_LatestVersion, m_CurVersion)
        /\ \A i \in DOMAIN loaded :
              loaded[i].kind = "candidate" =>
                  NotNewer(loaded[i].version, m_LatestVersion)

\* A list with a newer release is never read in vain.
NothingMissed ==
    [][~m_bInProgress' /\ loaded' # loaded /\ Sorted(loaded') =>
          m_bUpdateFound' = \E i \in DOMAIN loaded' :
                                /\ loaded'[i].kind = "candidate"
                                /\ Newer(loaded'[i].version, m_CurVersion)]_vars

\* The URL is always one of the latest version, also when a later check fails
\* halfway.
ZipOfLatest == m_ZipURL # Nothing => m_ZipURL.version = m_LatestVersion

\* What is installed is newer than the game, and what the dialog showed.
\* (Unless a check is made with an offer on screen: the offer stays, but the
\* URL may become that of an older release if the newer one was withdrawn.)
InstallsWhatWasOffered ==
    [][offer # Nothing /\ target = Nothing /\ target' # Nothing /\ ~rechecked =>
          target'.version = offer /\ Newer(offer, m_CurVersion)]_vars
=============================================================================
