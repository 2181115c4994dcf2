------------------------ MODULE UpdateCheckerProofs ------------------------
(***************************************************************************)
(* CGameVersion's comparison is a total order; CUpdateChecker's selection  *)
(* is right for any lists of releases.                                     *)
(***************************************************************************)
EXTENDS UpdateChecker, SequenceTheorems, TLAPS

(* The order of versions. *)

LEMMA VersionFields ==
    ASSUME NEW v \in Version
    PROVE  /\ v.major \in Int /\ v.minor \in Int /\ v.patch \in Int
           /\ v.tag \in Nat \cup {NoTag}
           /\ v = [major |-> v.major, minor |-> v.minor, patch |-> v.patch,
                   tag |-> v.tag]
BY DEF Version

\* Compare is antisymmetric: swapping the versions negates the result.
THEOREM CompareAntisymmetric ==
    \A v, w \in Version : Compare(w, v) = -Compare(v, w)
<1>1. ASSUME NEW v \in Version, NEW w \in Version
      PROVE  Compare(w, v) = -Compare(v, w)
  <2>1. \A x, y \in Int : binary_comparison(y, x) = -binary_comparison(x, y)
    BY DEF binary_comparison
  <2>2. \A s, t \in Nat \cup {NoTag} : CompareTags(t, s) = -CompareTags(s, t)
    BY <2>1 DEF CompareTags, NoTag
  <2> QED
    BY <2>1, <2>2, VersionFields DEF Compare
<1> QED
  BY <1>1

\* Only a version itself compares as equal to it.
THEOREM CompareEqual ==
    \A v, w \in Version : Compare(v, w) = 0 <=> v = w
<1>1. ASSUME NEW v \in Version, NEW w \in Version
      PROVE  Compare(v, w) = 0 <=> v = w
  <2>1. \A x, y \in Int : binary_comparison(x, y) = 0 <=> x = y
    BY DEF binary_comparison
  <2>2. \A s, t \in Nat \cup {NoTag} : CompareTags(s, t) = 0 <=> s = t
    BY <2>1 DEF CompareTags, NoTag
  <2> QED
    BY <2>1, <2>2, VersionFields DEF Compare
<1> QED
  BY <1>1

\* "Not newer than" is transitive, so the operators sort versions.
THEOREM NotNewerTransitive ==
    \A u, v, w \in Version : NotNewer(u, v) /\ NotNewer(v, w) => NotNewer(u, w)
<1>1. ASSUME NEW u \in Version, NEW v \in Version, NEW w \in Version,
             NotNewer(u, v), NotNewer(v, w)
      PROVE  NotNewer(u, w)
  <2>1. \A x, y \in Int : binary_comparison(x, y) # 1 <=> x <= y
    BY DEF binary_comparison
  <2>2. \A s, t, r \in Nat \cup {NoTag} :
            CompareTags(s, t) # 1 /\ CompareTags(t, r) # 1 =>
                CompareTags(s, r) # 1
    BY <2>1 DEF CompareTags, NoTag
  <2>3. \A x, y \in Int : binary_comparison(x, y) = 1 <=> x > y
    BY DEF binary_comparison
  <2> HIDE DEF binary_comparison
  <2> QED
    BY <1>1, <2>2, <2>3, VersionFields DEF NotNewer, Compare
<1> QED
  BY <1>1

-----------------------------------------------------------------------------
\* What is stored of a list.
LEMMA StoredType ==
    ASSUME NEW list \in Published, NEW i \in DOMAIN list
    PROVE  /\ list[i].version \in Version
           /\ list[i].assets \in SUBSET (Asset \cup {"malformed"})
<1>1. list[i] \in Release
  BY CheckerAssumption, ElementOfSeq, LenProperties
<1> QED
  BY <1>1 DEF Release

\* The URL that is selected is one of the release.
LEMMA SelectedURL ==
    ASSUME NEW list \in Published, NEW i \in DOMAIN list,
           "malformed" \in list[i].assets => "mine" \in list[i].assets,
           NEW url \in IF list[i].assets = {} THEN {Nothing}
                       ELSE [version : {list[i].version},
                             asset : ChosenAssets(list[i].assets)]
    PROVE  /\ url \in URL \cup {Nothing}
           /\ url # Nothing => url.version = list[i].version
<1>1. CASE list[i].assets = {}
  BY <1>1
<1>2. CASE list[i].assets # {}
  <2>1. PICK a \in ChosenAssets(list[i].assets) :
            url = [version |-> list[i].version, asset |-> a]
    BY <1>2
  <2>2. a \in Asset
    <3>1. list[i].assets \in SUBSET (Asset \cup {"malformed"})
      BY StoredType
    <3>2. "mine" \in Asset
      BY DEF Asset
    <3> QED
      BY <2>1, <3>1, <3>2 DEF ChosenAssets
  <2> QED
    BY <2>1, <2>2, StoredType DEF URL
<1> QED
  BY <1>1, <1>2

\* So is one that was chosen before a malformed asset was read.
LEMMA ThrownURL ==
    ASSUME NEW list \in Published, NEW i \in DOMAIN list,
           NEW url \in {Nothing} \cup
                       [version : {list[i].version},
                        asset : list[i].assets \ {"mine", "malformed"}]
    PROVE  /\ url \in URL \cup {Nothing}
           /\ url # Nothing => url.version = list[i].version
<1>1. list[i].assets \ {"mine", "malformed"} \subseteq Asset
  BY StoredType
<1> QED
  BY <1>1, StoredType DEF URL

\* The checker's members keep their types, whatever lists the server sends.
THEOREM TypeCorrect == Spec => []TypeOK
<1>1. Init => TypeOK
  BY DEF Init, TypeOK
<1>2. TypeOK /\ [Next]_vars => TypeOK'
  <2> SUFFICES ASSUME TypeOK, [Next]_vars PROVE TypeOK'
    OBVIOUS
  <2> USE DEF TypeOK
  <2>1. CASE CheckForUpdates
    BY <2>1 DEF CheckForUpdates
  <2>2. CASE LoadFails
    BY <2>2 DEF LoadFails
  <2>3. ASSUME NEW list \in Published, LoadEmpty(list) PROVE TypeOK'
    BY <2>3 DEF LoadEmpty
  <2>4. ASSUME NEW list \in Published, LoadThrows(list) PROVE TypeOK'
    <3>1. m_bDisableInstaller' \in BOOLEAN
      BY <2>4 DEF LoadThrows
    <3> QED
      BY <2>4, <3>1 DEF LoadThrows
  <2>5. ASSUME NEW list \in Published, AssetsThrow(list) PROVE TypeOK'
    <3>1. m_LatestVersion' \in Version \cup {Nothing}
      BY <2>5, StoredType DEF AssetsThrow
    <3>2. m_bUpdateFound' \in BOOLEAN /\ m_bDisableInstaller' \in BOOLEAN
      BY <2>5 DEF AssetsThrow, StoreResult
    <3>3. m_ZipURL' \in URL \cup {Nothing}
      BY <2>5, ThrownURL DEF AssetsThrow
    <3> QED
      BY <2>5, <3>1, <3>2, <3>3 DEF AssetsThrow, StoreResult
  <2>6. ASSUME NEW list \in Published, SelectAsset(list) PROVE TypeOK'
    <3>1. PICK i \in DOMAIN list :
              /\ "malformed" \in list[i].assets => "mine" \in list[i].assets
              /\ m_LatestVersion' = list[i].version
              /\ m_ZipURL' \in IF list[i].assets = {} THEN {Nothing}
                               ELSE [version : {list[i].version},
                                     asset : ChosenAssets(list[i].assets)]
      BY <2>6 DEF SelectAsset
    <3>2. m_ZipURL' \in URL \cup {Nothing}
      BY <3>1, SelectedURL
    <3>3. m_LatestVersion' \in Version
      BY <3>1, StoredType
    <3> QED
      BY <2>6, <3>2, <3>3 DEF SelectAsset, StoreResult
  <2>7. CASE CloseOffer
    BY <2>7 DEF CloseOffer
  <2>8. CASE StartUpdate
    BY <2>8 DEF StartUpdate
  <2>9. CASE UpdateEnds
    BY <2>9 DEF UpdateEnds
  <2>10. CASE UNCHANGED vars
    BY <2>10 DEF vars
  <2> QED
    BY <2>1, <2>2, <2>3, <2>4, <2>5, <2>6, <2>7, <2>8, <2>9, <2>10
    DEF Next, OnDataLoaded
<1> QED
  BY <1>1, <1>2, PTL DEF Spec

-----------------------------------------------------------------------------
\* The first candidate of a list in which an update was found is newer than the
\* game: the loop came past it.
LEMMA LatestIsUpdate ==
    ASSUME NEW list \in Published, NEW i \in DOMAIN list,
           IsLatest(list, i), Updates(list) # {}
    PROVE  Newer(list[i].version, m_CurVersion)
<1>1. PICK j \in Visited(list) \cap Candidates(list) :
          Newer(list[j].version, m_CurVersion)
  BY DEF Updates
<1>2. i \in Candidates(list) /\ i <= j /\ i \in Int /\ j \in Int
  BY <1>1, CheckerAssumption DEF IsLatest, Candidates
<1>3. CASE i = j
  BY <1>1, <1>3
<1>4. CASE i < j
  BY <1>1, <1>2, <1>4 DEF Visited
<1> QED
  BY <1>2, <1>3, <1>4

\* What is known of the last answer while no check is under way, and of the
\* offer as long as no check began under it.
CheckInv ==
    /\ TypeOK
    /\ m_bInProgress => ~m_bUpdateFound
    /\ m_bUpdateFound =>
          /\ loaded \in Published
          /\ Updates(loaded) # {}
          /\ \E i \in DOMAIN loaded : /\ IsLatest(loaded, i)
                                      /\ m_LatestVersion = loaded[i].version
    /\ ZipOfLatest
    /\ offer # Nothing /\ ~rechecked =>
          offer = m_LatestVersion /\ Newer(offer, m_CurVersion) /\ ~m_bInProgress

LEMMA CheckInductive == CheckInv /\ TypeOK' /\ [Next]_vars => CheckInv'
<1> SUFFICES ASSUME CheckInv, TypeOK', [Next]_vars PROVE CheckInv'
  OBVIOUS
<1> USE DEF CheckInv, ZipOfLatest
<1>1. CASE CheckForUpdates
  BY <1>1 DEF CheckForUpdates, TypeOK
<1>2. CASE LoadFails
  BY <1>2 DEF LoadFails
<1>3. ASSUME NEW list \in Published, LoadEmpty(list) PROVE CheckInv'
  BY <1>3 DEF LoadEmpty
<1>4. ASSUME NEW list \in Published, LoadThrows(list) PROVE CheckInv'
  BY <1>4 DEF LoadThrows
<1>5. ASSUME NEW list \in Published, AssetsThrow(list) PROVE CheckInv'
  <2>1. /\ loaded' = list
        /\ m_bUpdateFound' = (Updates(list) # {})
        /\ m_bInProgress /\ ~m_bInProgress'
        /\ offer' = offer /\ rechecked' = rechecked
    BY <1>5 DEF AssetsThrow, StoreResult
  <2>2. Updates(list) # {} =>
            \E i \in DOMAIN list : IsLatest(list, i)
                                       /\ m_LatestVersion' = list[i].version
    <3>1. Candidates(list) = {} => Updates(list) = {}
      BY DEF Updates
    <3> QED
      BY <1>5, <3>1 DEF AssetsThrow
  <2>3. ZipOfLatest'
    BY <1>5, ThrownURL DEF AssetsThrow
  <2> QED
    BY <2>1, <2>2, <2>3
<1>6. ASSUME NEW list \in Published, SelectAsset(list) PROVE CheckInv'
  <2>1. PICK i \in DOMAIN list :
            /\ IsLatest(list, i)
            /\ "malformed" \in list[i].assets => "mine" \in list[i].assets
            /\ m_LatestVersion' = list[i].version
            /\ m_ZipURL' \in IF list[i].assets = {} THEN {Nothing}
                             ELSE [version : {list[i].version},
                                   asset : ChosenAssets(list[i].assets)]
    BY <1>6 DEF SelectAsset
  <2>2. /\ loaded' = list
        /\ m_bUpdateFound' = (Updates(list) # {})
        /\ m_bInProgress /\ ~m_bInProgress'
        /\ offer' = IF m_bUpdateFound' THEN m_LatestVersion' ELSE offer
        /\ rechecked' = rechecked
    BY <1>6 DEF SelectAsset, StoreResult
  <2>3. ZipOfLatest'
    BY <2>1, SelectedURL
  <2>4. m_bUpdateFound' => Newer(m_LatestVersion', m_CurVersion)
    BY <2>1, <2>2, LatestIsUpdate
  <2> QED
    BY <2>1, <2>2, <2>3, <2>4
<1>7. CASE CloseOffer
  BY <1>7 DEF CloseOffer
<1>8. CASE StartUpdate
  BY <1>8 DEF StartUpdate
<1>9. CASE UpdateEnds
  BY <1>9 DEF UpdateEnds
<1>10. CASE UNCHANGED vars
  BY <1>10 DEF vars
<1> QED
  BY <1>1, <1>2, <1>3, <1>4, <1>5, <1>6, <1>7, <1>8, <1>9, <1>10
  DEF Next, OnDataLoaded

LEMMA CheckInvariant == Spec => []CheckInv
<1>1. Init /\ TypeOK => CheckInv
  BY DEF Init, CheckInv, ZipOfLatest
<1> QED
  BY <1>1, TypeCorrect, CheckInductive, PTL DEF Spec

\* The URL is one of the latest version, whatever the lists hold.
THEOREM URLOfLatest == Spec => []ZipOfLatest
BY CheckInvariant, PTL DEF CheckInv

\* Of a sorted list the newest release is found.
THEOREM NewestFound == Spec => []FindsNewest
<1>1. CheckInv => FindsNewest
  <2> SUFFICES ASSUME CheckInv, m_bUpdateFound, Sorted(loaded)
               PROVE  /\ Newer(m_LatestVersion, m_CurVersion)
                      /\ \A i \in DOMAIN loaded :
                            loaded[i].kind = "candidate" =>
                                NotNewer(loaded[i].version, m_LatestVersion)
    BY DEF FindsNewest
  <2>1. loaded \in Published /\ Updates(loaded) # {}
    BY DEF CheckInv
  <2>2. PICK i \in DOMAIN loaded : /\ IsLatest(loaded, i)
                                   /\ m_LatestVersion = loaded[i].version
    BY DEF CheckInv
  <2>3. Newer(m_LatestVersion, m_CurVersion)
    BY <2>1, <2>2, LatestIsUpdate
  <2>4. ASSUME NEW j \in DOMAIN loaded, loaded[j].kind = "candidate"
        PROVE  NotNewer(loaded[j].version, m_LatestVersion)
    <3>1. /\ i \in Candidates(loaded) /\ j \in Candidates(loaded)
          /\ i \in Int /\ j \in Int /\ i <= j
      BY <2>1, <2>2, <2>4, CheckerAssumption DEF IsLatest, Candidates
    <3>2. CASE i < j
      BY <2>2, <3>1, <3>2 DEF Sorted
    <3>3. CASE i = j
      BY <2>1, <2>2, <3>3, StoredType, CompareEqual DEF NotNewer
    <3> QED
      BY <3>1, <3>2, <3>3
  <2> QED
    BY <2>3, <2>4
<1> QED
  BY <1>1, CheckInvariant, PTL

\* The updater installs what the dialog showed, and only newer releases.
THEOREM OfferedIsInstalled == Spec => InstallsWhatWasOffered
<1>1. CheckInv /\ [Next]_vars =>
        (offer # Nothing /\ target = Nothing /\ target' # Nothing /\ ~rechecked =>
            target'.version = offer /\ Newer(offer, m_CurVersion))
  <2> SUFFICES ASSUME CheckInv, [Next]_vars, offer # Nothing, target = Nothing,
                      target' # Nothing, ~rechecked
               PROVE  target'.version = offer /\ Newer(offer, m_CurVersion)
    OBVIOUS
  <2>1. StartUpdate
    BY DEF Next, vars, CheckForUpdates, LoadFails, OnDataLoaded, LoadEmpty,
           LoadThrows, AssetsThrow, SelectAsset, StoreResult, CloseOffer, UpdateEnds
  <2> QED
    BY <2>1 DEF StartUpdate, CheckInv, ZipOfLatest
<1> QED
  BY <1>1, CheckInvariant, PTL DEF Spec, InstallsWhatWasOffered

-----------------------------------------------------------------------------
\* The loop's early end loses nothing of a sorted list: past a candidate that
\* is not newer than the game there are no newer ones.
LEMMA NewerIsVisited ==
    ASSUME NEW list \in Published, Sorted(list), NEW i \in Candidates(list),
           Newer(list[i].version, m_CurVersion)
    PROVE  i \in Updates(list)
<1>1. ASSUME NEW j \in Candidates(list), j < i
      PROVE  Newer(list[j].version, m_CurVersion)
  <2>1. /\ list[i].version \in Version
        /\ list[j].version \in Version
        /\ m_CurVersion \in Version
    BY StoredType, CheckerAssumption DEF Candidates
  <2>2. NotNewer(list[i].version, list[j].version)
    BY <1>1 DEF Sorted
  <2>3. ~NotNewer(list[i].version, m_CurVersion)
    BY DEF Newer, NotNewer
  <2>4. ~NotNewer(list[j].version, m_CurVersion)
    BY <2>1, <2>2, <2>3, NotNewerTransitive
  <2> QED
    BY <2>4 DEF Newer, NotNewer
<1> QED
  BY <1>1 DEF Updates, Visited, Candidates

\* A list with a newer release is never read in vain, and one without is never
\* said to have one.
THEOREM NothingNewerMissed == Spec => NothingMissed
<1> DEFINE HasNewer(list) == \E i \in DOMAIN list :
                                /\ list[i].kind = "candidate"
                                /\ Newer(list[i].version, m_CurVersion)
<1>1. ASSUME NEW list \in Published, Sorted(list)
      PROVE  Updates(list) # {} <=> HasNewer(list)
  <2>1. ASSUME NEW i \in Updates(list) PROVE HasNewer(list)
    BY DEF Updates, Candidates
  <2>2. ASSUME HasNewer(list) PROVE Updates(list) # {}
    BY <1>1, <2>2, NewerIsVisited DEF Candidates
  <2> QED
    BY <2>1, <2>2
<1>2. CheckInv /\ [Next]_vars =>
        (~m_bInProgress' /\ loaded' # loaded /\ Sorted(loaded') =>
            m_bUpdateFound' = HasNewer(loaded'))
  <2> SUFFICES ASSUME CheckInv, [Next]_vars, loaded' # loaded, Sorted(loaded')
               PROVE  m_bUpdateFound' = HasNewer(loaded')
    OBVIOUS
  <2>1. PICK list \in Published : LoadEmpty(list) \/ StoreResult(list)
    BY DEF Next, vars, CheckForUpdates, LoadFails, OnDataLoaded, LoadThrows,
           AssetsThrow, SelectAsset, CloseOffer, StartUpdate, UpdateEnds
  <2>2. CASE LoadEmpty(list)
    <3>1. m_bUpdateFound' = FALSE
      BY <2>2 DEF LoadEmpty, CheckInv, TypeOK
    <3>2. ~HasNewer(loaded')
      BY <2>2 DEF LoadEmpty
    <3> QED
      BY <3>1, <3>2
  <2>3. CASE StoreResult(list)
    <3>1. loaded' = list /\ m_bUpdateFound' = (Updates(list) # {})
      BY <2>3 DEF StoreResult
    <3>2. Sorted(list)
      BY <3>1
    <3>3. Updates(list) # {} <=> HasNewer(list)
      BY <1>1, <3>2
    <3> QED
      BY <3>1, <3>3
  <2> QED
    BY <2>1, <2>2, <2>3
<1> QED
  BY <1>2, CheckInvariant, PTL DEF Spec, NothingMissed
=============================================================================
