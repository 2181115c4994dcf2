------------------------- MODULE UpdateFilesProofs -------------------------
(***************************************************************************)
(* The updater's promises about the user's files, for any set of files, of *)
(* platform files and of releases.                                         *)
(***************************************************************************)
EXTENDS UpdateFiles, TLAPS

\* The lists of CUpdateInstaller and the files keep their types, whatever fails.
THEOREM TypeCorrect == Spec => []TypeOK
<1>1. Init => TypeOK
  BY DEF Init, TypeOK, Content, Phase, NoUpdate
<1>2. TypeOK /\ [Next]_vars => TypeOK'
  <2> SUFFICES ASSUME TypeOK, [Next]_vars PROVE TypeOK'
    OBVIOUS
  <2> USE DEF TypeOK, Content, Phase
  <2>0. NoUpdate \in [File -> Release \cup {Absent}]
    BY DEF NoUpdate
  <2>1. ASSUME NEW f \in File, NEW c \in Release \cup {Edited, Absent},
               UserChanges(f, c)
        PROVE  TypeOK'
    BY <2>1 DEF UserChanges
  <2>2. ASSUME NEW u \in [File -> Release \cup {Absent}],
               NEW um \in SUBSET {f \in MayBeModifiable : u[f] # Absent},
               ValidateUpdateFiles(u, um)
        PROVE  TypeOK'
    BY <2>2, FilesAssumption DEF ValidateUpdateFiles
  <2>3. ASSUME NEW replace \in BOOLEAN, NEW forAll \in BOOLEAN, NEW f \in File,
               ShowNextReplaceDialog(replace, forAll, f)
        PROVE  TypeOK'
    BY <2>3 DEF ShowNextReplaceDialog, Answered
  <2>4. CASE CancelInstallation
    BY <2>0, <2>4 DEF CancelInstallation, CleanUp
  <2>5. CASE CopyMetadata
    BY <2>5 DEF CopyMetadata
  <2>6. ASSUME NEW f \in File, CopyFile(f) PROVE TypeOK'
    BY <2>6 DEF CopyFile
  <2>7. ASSUME NEW f \in File, CopyFails(f) PROVE TypeOK'
    <3>1. fs' \in [File -> Content \cup {Absent}]
      BY <2>7 DEF CopyFails
    <3>2. edited' \subseteq File
      BY <2>7 DEF CopyFails
    <3> QED
      BY <2>0, <2>7, <3>1, <3>2 DEF CopyFails, CleanUp
  <2>8. CASE AllCopied
    BY <2>8 DEF AllCopied
  <2>9. CASE MetadataFails
    BY <2>0, <2>9 DEF MetadataFails, CleanUp
  <2>10. CASE Quit
    BY <2>0, <2>10 DEF Quit, CleanUp
  <2>11. CASE UNCHANGED vars
    BY <2>11 DEF vars
  <2> QED
    BY <2>1, <2>2, <2>3, <2>4, <2>5, <2>6, <2>7, <2>8, <2>9, <2>10, <2>11
    DEF Next
<1> QED
  BY <1>1, <1>2, PTL DEF Spec

-----------------------------------------------------------------------------
(* Consent.  The lists of files carry it from the decision to the copy.      *)

\* Between updates there are no lists, and no question is left once the files
\* are copied.
ListsEmpty ==
    /\ phase = "idle" => m_FilesToUpdate = {} /\ m_FilesToAsk = {}
    /\ phase # "confirming" => m_FilesToAsk = {}

\* An edited file that is about to be replaced is a platform file or the user
\* agreed.
ListsConsent ==
    \A f \in m_FilesToUpdate : fs[f] = Edited => f \in consent \/ f \in PlatFile

\* A file that the update leaves to the user is only replaced when it is
\* missing.
ListsModifiable ==
    \A f \in (m_FilesToUpdate \cup m_FilesToAsk) \cap metaIsUserModifiable :
        fs[f] = Absent

ConsentInv == TypeOK /\ ListsEmpty /\ ListsConsent /\ ListsModifiable

\* What the decision is about: an edited file on the list without a question is
\* a platform file.
LEMMA UnaskedEdit ==
    ASSUME TypeOK, NEW u \in [File -> Release \cup {Absent}], NEW f \in File,
           NEW um, Replace(f, u, um), ~NeedToAsk(f, u), fs[f] = Edited
    PROVE  f \in PlatFile
BY FilesAssumption DEF TypeOK, Content, Replace, NeedToAsk, IsPlatFile

LEMMA ConsentInductive == ConsentInv /\ TypeOK' /\ [Next]_vars => ConsentInv'
<1> SUFFICES ASSUME ConsentInv, TypeOK', [Next]_vars PROVE ConsentInv'
  OBVIOUS
<1> USE DEF ConsentInv, ListsEmpty, ListsConsent, ListsModifiable
<1>1. ASSUME NEW f \in File, NEW c \in Release \cup {Edited, Absent},
             UserChanges(f, c)
      PROVE  ConsentInv'
  BY <1>1 DEF UserChanges
<1>2. ASSUME NEW u \in [File -> Release \cup {Absent}],
             NEW um \in SUBSET {f \in MayBeModifiable : u[f] # Absent},
             ValidateUpdateFiles(u, um)
      PROVE  ConsentInv'
  <2>1. ListsConsent'
    BY <1>2, UnaskedEdit DEF ValidateUpdateFiles
  <2>2. ListsModifiable'
    BY <1>2 DEF ValidateUpdateFiles, Replace
  <2>3. ListsEmpty'
    BY <1>2 DEF ValidateUpdateFiles
  <2> QED
    BY <2>1, <2>2, <2>3
<1>3. ASSUME NEW replace \in BOOLEAN, NEW forAll \in BOOLEAN, NEW f \in File,
             ShowNextReplaceDialog(replace, forAll, f)
      PROVE  ConsentInv'
  BY <1>3 DEF ShowNextReplaceDialog, Answered
<1>4. CASE CancelInstallation
  BY <1>4 DEF CancelInstallation, CleanUp
<1>5. CASE CopyMetadata
  BY <1>5 DEF CopyMetadata
<1>6. ASSUME NEW f \in File, CopyFile(f) PROVE ConsentInv'
  BY <1>6 DEF CopyFile, TypeOK
<1>7. ASSUME NEW f \in File, CopyFails(f) PROVE ConsentInv'
  BY <1>7 DEF CopyFails, CleanUp
<1>8. CASE AllCopied
  BY <1>8 DEF AllCopied
<1>9. CASE MetadataFails
  BY <1>9 DEF MetadataFails, CleanUp
<1>10. CASE Quit
  BY <1>10 DEF Quit, CleanUp
<1>11. CASE UNCHANGED vars
  BY <1>11 DEF vars
<1> QED
  BY <1>1, <1>2, <1>3, <1>4, <1>5, <1>6, <1>7, <1>8, <1>9, <1>10, <1>11
  DEF Next

LEMMA ConsentInvariant == Spec => []ConsentInv
<1>1. Init /\ TypeOK => ConsentInv
  BY DEF Init, ConsentInv, ListsEmpty, ListsConsent, ListsModifiable
<1> QED
  BY <1>1, TypeCorrect, ConsentInductive, PTL DEF Spec

\* The game directory changes during an update by copying listed files only.
LEMMA OnlyListedFilesChange ==
    ASSUME TypeOK, [Next]_vars, phase # "idle", NEW g \in File, fs'[g] # fs[g]
    PROVE  g \in m_FilesToUpdate
<1>1. ASSUME NEW f \in File, CopyFile(f) PROVE g \in m_FilesToUpdate
  BY <1>1 DEF CopyFile, TypeOK
<1>2. ASSUME NEW f \in File, CopyFails(f) PROVE g \in m_FilesToUpdate
  BY <1>2 DEF CopyFails, TypeOK
<1>3. CASE fs' = fs
  BY <1>3
<1> QED
  BY <1>1, <1>2, <1>3
  DEF Next, vars, UserChanges, ValidateUpdateFiles, ShowNextReplaceDialog,
      Answered, CancelInstallation, CopyMetadata, AllCopied, MetadataFails, Quit

\* A file the user edited is never overwritten without consent, whatever fails.
THEOREM ConsentNeeded == Spec => EditsNeedConsent
<1>1. ConsentInv /\ [Next]_vars =>
        (phase # "idle" =>
          \A f \in File : fs[f] = Edited /\ fs'[f] # Edited =>
                              f \in consent \/ f \in PlatFile)
  BY OnlyListedFilesChange DEF ConsentInv, ListsConsent
<1> QED
  BY <1>1, ConsentInvariant, PTL DEF Spec, EditsNeedConsent

\* No update touches a file that exists and that it leaves to the user, whatever
\* fails.
THEOREM ModifiableUntouched == Spec => ModifiableKept
<1>1. ConsentInv /\ [Next]_vars =>
        (phase # "idle" =>
          \A f \in metaIsUserModifiable : fs[f] # Absent => fs'[f] = fs[f])
  BY OnlyListedFilesChange DEF ConsentInv, ListsModifiable, TypeOK
<1> QED
  BY <1>1, ConsentInvariant, PTL DEF Spec, ModifiableKept

-----------------------------------------------------------------------------
(* Completeness, as long as no copy fails.                                   *)

\* Nobody decides about a file twice.
ListsDisjoint ==
    /\ m_FilesToUpdate \cap (m_FilesToAsk \cup declined) = {}
    /\ m_FilesToAsk \cap declined = {}
    /\ declined \subseteq edited

\* The installed metadata describes the game directory, but for files that are
\* the user's.
MetaKnown ==
    \A f \in File : \/ meta[f] = Absent
                    \/ fs[f] = meta[f]
                    \/ f \in edited

\* From the copy of the metadata on, a file that the update left to the user
\* counts as theirs, so a later release that no longer flags it asks.
KeptIsTheirs ==
    \A f \in metaIsUserModifiable : fs[f] \in {Absent, new[f]} \/ f \in edited

\* Every file of the update is done with, to be replaced or to be asked about.
AllAccounted ==
    \A f \in File : \/ f \in m_FilesToUpdate \cup m_FilesToAsk
                    \/ MayDiffer(f)
                    \/ fs[f] = new[f]

UpdateInv ==
    ~failed =>
        /\ ListsDisjoint
        /\ phase \in {"idle", "confirming", "metadata"} => MetaKnown
        /\ phase \in {"copying", "done"} => meta = new /\ KeptIsTheirs
        /\ phase # "idle" => AllAccounted
        /\ phase = "done" => m_FilesToUpdate = {}
        /\ phase = "idle" => declined = {}

\* ValidateUpdateFiles leaves out what may differ, and nothing else.
LEMMA LeftOut ==
    ASSUME TypeOK, MetaKnown, NEW u \in [File -> Release \cup {Absent}],
           NEW um \in SUBSET File, ValidateUpdateFiles(u, um),
           NEW f \in File, ~Replace(f, u, um)
    PROVE  MayDiffer(f)' \/ fs'[f] = new'[f]
<1>1. /\ new' = u /\ metaIsUserModifiable' = um /\ oldMeta' = meta
      /\ fs' = fs /\ edited' = edited
  BY DEF ValidateUpdateFiles
<1>2. CASE u[f] = Absent \/ fs[f] = u[f] \/ (fs[f] # Absent /\ f \in um)
  BY <1>1, <1>2 DEF MayDiffer
<1>3. CASE /\ u[f] # Absent
           /\ fs[f] # u[f]
           /\ ~(fs[f] # Absent /\ f \in um)
  <2>1. ~IsPlatFile(f) /\ meta[f] # Absent /\ meta[f] = u[f] /\ fs[f] # Absent
    BY <1>3 DEF Replace
  <2>2. f \in edited \ PlatFile
    BY <1>3, <2>1 DEF MetaKnown, IsPlatFile
  <2> QED
    BY <1>1, <2>1, <2>2 DEF MayDiffer
<1> QED
  BY <1>2, <1>3

LEMMA UpdateInductive ==
    ConsentInv /\ ConsentInv' /\ UpdateInv /\ [Next]_vars => UpdateInv'
<1> SUFFICES ASSUME ConsentInv, ConsentInv', UpdateInv, [Next]_vars, ~failed'
             PROVE  UpdateInv'
  BY DEF UpdateInv
<1> USE DEF UpdateInv
<1>0. TypeOK /\ TypeOK' /\ ListsEmpty /\ ListsEmpty'
  BY DEF ConsentInv
<1>1. ASSUME NEW f \in File, NEW c \in Release \cup {Edited, Absent},
             UserChanges(f, c)
      PROVE  UpdateInv'
  <2>1. MetaKnown'
    BY <1>0, <1>1 DEF UserChanges, MetaKnown, TypeOK
  <2> QED
    BY <1>1, <2>1 DEF UserChanges, ListsDisjoint
<1>2. ASSUME NEW u \in [File -> Release \cup {Absent}],
             NEW um \in SUBSET {f \in MayBeModifiable : u[f] # Absent},
             ValidateUpdateFiles(u, um)
      PROVE  UpdateInv'
  <2>1. MetaKnown /\ MetaKnown'
    BY <1>2 DEF ValidateUpdateFiles, MetaKnown
  <2>2. AllAccounted'
    <3>1. \A f \in File : Replace(f, u, um) =>
                              f \in m_FilesToUpdate' \cup m_FilesToAsk'
      BY <1>2 DEF ValidateUpdateFiles
    <3> QED
      BY <1>0, <1>2, <2>1, <3>1, LeftOut, FilesAssumption DEF AllAccounted
  <2>3. ListsDisjoint'
    BY <1>2 DEF ValidateUpdateFiles, ListsDisjoint
  <2> QED
    BY <1>2, <2>1, <2>2, <2>3 DEF ValidateUpdateFiles
<1>3. ASSUME NEW replace \in BOOLEAN, NEW forAll \in BOOLEAN, NEW f \in File,
             ShowNextReplaceDialog(replace, forAll, f)
      PROVE  UpdateInv'
  <2> USE DEF ShowNextReplaceDialog, Answered
  <2>1. MetaKnown'
    BY <1>3 DEF MetaKnown
  <2>2. ListsDisjoint'
    BY <1>3 DEF ListsDisjoint
  <2>3. AllAccounted'
    <3>1. AllAccounted
      BY <1>3
    <3>2. ASSUME NEW g \in File, MayDiffer(g) PROVE MayDiffer(g)'
      BY <1>3, <3>2 DEF MayDiffer
    <3>3. ASSUME NEW g \in m_FilesToAsk
          PROVE  g \in m_FilesToUpdate' \cup m_FilesToAsk' \cup declined'
      BY <1>3, <3>3
    <3>4. m_FilesToUpdate \subseteq m_FilesToUpdate'
      BY <1>3
    <3>5. ASSUME NEW g \in File, g \in declined' PROVE MayDiffer(g)'
      BY <3>5 DEF MayDiffer
    <3>6. fs' = fs /\ new' = new
      BY <1>3
    <3> HIDE DEF ShowNextReplaceDialog, Answered
    <3> QED
      BY <3>1, <3>2, <3>3, <3>4, <3>5, <3>6 DEF AllAccounted
  <2> QED
    BY <1>3, <2>1, <2>2, <2>3
<1>4. CASE CancelInstallation
  <2>1. MetaKnown'
    BY <1>4 DEF CancelInstallation, CleanUp, MetaKnown
  <2> QED
    BY <1>4, <2>1 DEF CancelInstallation, CleanUp, ListsDisjoint
<1>5. CASE CopyMetadata
  <2>1. AllAccounted'
    BY <1>5 DEF CopyMetadata, AllAccounted, MayDiffer
  <2>2. KeptIsTheirs'
    BY <1>0, <1>5 DEF CopyMetadata, KeptIsTheirs, TypeOK
  <2> QED
    BY <1>5, <2>1, <2>2 DEF CopyMetadata, ListsDisjoint
<1>6. ASSUME NEW f \in File, CopyFile(f) PROVE UpdateInv'
  <2>1. AllAccounted'
    <3>1. fs'[f] = new'[f]
      BY <1>0, <1>6 DEF CopyFile, TypeOK
    <3>2. ASSUME NEW g \in File, g # f, g \notin m_FilesToUpdate' \cup m_FilesToAsk'
          PROVE  MayDiffer(g)' \/ fs'[g] = new'[g]
      <4>1. g \notin m_FilesToUpdate \cup m_FilesToAsk /\ AllAccounted
        BY <1>6, <3>2 DEF CopyFile
      <4>2. fs'[g] = fs[g] /\ (g \in edited => g \in edited')
        BY <1>0, <1>6, <3>2 DEF CopyFile, TypeOK
      <4>3. MayDiffer(g) => MayDiffer(g)'
        BY <1>6, <4>2 DEF MayDiffer, CopyFile
      <4> QED
        BY <1>6, <4>1, <4>2, <4>3 DEF AllAccounted, CopyFile
    <3> QED
      BY <3>1, <3>2 DEF AllAccounted
  <2>2. ListsDisjoint'
    BY <1>6 DEF CopyFile, ListsDisjoint
  <2>3. KeptIsTheirs'
    BY <1>0, <1>6 DEF CopyFile, KeptIsTheirs, TypeOK
  <2> QED
    BY <1>6, <2>1, <2>2, <2>3 DEF CopyFile
<1>7. CASE AllCopied
  <2>1. AllAccounted'
    BY <1>7 DEF AllCopied, AllAccounted, MayDiffer
  <2> QED
    BY <1>7, <2>1 DEF AllCopied, ListsDisjoint, KeptIsTheirs
<1>8. CASE Quit
  <2>1. MetaKnown'
    BY <1>0, <1>8 DEF Quit, CleanUp, MetaKnown, AllAccounted, MayDiffer,
                      KeptIsTheirs, ListsDisjoint, ListsEmpty
  <2> QED
    BY <1>8, <2>1 DEF Quit, CleanUp, ListsDisjoint
<1>9. CASE MetadataFails
  <2>1. MetaKnown'
    BY <1>9 DEF MetadataFails, CleanUp, MetaKnown
  <2> QED
    BY <1>9, <2>1 DEF MetadataFails, CleanUp, ListsDisjoint
<1>10. CASE UNCHANGED vars
  BY <1>10 DEF vars, ListsDisjoint, MetaKnown, AllAccounted, MayDiffer,
               KeptIsTheirs
<1> QED
  BY <1>1, <1>2, <1>3, <1>4, <1>5, <1>6, <1>7, <1>8, <1>9, <1>10
  DEF Next, CopyFails

\* As long as no copy has failed, a finished update has installed the release,
\* but for what the user keeps.
THEOREM UpdateComplete == Spec => []UpdatedUnlessFailed
<1>1. Init => UpdateInv
  BY DEF Init, UpdateInv, ListsDisjoint, MetaKnown
<1>2. ConsentInv /\ UpdateInv => UpdatedUnlessFailed
  BY DEF ConsentInv, ListsEmpty, UpdateInv, AllAccounted, SuccessMeansUpdated,
         UpdatedUnlessFailed
<1> QED
  BY <1>1, <1>2, ConsentInvariant, UpdateInductive, PTL DEF Spec

\* As long as no copy has failed, the user is only asked about files that they
\* changed or kept, that an earlier update left to them, or that the installed
\* release does not know.
THEOREM AsksAboutChangedFiles == Spec => []OnlyAsksAboutChangedFiles
<1>1. Init => UpdateInv /\ OnlyAsksAboutChangedFiles
  BY DEF Init, UpdateInv, ListsDisjoint, MetaKnown, OnlyAsksAboutChangedFiles
<1>2. ConsentInv /\ ConsentInv' /\ UpdateInv /\ OnlyAsksAboutChangedFiles
        /\ [Next]_vars => OnlyAsksAboutChangedFiles'
  <2> SUFFICES ASSUME ConsentInv, ConsentInv', UpdateInv,
                      OnlyAsksAboutChangedFiles, [Next]_vars, ~failed'
               PROVE  OnlyAsksAboutChangedFiles'
    BY DEF OnlyAsksAboutChangedFiles
  <2> USE DEF OnlyAsksAboutChangedFiles
  <2>1. ASSUME NEW u \in [File -> Release \cup {Absent}],
               NEW um \in SUBSET {f \in MayBeModifiable : u[f] # Absent},
               ValidateUpdateFiles(u, um)
        PROVE  OnlyAsksAboutChangedFiles'
    <3>1. MetaKnown
      BY <2>1 DEF UpdateInv, ValidateUpdateFiles
    <3> QED
      BY <2>1, <3>1 DEF ValidateUpdateFiles, Replace, NeedToAsk, MetaKnown
  <2>2. ASSUME NEW replace \in BOOLEAN, NEW forAll \in BOOLEAN, NEW f \in File,
               ShowNextReplaceDialog(replace, forAll, f)
        PROVE  OnlyAsksAboutChangedFiles'
    BY <2>2 DEF ShowNextReplaceDialog, Answered
  <2>3. CASE phase' # "confirming"
    BY <2>3 DEF ConsentInv, ListsEmpty
  <2>4. CASE UNCHANGED vars
    BY <2>4 DEF vars
  <2> QED
    BY <2>1, <2>2, <2>3, <2>4
    DEF Next, UserChanges, CancelInstallation, CopyMetadata, CopyFile, CopyFails,
        AllCopied, MetadataFails, Quit, CleanUp
<1> QED
  BY <1>1, <1>2, ConsentInvariant, UpdateInductive, PTL DEF Spec
=============================================================================
