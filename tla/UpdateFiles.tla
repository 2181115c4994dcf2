---------------------------- MODULE UpdateFiles ----------------------------
(***************************************************************************)
(* What an update does to the installed files: CUpdateInstaller's          *)
(* ValidateUpdateFiles decides which files to replace and which to ask     *)
(* about, ShowNextReplaceDialog records the answers, BeginFileUpdating's   *)
(* task copies the metadata file and then the files, one after another.    *)
(*                                                                         *)
(* A file's hash stands for its content.  Files have no names here: the    *)
(* order of the file lists is any order.  The user changes files between   *)
(* updates only, not while one is running.                                 *)
(***************************************************************************)
CONSTANTS
    File,
    PlatFile,       \* .exe, .dll, .pdb and .so files
    SpecialFile,    \* those that are moved out of the way before the copy
    MayBeModifiable,\* those that a release may flag as user_modifiable
    Release,        \* contents that releases ship
    Edited,         \* content made by the user
    Broken,         \* content of a copy that failed halfway
    Absent          \* no such file, or no hash of it in the metadata

ASSUME FilesAssumption ==
    /\ PlatFile \subseteq File
    /\ SpecialFile \subseteq PlatFile
    /\ MayBeModifiable \subseteq File
    /\ {Edited, Broken, Absent} \cap Release = {}
    /\ Edited # Broken /\ Edited # Absent /\ Broken # Absent

VARIABLES
    fs,             \* the files in the game directory
    meta,           \* the hashes in the installed metadata file
    phase,
    new,            \* the files of the update, as its metadata has them
    metaIsUserModifiable, \* those it leaves to the user, by the same metadata
    oldMeta,        \* m_CurrentMetadata: meta when the update began
    m_FilesToUpdate,
    m_FilesToAsk,   \* those not asked about yet
    consent,        \* history: files the user agreed to replace
    declined,       \* history: files the user declined to replace
    edited,         \* history: files the user changed or kept, or an update
                    \* left to them, not replaced since
    failed          \* history: the copy of a file has failed

vars == <<fs, meta, phase, new, metaIsUserModifiable, oldMeta, m_FilesToUpdate,
          m_FilesToAsk, consent, declined, edited, failed>>

Content == Release \cup {Edited, Broken}

Phase == {"idle", "confirming", "metadata", "copying", "done"}

TypeOK ==
    /\ fs \in [File -> Content \cup {Absent}]
    /\ meta \in [File -> Release \cup {Absent}]
    /\ phase \in Phase
    /\ new \in [File -> Release \cup {Absent}]
    /\ metaIsUserModifiable \subseteq File
    /\ oldMeta \in [File -> Release \cup {Absent}]
    /\ m_FilesToUpdate \subseteq File
    /\ m_FilesToAsk \subseteq File
    /\ consent \subseteq File
    /\ declined \subseteq File
    /\ edited \subseteq File
    /\ failed \in BOOLEAN

\* CleanUp: nothing of an update is left (its history is not needed either).
NoUpdate == [f \in File |-> Absent]

CleanUp ==
    /\ phase' = "idle"
    /\ new' = NoUpdate
    /\ metaIsUserModifiable' = {}
    /\ oldMeta' = NoUpdate
    /\ m_FilesToUpdate' = {}
    /\ m_FilesToAsk' = {}
    /\ consent' = {}
    /\ declined' = {}

\* An installation as some release left it.
Init ==
    /\ meta \in [File -> Release \cup {Absent}]
    /\ fs = meta
    /\ phase = "idle"
    /\ new = NoUpdate
    /\ metaIsUserModifiable = {}
    /\ oldMeta = NoUpdate
    /\ m_FilesToUpdate = {}
    /\ m_FilesToAsk = {}
    /\ consent = {}
    /\ declined = {}
    /\ edited = {}
    /\ failed = FALSE

-----------------------------------------------------------------------------
(* ValidateUpdateFiles, for a file f of an update u that flags the
   files um as user-modifiable. *)

\* IsPlatFile is asked about files that exist only.
IsPlatFile(f) == fs[f] # Absent /\ f \in PlatFile

\* The file is to be replaced, perhaps after asking.
Replace(f, u, um) ==
    /\ u[f] # Absent
    /\ fs[f] # u[f]
    /\ ~(fs[f] # Absent /\ f \in um)
    /\ IsPlatFile(f) \/ meta[f] = Absent \/ meta[f] # u[f] \/ fs[f] = Absent

\* Mutant: the file that is there is not compared with the old metadata.
NeedToAskAlways(f, u) == ~IsPlatFile(f) /\ fs[f] # Absent

\* Whether to ask.  A file that the user deleted counts as edited, even a
\* platform file, unless the update is the first to have it.
NeedToAsk(f, u) ==
    /\ ~IsPlatFile(f)
    /\ IF meta[f] = Absent
         THEN fs[f] # Absent /\ u[f] # fs[f]
         ELSE meta[f] # fs[f] /\ u[f] # fs[f]

-----------------------------------------------------------------------------
\* The user edits, deletes or installs a file by hand.
UserChanges(f, c) ==
    /\ phase = "idle"
    /\ fs[f] # c
    /\ fs' = [fs EXCEPT ![f] = c]
    /\ edited' = edited \cup {f}
    /\ UNCHANGED <<meta, phase, new, metaIsUserModifiable, oldMeta,
                   m_FilesToUpdate, m_FilesToAsk, consent, declined, failed>>

\* The files of update u have been extracted, hashed and found to match its
\* metadata (else nothing happens).  That metadata, um, says which files are
\* left to the user; the installed one is not asked.
ValidateUpdateFiles(u, um) ==
    /\ phase = "idle"
    /\ new' = u
    /\ metaIsUserModifiable' = um
    /\ oldMeta' = meta
    /\ consent' = {}
    /\ declined' = {}
    /\ m_FilesToAsk' = {f \in File : Replace(f, u, um) /\ NeedToAsk(f, u)}
    /\ m_FilesToUpdate' = {f \in File : Replace(f, u, um) /\ ~NeedToAsk(f, u)}
    /\ phase' = IF m_FilesToAsk' = {} THEN "metadata" ELSE "confirming"
    /\ UNCHANGED <<fs, meta, edited, failed>>

\* The answers of the confirmation dialogs are in when no file is left.
Answered(replace, files, left) ==
    /\ phase = "confirming"
    /\ consent' = IF replace THEN consent \cup files ELSE consent
    /\ declined' = IF replace THEN declined ELSE declined \cup files
    /\ edited' = IF replace THEN edited ELSE edited \cup files
    /\ m_FilesToAsk' = left
    /\ phase' = IF left = {} THEN "metadata" ELSE "confirming"
    /\ UNCHANGED <<fs, meta, new, metaIsUserModifiable, oldMeta, failed>>

\* Mutant: the answer about one file is taken for all.
AnswerOneForAll(replace, forAll, f) ==
    /\ f \in m_FilesToAsk
    /\ m_FilesToUpdate' =
          IF replace THEN m_FilesToUpdate \cup m_FilesToAsk ELSE m_FilesToUpdate
    /\ Answered(replace, {f}, {})

\* The user's answer about the next file, f, or about all that are left.
ShowNextReplaceDialog(replace, forAll, f) ==
    LET files == IF forAll THEN m_FilesToAsk ELSE {f}
    IN  /\ f \in m_FilesToAsk
        /\ m_FilesToUpdate' =
              IF replace THEN m_FilesToUpdate \cup files ELSE m_FilesToUpdate
        /\ Answered(replace, files, m_FilesToAsk \ files)

\* CancelInstallation, before a file was touched.
CancelInstallation ==
    /\ phase = "confirming"
    /\ CleanUp
    /\ UNCHANGED <<fs, meta, edited, failed>>

-----------------------------------------------------------------------------
(* BeginFileUpdating's task. *)

\* Mutant: the installed metadata is made from the hashes of the old files.
CopyOldHashes ==
    /\ phase = "metadata"
    /\ meta' = fs
    /\ phase' = "copying"
    /\ UNCHANGED <<fs, new, metaIsUserModifiable, oldMeta, m_FilesToUpdate,
                   m_FilesToAsk, consent, declined, edited, failed>>

\* From here on the installed metadata has a hash that a file left to the user
\* does not.
CopyMetadata ==
    /\ phase = "metadata"
    /\ meta' = new
    /\ phase' = "copying"
    /\ edited' = edited \cup
                    {f \in metaIsUserModifiable : fs[f] \notin {Absent, new[f]}}
    /\ UNCHANGED <<fs, new, metaIsUserModifiable, oldMeta, m_FilesToUpdate,
                   m_FilesToAsk, consent, declined, failed>>

CopyFile(f) ==
    /\ phase = "copying"
    /\ f \in m_FilesToUpdate
    /\ fs' = [fs EXCEPT ![f] = new[f]]
    /\ m_FilesToUpdate' = m_FilesToUpdate \ {f}
    /\ edited' = edited \ {f}
    /\ UNCHANGED <<meta, phase, new, metaIsUserModifiable, oldMeta,
                   m_FilesToAsk, consent, declined, failed>>

\* Mutant: one file is left out.
AllCopiedButOne ==
    /\ phase = "copying"
    /\ \E f \in File : m_FilesToUpdate \subseteq {f}
    /\ phase' = "done"
    /\ UNCHANGED <<fs, meta, new, metaIsUserModifiable, oldMeta, m_FilesToUpdate,
                   m_FilesToAsk, consent, declined, edited, failed>>

\* "all files installed"
AllCopied ==
    /\ phase = "copying"
    /\ m_FilesToUpdate = {}
    /\ phase' = "done"
    /\ UNCHANGED <<fs, meta, new, metaIsUserModifiable, oldMeta, m_FilesToUpdate,
                   m_FilesToAsk, consent, declined, edited, failed>>

\* The update ends: the copy of the metadata fails, or the game is killed.
MetadataFails ==
    /\ phase = "metadata"
    /\ CleanUp
    /\ UNCHANGED <<fs, meta, edited, failed>>

\* A copy that fails leaves the old file, or a part of the new one, or, when
\* the old one was moved out of the way first, none.
CopyFails(f) ==
    /\ phase = "copying"
    /\ f \in m_FilesToUpdate
    /\ \/ UNCHANGED fs
       \/ fs' = [fs EXCEPT ![f] = Broken]
       \/ f \in SpecialFile /\ fs' = [fs EXCEPT ![f] = Absent]
    /\ edited' = IF fs' = fs THEN edited ELSE edited \ {f}
    /\ failed' = TRUE
    /\ CleanUp
    /\ UNCHANGED meta

\* The game quits after an update; the next one starts from what it left.
Quit ==
    /\ phase = "done"
    /\ CleanUp
    /\ UNCHANGED <<fs, meta, edited, failed>>

Next ==
    \/ \E f \in File, c \in Release \cup {Edited, Absent} : UserChanges(f, c)
    \/ \E u \in [File -> Release \cup {Absent}] :
         \E um \in SUBSET {f \in MayBeModifiable : u[f] # Absent} :
            ValidateUpdateFiles(u, um)
    \/ \E replace, forAll \in BOOLEAN, f \in File :
          ShowNextReplaceDialog(replace, forAll, f)
    \/ CancelInstallation
    \/ CopyMetadata
    \/ \E f \in File : CopyFile(f) \/ CopyFails(f)
    \/ AllCopied
    \/ MetadataFails
    \/ Quit

Spec == Init /\ [][Next]_vars

-----------------------------------------------------------------------------
(* Properties. *)

\* A file the user edited is never overwritten, not even by a copy that fails,
\* unless the user agreed or it is a platform file.
EditsNeedConsent ==
    [][phase # "idle" =>
          \A f \in File : fs[f] = Edited /\ fs'[f] # Edited =>
                              f \in consent \/ f \in PlatFile]_vars

\* A file that exists and that the update leaves to the user is never touched
\* by it.
ModifiableKept ==
    [][phase # "idle" =>
          \A f \in metaIsUserModifiable : fs[f] # Absent => fs'[f] = fs[f]]_vars

\* As long as no copy has failed, the user is only asked about files that were
\* changed behind the updater's back, that an earlier update left to the user,
\* or that a release before the installed one left there.
OnlyAsksAboutChangedFiles ==
    ~failed => \A f \in m_FilesToAsk : f \in edited \/ oldMeta[f] = Absent

\* What may differ from the release when all files are installed: files the
\* user declined to replace, those that exist and that the release leaves to the
\* user, and files the user changed or kept, or an earlier update left to them,
\* that the release does not change.
MayDiffer(f) ==
    \/ new[f] = Absent
    \/ f \in declined
    \/ f \in metaIsUserModifiable /\ fs[f] # Absent
    \/ f \in edited \ PlatFile /\ oldMeta[f] = new[f] /\ fs[f] # Absent

\* When an update ends well, the game directory is the release, but for what the
\* user keeps.
SuccessMeansUpdated ==
    phase = "done" => \A f \in File : MayDiffer(f) \/ fs[f] = new[f]

\* It does as long as no copy has failed.
UpdatedUnlessFailed == ~failed => SuccessMeansUpdated

=============================================================================
