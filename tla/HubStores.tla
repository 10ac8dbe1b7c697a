------------------------------ MODULE HubStores ------------------------------
(***************************************************************************)
(* Files the hub keeps beside the history, in three parts that are checked *)
(* one at a time, each with the process ending between any two steps: the  *)
(* notes of profiles in profile-notes.json, which are loaded once and may  *)
(* come from the directory of an earlier version; the configuration, which *)
(* updaters of internal/config read, change and replace, those of devices  *)
(* under deviceFileMu and the others under nothing, all by way of the same *)
(* temporary file; and the import of the JSON history into SQLite.         *)
(***************************************************************************)
EXTENDS Naturals, FiniteSets

CONSTANTS
    Card, Text,        \* notes of cards
    None, NoFile,
    Updater, Device,   \* updates of the configuration, and its devices
    Record,            \* records of the JSON history
    MaxChanges         \* bound: updates, saves and faults

VARIABLES
    notesFile,      \* profile-notes.json: notes, or NoFile
    legacy,    \* that of the earlier version
    broken,    \* file does not parse at the moment
    loaded, profileNotes, \* what the process has loaded
    promised   \* history: notes a request was told are saved, or "any"

notes_ == <<notesFile, legacy, broken, loaded, profileNotes, promised>>

VARIABLES
    config, tmp, \* the configuration and its temporary file: [devices, web]
    inMemory,      \* globalConfig
    lock,        \* deviceFileMu
    at, copy,    \* updaters: control state, what they are to write
    kept,        \* history: what updaters were told the configuration is
    raced   \* history: one not under the lock ran beside another

config_ == <<config, tmp, inMemory, lock, at, copy, kept, raced>>

VARIABLES
    source,    \* records of the JSON file
    readable,  \* it can be read, and no two records of it contradict
    rows, marker, \* the database: records, and history_migration
    work       \* the open transaction: [rows, marker], or None

import_ == <<source, readable, rows, marker, work>>

VARIABLE changes
vars == <<notes_, config_, import_, changes>>

Notes == [Card -> Text \cup {None}]
NoNotes == [c \in Card |-> None]

\* What a configuration has to satisfy.
StoresAssumption == None \notin Updater /\ NoFile \notin Notes

Init ==
    /\ notesFile \in Notes \cup {NoFile} /\ legacy \in Notes \cup {NoFile}
    /\ broken = FALSE /\ loaded = FALSE /\ profileNotes = NoNotes
    /\ promised = IF notesFile # NoFile THEN notesFile ELSE IF legacy # NoFile THEN legacy ELSE NoNotes
    /\ config = [devices |-> {}, web |-> 0] /\ tmp = config /\ inMemory = config
    /\ lock = None /\ at = [u \in Updater |-> "idle"] /\ copy = [u \in Updater |-> config]
    /\ kept = config /\ raced = FALSE
    /\ source \in SUBSET Record /\ readable \in BOOLEAN
    /\ rows = {} /\ marker = FALSE /\ work = None
    /\ changes = 0

Bounded == changes < MaxChanges /\ changes' = changes + 1

-----------------------------------------------------------------------------
\* Notes, under profileNotesMu

\* What a process that has loaded nothing would find.
Found == IF notesFile # NoFile THEN notesFile ELSE IF legacy # NoFile THEN legacy ELSE NoNotes

BugLoadable == TRUE
Loadable == ~broken

\* Whether loadProfileNotesLocked succeeds, and with what.
Loads(result) ==
    \/ loaded /\ result = profileNotes
    \/ ~loaded /\ Loadable /\ result = IF broken THEN NoNotes ELSE Found

ListNotes ==
    /\ ~loaded /\ loaded' = TRUE /\ Loads(profileNotes')
    /\ UNCHANGED <<notesFile, legacy, broken, promised, config_, import_, changes>>

\* saveESIMNote.  If the file cannot be replaced, memory stays ahead of it.
SaveNote(c, text) ==
    /\ Bounded /\ loaded' = TRUE
    /\ \E found \in Notes :
         Loads(found) /\ profileNotes' = [found EXCEPT ![c] = text]
    /\ \/ notesFile' = profileNotes' /\ broken' = FALSE /\ promised' = [promised EXCEPT ![c] = text]
       \/ promised' = [promised EXCEPT ![c] = "any"] /\ UNCHANGED <<notesFile, broken>>
    /\ UNCHANGED <<legacy, config_, import_>>

\* The process ends, before the file is replaced or after.
RestartHub ==
    /\ loaded /\ Bounded
    /\ loaded' = FALSE /\ profileNotes' = NoNotes
    /\ UNCHANGED <<notesFile, legacy, broken, promised, config_, import_>>

\* Somebody edits the file so that it does not parse, or mends it.
EditFile ==
    /\ notesFile # NoFile /\ Bounded /\ broken' = ~broken
    /\ UNCHANGED <<notesFile, legacy, loaded, profileNotes, promised, config_, import_>>

NotesNext ==
    \/ ListNotes \/ RestartHub \/ EditFile
    \/ \E c \in Card, text \in Text \cup {None} : SaveNote(c, text)

-----------------------------------------------------------------------------
\* The configuration

Locked(u) == lock = u
Busy == {u \in Updater : at[u] # "idle"}

\* AddDeviceInFile, UpdateDeviceInFile and DeleteDeviceInFile change the
\* devices of the file read, or refuse; UpdateDeviceIMEIInFile is like them.
ChangeDevices(u) ==
    /\ at[u] = "idle" /\ lock = None /\ Bounded
    /\ lock' = u /\ at' = [at EXCEPT ![u] = "write"]
    /\ \E d \in Device :
         \E devices \in {config.devices \cup {d}, config.devices \ {d}} :
           /\ devices # config.devices
           /\ copy' = [copy EXCEPT ![u] = [config EXCEPT !.devices = devices]]
    /\ raced' = (raced \/ Busy # {})
    /\ UNCHANGED <<config, tmp, inMemory, kept, notes_, import_>>

\* UpdateNotificationInFile and UpdateWebCredentialsInFile.
ChangeSection(u) ==
    /\ at[u] = "idle" /\ Bounded
    /\ at' = [at EXCEPT ![u] = "write"]
    /\ copy' = [copy EXCEPT ![u] = [config EXCEPT !.web = changes']]
    /\ raced' = (raced \/ Busy # {})
    /\ UNCHANGED <<config, tmp, inMemory, lock, kept, notes_, import_>>

WriteTemporary(u) ==
    /\ at[u] = "write"
    /\ tmp' = copy[u] /\ at' = [at EXCEPT ![u] = "rename"]
    /\ UNCHANGED <<config, inMemory, lock, copy, kept, raced, notes_, import_, changes>>

\* Only an update of devices is followed by ReloadFromFile.
Replace(u) ==
    /\ at[u] = "rename" /\ at' = [at EXCEPT ![u] = "idle"]
    /\ config' = tmp
    /\ IF Locked(u)
       THEN /\ kept' = [kept EXCEPT !.devices = copy[u].devices]
            /\ lock' = None /\ inMemory' \in {config', inMemory}
       ELSE /\ kept' = [kept EXCEPT !.web = copy[u].web]
            /\ UNCHANGED <<lock, inMemory>>
    /\ UNCHANGED <<tmp, copy, raced, notes_, import_, changes>>

\* An error, which leaves the temporary file, or the end of the process.
UpdateFails(u) ==
    /\ at[u] # "idle" /\ at' = [at EXCEPT ![u] = "idle"]
    /\ lock' = IF Locked(u) THEN None ELSE lock
    /\ UNCHANGED <<config, tmp, inMemory, copy, kept, raced, notes_, import_, changes>>

ConfigNext ==
    \E u \in Updater :
        ChangeDevices(u) \/ ChangeSection(u) \/ WriteTemporary(u) \/ Replace(u) \/ UpdateFails(u)

-----------------------------------------------------------------------------
\* openDatabase(legacy)

BeginImport ==
    /\ work = None /\ ~marker
    /\ readable /\ work' = [rows |-> {}, marker |-> FALSE]
    /\ UNCHANGED <<source, readable, rows, marker, notes_, config_, changes>>

\* CreateInBatches; then the marker.
ImportRows ==
    /\ work # None
    /\ \/ \E r \in source \ work.rows : work' = [work EXCEPT !.rows = @ \cup {r}]
       \/ source \subseteq work.rows /\ ~work.marker /\ work' = [work EXCEPT !.marker = TRUE]
    /\ UNCHANGED <<source, readable, rows, marker, notes_, config_, changes>>

Commit ==
    /\ work # None /\ work.marker
    /\ rows' = rows \cup work.rows /\ marker' = TRUE /\ work' = None
    /\ UNCHANGED <<source, readable, notes_, config_, changes>>

\* An error or the end of the process: the transaction is rolled back.
RollBack ==
    /\ work # None /\ Bounded /\ work' = None
    /\ UNCHANGED <<source, readable, rows, marker, notes_, config_>>

MendSource ==
    /\ work = None /\ Bounded /\ readable' = ~readable
    /\ UNCHANGED <<source, rows, marker, work, notes_, config_>>

ImportNext == BeginImport \/ ImportRows \/ Commit \/ RollBack \/ MendSource

-----------------------------------------------------------------------------
Next == NotesNext \/ ConfigNext \/ ImportNext
Spec == Init /\ [][Next]_vars

\* What a request was told is saved is what is loaded after the process ends,
\* at any time: notes, even when the file was not readable for a while;
\* updates of the configuration, unless one that takes no lock ran beside
\* another; and every record of the JSON history, once its import is marked
\* as done.
\* (loadProfileNotesLocked, saveESIMNote, updateDevicesInFile, openDatabase)
SavedIsDurable ==
    /\ \A c \in Card : promised[c] \in {"any", Found[c]}
    /\ ~raced => config = kept
    /\ marker => source \subseteq rows
=============================================================================
