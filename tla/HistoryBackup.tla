---------------------------- MODULE HistoryBackup ----------------------------
(***************************************************************************)
(* Snapshots of the communication history: cmd/dj4ghub-macos/              *)
(* history_backup.go, over the saves of communication_history.go and       *)
(* history_sqlite.go.  A backup snapshots the database into a directory of *)
(* the user's, notes what it covered (a fingerprint of the records in      *)
(* memory) and removes its older files; a restore merges a snapshot into   *)
(* the records.  Everything runs under h.mu, so the steps of one handler   *)
(* are separated here only where a crash or a failure may come between.    *)
(***************************************************************************)
EXTENDS Naturals, Sequences, FiniteSets, SequencesExt

CONSTANTS
    Id,          \* record IDs
    MaxVersion,  \* bound: versions of a record (a call's record changes)
    Dir,         \* directories the user may choose
    None,        \* no directory, file, owner or fingerprint
    Owner,       \* tokens an installation may draw
    Keep,        \* snapshots kept in a directory: 10 in the code
    MaxFiles,    \* bound: files in a directory
    Fault        \* what may go wrong: "save", "config", "crash"

(* What a configuration has to satisfy. *)
BackupAssumption ==
    /\ MaxVersion \in Nat \ {0}
    /\ Keep \in Nat \ {0}
    /\ MaxFiles \in Nat /\ MaxFiles > Keep
    /\ None \notin Dir \cup Owner
    /\ Fault \subseteq {"save", "config", "crash"}

(* The content of the records or of a database: each record's version, 0   *)
(* if it is not there.                                                     *)
Content == [Id -> 0 .. MaxVersion]

Empty == [r \in Id |-> 0]

(* A snapshot file; its name is its owner and its time. *)
File == [owner : Owner, content : Content]

VARIABLES
    records,  \* h.records
    durable,  \* the database
    dirty,    \* h.dirty
    config,   \* h.backup, and history-backup.json: both change in one step
    draft,    \* the config of the backup in progress
    pc,       \* where it is
    due,      \* thirty minutes have passed since config.LastTime
    files     \* this installation's snapshots in each directory, oldest first

data == <<records, durable, dirty>>

vars == <<data, config, draft, pc, due, files>>

NoConfig == [directory |-> None, enabled |-> FALSE, owner |-> None, fingerprint |-> None, last |-> None]

Init ==
    /\ records = Empty
    /\ durable = Empty
    /\ dirty = FALSE
    /\ config = NoConfig
    /\ draft = NoConfig
    /\ pc = "idle"
    /\ due = TRUE
    /\ files = [d \in Dir |-> <<>>]
-----------------------------------------------------------------------------
(* The records: appendHistory and observe, with their save.                *)

Save ==
    \/ durable' = records' /\ dirty' = FALSE
    \/ "save" \in Fault /\ dirty' = TRUE /\ UNCHANGED durable

Change(r) ==
    /\ pc = "idle"
    /\ records[r] < MaxVersion
    /\ records' = [records EXCEPT ![r] = @ + 1]
    /\ Save
    /\ UNCHANGED <<config, draft, pc, due, files>>

(* An observation that changes nothing saves what is dirty. *)
SaveAgain ==
    /\ pc = "idle"
    /\ dirty
    /\ records' = records
    /\ Save
    /\ UNCHANGED <<config, draft, pc, due, files>>
-----------------------------------------------------------------------------
(* The backup.                                                             *)

BugConfigureKeepsFingerprint(d, enabled) ==
    /\ pc = "idle"
    /\ config' = [config EXCEPT !.directory = d, !.enabled = enabled]
    /\ UNCHANGED <<data, draft, pc, due, files>>

(* historyBackupAction, "configure": another directory starts afresh.      *)
Configure(d, enabled) ==
    /\ pc = "idle"
    /\ IF config.directory = d
       THEN /\ config' = [config EXCEPT !.enabled = enabled]
            /\ UNCHANGED due
       ELSE /\ config' = [config EXCEPT !.directory = d, !.enabled = enabled,
                                        !.fingerprint = None, !.last = None]
            /\ due' = TRUE
    /\ UNCHANGED <<data, draft, pc, files>>

TimePasses ==
    /\ ~due
    /\ due' = TRUE
    /\ UNCHANGED <<data, config, draft, pc, files>>

(* backupNow up to the rename that publishes the snapshot.  The token is   *)
(* drawn, at random, if there is none yet.  An unreachable directory is an *)
(* error that changes nothing.                                             *)
Publish ==
    /\ config.directory # None
    /\ Len(files[config.directory]) < MaxFiles
    /\ \E token \in Owner :
          /\ IF config.owner # None
             THEN token = config.owner
             ELSE \A d \in Dir : \A i \in DOMAIN files[d] : files[d][i].owner # token
          /\ LET file == [owner |-> token, content |-> durable]
             IN  /\ files' = [files EXCEPT ![config.directory] = Append(@, file)]
                 /\ draft' = [config EXCEPT !.owner = token, !.last = file, !.fingerprint = records]
    /\ pc' = "published"
    /\ UNCHANGED <<data, config, due>>

(* The user asks for a backup. *)
BackupNow ==
    /\ pc = "idle"
    /\ Publish

(* backupIfDue, once a minute. *)
BackupIfDue ==
    /\ pc = "idle"
    /\ config.enabled
    /\ due
    /\ records # config.fingerprint
    /\ Publish

SaveConfig ==
    /\ pc = "published"
    /\ config' = draft
    /\ due' = FALSE
    /\ pc' = "saved"
    /\ UNCHANGED <<data, draft, files>>

EndBackup ==
    /\ pc' = "idle"
    /\ draft' = NoConfig

(* The settings file cannot be written: the backup ends in an error. *)
SaveConfigFails ==
    /\ "config" \in Fault
    /\ pc = "published"
    /\ EndBackup
    /\ UNCHANGED <<data, config, due, files>>

(* The place of i among the positions S. *)
Nth(S, i) == Cardinality({j \in S : j <= i})

(* What a directory holds at the positions S. *)
Picked(seq, S) == [n \in 1 .. Cardinality(S) |-> seq[CHOOSE i \in S : Nth(S, i) = n]]

(* The positions of this owner's files. *)
Own(d) == {i \in DOMAIN files[d] : files[d][i].owner = config.owner}

(* Those of its oldest files, all but Keep of them. *)
Surplus(d) == {i \in Own(d) : Nth(Own(d), i) + Keep <= Cardinality(Own(d))}

(* The oldest files with this owner's prefix go until Keep of them are     *)
(* left.                                                                   *)
Rotate ==
    LET d == config.directory
    IN  /\ pc = "saved"
        /\ files' = [files EXCEPT ![d] = Picked(@, DOMAIN @ \ Surplus(d))]
        /\ EndBackup
        /\ UNCHANGED <<data, config, due>>
-----------------------------------------------------------------------------
BugMergedOverwrites(content) == [r \in Id |-> IF content[r] # 0 THEN content[r] ELSE records[r]]

(* A record that is there stays as it is. *)
Merged(content) == [r \in Id |-> IF records[r] # 0 THEN records[r] ELSE content[r]]

(* restoreBackup from any file, this installation's or another's (external: *)
(* what it holds), while no call is active: the missing records are added  *)
(* and saved; a save that fails puts the old records back.  The snapshot   *)
(* made for safety before that is left out: nothing reads it.              *)
Restore(content) ==
    /\ pc = "idle"
    /\ \/ /\ records' = Merged(content)
          /\ durable' = records'
          /\ dirty' = FALSE
       \/ "save" \in Fault /\ UNCHANGED data
    /\ UNCHANGED <<config, draft, pc, due, files>>

(* The process dies and is started again. *)
Crash ==
    /\ "crash" \in Fault
    /\ records' = durable
    /\ dirty' = FALSE
    /\ EndBackup
    /\ UNCHANGED <<durable, config, due, files>>

Next ==
    \/ \E r \in Id : Change(r)
    \/ SaveAgain
    \/ \E d \in Dir, enabled \in BOOLEAN : Configure(d, enabled)
    \/ TimePasses
    \/ BackupNow
    \/ BackupIfDue
    \/ SaveConfig
    \/ SaveConfigFails
    \/ Rotate
    \/ \E content \in Content : Restore(content)
    \/ Crash

Spec == Init /\ [][Next]_vars

(* The minute's timer keeps firing, time passes, and a handler that has    *)
(* begun goes on; observations keep saving what is dirty.                  *)
LiveSpec ==
    /\ Spec
    /\ WF_vars(TimePasses)
    /\ SF_vars(BackupIfDue)
    /\ WF_vars(SaveConfig)
    /\ WF_vars(Rotate)
    /\ WF_vars(SaveAgain)
-----------------------------------------------------------------------------
(* The records, the settings and the snapshots have the types of the Go    *)
(* values; a backup in progress knows the directory it writes to.          *)
TypeOK ==
    /\ {records, durable} \subseteq Content
    /\ dirty \in BOOLEAN
    /\ \A c \in {config, draft} :
          /\ c.directory \in Dir \cup {None}
          /\ c.enabled \in BOOLEAN
          /\ c.owner \in Owner \cup {None}
          /\ c.fingerprint = None \/ c.fingerprint \in Content
          /\ c.last = None \/ c.last \in File
    /\ pc \in {"idle", "published", "saved"}
    /\ pc # "idle" => draft.directory = config.directory /\ config.directory # None
    /\ due \in BOOLEAN
    /\ files \in [Dir -> Seq(File)]

(* A clean history is the one on disk: a restore that could not be saved   *)
(* leaves nothing in memory that the program takes for saved.              *)
CleanIsDurable == ~dirty => durable = records

(* The file the settings call the last backup is still there: rotation     *)
(* takes the oldest files, whatever crashes and changes of directory did.  *)
LastBackupKept ==
    config.last # None => config.last \in ToSet(files[config.directory])

(* No record is lost or goes back to an older version on disk: a restore   *)
(* adds only what is missing.                                              *)
NothingGoesBack == [][\A r \in Id : durable'[r] >= durable[r]]_vars

(* A backup that completes leaves at most Keep snapshots of its owner in   *)
(* the directory, however many backups before it were cut short between    *)
(* publishing their file and removing the old ones.                        *)
SnapshotsBounded ==
    [][Rotate => Cardinality(Own(config.directory)') <= Keep]_vars

(* What backups, rotation, restores and crashes may never do.              *)
BackupsAreSound ==
    /\ [](TypeOK /\ CleanIsDurable /\ LastBackupKept)
    /\ NothingGoesBack
    /\ SnapshotsBounded

(* The fingerprint and the snapshot of a backup cover the same records.    *)
FingerprintCoversSnapshot ==
    config.last # None => config.fingerprint = config.last.content

Covered(r, v) ==
    config.directory # None
        /\ \E i \in DOMAIN files[config.directory] : files[config.directory][i].content[r] >= v

SaveFails == dirty' /\ (SaveAgain \/ \E r \in Id : Change(r))

Disturbs ==
    \/ SaveFails
    \/ SaveConfigFails
    \/ Crash
    \/ \E d \in Dir, enabled \in BOOLEAN : Configure(d, enabled)

(* What is on disk reaches a snapshot in the chosen directory once saves,  *)
(* settings and process do not fail any more and the user leaves the       *)
(* settings alone, whatever failed before; unless the last backup was      *)
(* taken of a database that lacked a record it has the fingerprint of.     *)
ChangesReachBackup ==
    <>[][~Disturbs]_vars =>
        \A r \in Id, v \in 1 .. MaxVersion :
            (durable[r] >= v /\ config.enabled)
                ~> (Covered(r, v) \/ ~config.enabled \/ ~FingerprintCoversSnapshot)
=============================================================================
