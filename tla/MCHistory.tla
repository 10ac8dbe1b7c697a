------------------------------ MODULE MCHistory ------------------------------
(* The three users of the communication history in one state space: `which` *)
(* chooses one.  The poller runs in two ways, on two cards with a long      *)
(* message, and on one with the user's cleanup, an undecodable message and  *)
(* time; and so do the calls, on two cards and at two indexes.              *)
EXTENDS SMSPoller

CONSTANTS
    A, B, Call, Incoming, NoCall, Index, Fault, MaxRecords,
    Id, MaxVersion, Dir, None, Owner, Keep, MaxFiles, BackupFault

VARIABLES
    which,
    callCard, line, talking, carrier, callSwapped, callPC, before, listing,
    callRecords, active, callDirty, callDurable, cut, misjudged,
    backupRecords, backupDurable, backupDirty, config, draft, backupPC, due, files

C == INSTANCE CallHistory WITH
    card <- callCard, swapped <- callSwapped, pc <- callPC,
    records <- callRecords, dirty <- callDirty, durable <- callDurable

K == INSTANCE HistoryBackup WITH
    Fault <- BackupFault, pc <- backupPC,
    records <- backupRecords, durable <- backupDurable, dirty <- backupDirty

ASSUME HistoryConfiguration == C!HistoryAssumption /\ K!BackupAssumption

OneLong == {"long"}
OneGarbled == {"garbled"}

calls ==
    <<callCard, line, talking, carrier, callSwapped, callPC, before, listing,
      callRecords, active, callDirty, callDurable, cut, misjudged>>

backup ==
    <<backupRecords, backupDurable, backupDirty, config, draft, backupPC, due, files>>

MCInit ==
    /\ which \in {"poll", "manual", "cards", "indexes", "backup"}
    /\ Init /\ C!Init /\ K!Init
    /\ which \notin {"poll", "manual"} => card = NoCard /\ selected = "SM"
    /\ which = "manual" => card # B
    /\ which \notin {"cards", "indexes"} => callCard = NoCard
    /\ which \in {"cards", "indexes"} => callCard = A

\* Once a selection has gone astray no command fails and no card changes.
OnlyAstray == strayed' \/ mistaken' # {} => failures' = 0 /\ ~swapped'

Poll ==
    /\ Next
    /\ clearing' = "idle" /\ clock' = 0
    /\ OnlyAstray
    /\ strayed' \/ mistaken' # {} => ~dirty'
    /\ \A p \in Part : p.key \in Garbled => placed'[p] = "network"

ManualPoll ==
    /\ Next
    /\ OnlyAstray
    /\ card' # B
    /\ \A p \in Part : p.key \in Long => placed'[p] = "network"

\* One index, saves that succeed, answers that are whole, nothing but calls in
\* the log.
CallsOnTwoCards ==
    /\ C!Next
    /\ line'[2] = NoCall /\ callCard' # NoCard /\ ~callDirty' /\ cut' = {}
    /\ carrier'["out"] # NoCard => carrier'["in"] # NoCard
    /\ \A i \in DOMAIN callRecords' : callRecords'[i].number # NoCall

\* One card; no save fails once an answer was cut.
CallsAtTwoIndexes ==
    /\ C!Next
    /\ callCard' = A
    /\ cut' \cup misjudged' # {} => ~callDirty'

MCNext ==
    /\ \/ which = "poll" /\ Poll /\ UNCHANGED <<calls, backup>>
       \/ which = "manual" /\ ManualPoll /\ UNCHANGED <<calls, backup>>
       \/ which = "cards" /\ CallsOnTwoCards /\ UNCHANGED <<vars, backup>>
       \/ which = "indexes" /\ CallsAtTwoIndexes /\ UNCHANGED <<vars, backup>>
       \/ which = "backup" /\ K!Next /\ UNCHANGED <<vars, calls>>
    /\ UNCHANGED which

MCSpec == MCInit /\ [][MCNext]_<<which, vars, calls, backup>>

\* SMSPoller: a message filed under a card was received for it, unless a listing
\* took it for one of SM's; with the poller's types.
ArchiveIsSound == TypeOK /\ AttributionKept

\* CallHistory: what the log says at any time.
LogIsSound == C!LogIsSound

\* CallHistory: a call is recorded as over only when it is, or when it was left
\* out of an answer cut short; and without that exception.
HangupIsReal == C!HangupIsReal
ReadFailureIsNoHangup == C!ReadFailureIsNoHangup

\* HistoryBackup: what backups, rotation, restores and crashes may never do.
BackupsAreSound == K!BackupsAreSound

\* HistoryBackup: what a comment says of the fingerprint.
FingerprintCoversSnapshot == K!FingerprintCoversSnapshot
=============================================================================
