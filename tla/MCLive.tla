-------------------------------- MODULE MCLive --------------------------------
(* What has to happen in the end, for four modules in one state space:      *)
(* `which` chooses the one that runs, and fairness is that of its actions.  *)
EXTENDS SIMAuthReady

CONSTANTS
    Id, MaxVersion, Dir, None, Owner, Keep, MaxFiles, Fault,
    Client, MaxPlugs, MaxTrouble, Slot, Segments, MaxSends,
    Card, NoCard, Long, Single, Garbled, ManualClear, Truncates, Refuses, MaxClock

VARIABLES
    which,
    records, durable, dirty, config, draft, backupPC, due, files,
    module, plugs, usbAT, handleOn, closed, failed, port, cooling, mu, clientPC, dev, trouble,
    memory, book, editor, job, free, others, lostTo,
    sending, seg, gone, late, misled, told, logged, sends,
    simCard, sim, me, selected, placed, swapped, clock, pollPC, identity, cardIdentity,
    failures, batch, todo, cache, inbox, texts, stored, unsaved, clearing, strayed, mistaken

K == INSTANCE HistoryBackup WITH pc <- backupPC
U == INSTANCE HostUSB WITH
    Caller <- Client, pc <- clientPC, on <- handleOn, strayed <- others
P == INSTANCE SMSPoller WITH
    card <- simCard, pc <- pollPC, records <- texts, durable <- stored, dirty <- unsaved

ASSUME LiveConfiguration == K!BackupAssumption /\ P!PollerAssumption

OneLong == {"long"}

backup == <<records, durable, dirty, config, draft, backupPC, due, files>>
usb ==
    <<module, plugs, usbAT, handleOn, closed, failed, port, cooling, mu, clientPC, dev, trouble,
      memory, book, editor, job, free, others, lostTo,
      sending, seg, gone, late, misled, told, logged, sends>>
poll ==
    <<simCard, sim, me, selected, placed, swapped, clock, pollPC, identity, cardIdentity,
      failures, batch, todo, cache, inbox, texts, stored, unsaved, clearing, strayed, mistaken>>
all == <<which, vars, backup, usb, poll>>

MCInit ==
    /\ which \in {"gate", "backup", "bridge", "poll"}
    /\ Init /\ K!Init /\ U!Init /\ P!Init
    /\ selected = "SM" /\ (which = "poll" <=> simCard # NoCard)
    /\ which # "gate" => card = "up"
    /\ memory = "SM" /\ book = [m \in {"ME", "SM"} |-> [i \in Slot |-> None]]

\* A step of one part, while the others stand still.
Gate(A)   == which = "gate"   /\ A /\ UNCHANGED <<which, backup, usb, poll>>
Backup(A) == which = "backup" /\ A /\ UNCHANGED <<which, vars, usb, poll>>
Bridge(A) == which = "bridge" /\ A /\ UNCHANGED <<which, vars, backup, poll>>
\* The poller has one card, which stays and takes every message.
Poll(A) ==
    /\ which = "poll" /\ A
    /\ simCard' = simCard /\ me' = me
    /\ UNCHANGED <<which, vars, backup, usb>>

\* What a backup cut short leaves, in files and in tokens, leaves room for the
\* next one.
Room ==
    backupPC' = "idle" =>
        /\ \A d \in Dir : MaxFiles \notin DOMAIN files'[d]
        /\ config'.owner = None =>
              \E o \in Owner : \A d \in Dir : \A i \in DOMAIN files'[d] : files'[d][i].owner # o

MCNext == Gate(Next) \/ Backup(K!Next /\ Room) \/ Bridge(U!BridgeNext) \/ Poll(P!Next)

GateFairness ==
    /\ WF_all(Gate(InvalidateSIMAuthReady /\ owed))
    /\ \A w \in Caller :
          /\ WF_all(Gate(ReturnReady(w) \/ Join(w) \/ StartProbe(w)))
          /\ WF_all(Gate(Wake(w)))
          /\ WF_all(Gate(Observe(w)))
          /\ WF_all(Gate(FinishProbe(w)))

BackupFairness ==
    /\ WF_all(Backup(K!TimePasses))
    /\ SF_all(Backup(K!BackupIfDue))
    /\ WF_all(Backup(K!SaveConfig))
    /\ WF_all(Backup(K!Rotate))
    /\ WF_all(Backup(K!SaveAgain))

BridgeFairness ==
    /\ WF_all(Bridge(U!CoolDown))
    /\ \A c \in Client : WF_all(Bridge(U!Request(c)))

PollFairness == WF_all(Poll(P!PollSteps))

MCSpec ==
    /\ MCInit /\ [][MCNext]_all
    /\ GateFairness /\ BackupFairness /\ BridgeFairness /\ PollFairness

\* HistoryBackup: what is on disk reaches a snapshot.
ChangesReachBackup == K!ChangesReachBackup

\* HostUSB: a module that is there has the bridge.
ModuleIsFound == U!ModuleIsFound

\* SMSPoller: a message that stays on the SIM card is archived in the end.
SIMMessagesArchived == P!SIMMessagesArchived
=============================================================================
