------------------------------- MODULE MCEsim -------------------------------
(* The manager, the notifications and the transports in one state space:    *)
(* `which` chooses the part that runs; the other two stand still.           *)
EXTENDS EsimManager

CONSTANTS Profile, MaxOps, Client, Channel, NoChannel, NoLease, TransportCalls, MaxTrouble

VARIABLES
    which,
    list, seq, installed, sent, removed, withheld, result, ops,
    kind, arbiter, lease, fence, open, epoch, conn, started, tpc, top, my,
    mu, wire, orphans, bereft, tcalls, trouble, expired

N == INSTANCE EsimNotifications

T == INSTANCE EsimTransports WITH
    MaxCalls <- TransportCalls, pc <- tpc, op <- top, calls <- tcalls

ASSUME EsimConfiguration == T!TransportsAssumption

notes == <<list, seq, installed, sent, removed, withheld, result, ops>>

wires == <<kind, arbiter, lease, fence, open, epoch, conn, started, tpc, top, my,
           mu, wire, orphans, bereft, tcalls, trouble, expired>>

NotesIdle ==
    /\ list = {} /\ seq = 0 /\ sent = {} /\ removed = {} /\ withheld = {}
    /\ installed = {} /\ result = N!Failed("none") /\ ops = MaxOps

WiresIdle == T!Init /\ kind = "at"

MCInit ==
    \/ which = "manager" /\ Init /\ NotesIdle /\ WiresIdle
    \/ which = "notes" /\ N!Init /\ Init /\ cache = 0 /\ WiresIdle
    \/ which = "wires" /\ T!Init /\ Init /\ cache = 0 /\ NotesIdle

MCNext ==
    \/ which = "manager" /\ Next /\ UNCHANGED <<which, notes, wires>>
    \/ which = "notes" /\ N!Next /\ UNCHANGED <<which, vars, wires>>
    \/ which = "wires" /\ T!Next /\ UNCHANGED <<which, vars, notes>>

MCSpec == MCInit /\ [][MCNext]_<<which, vars, notes, wires>>

\* EsimNotifications: a success without a warning has told the server.
SuccessIsNotified == N!SuccessIsNotified

\* EsimNotifications: the cleanup removes only what the server has received.
RemovedWereSent == N!RemovedWereSent

\* EsimTransports: what may be on the wire together.
WireExclusion == T!WireExclusion

\* EsimTransports: every open channel has an owner who can close it.
ChannelsAccounted == T!ChannelsAccounted
=============================================================================
