---------------------------- MODULE EsimTransports ----------------------------
(***************************************************************************)
(* The APDU transports below the eSIM manager (internal/esim): QMI UIM,    *)
(* MBIM, the serial modem manager and the AT channel of cmd/dj4ghub-macos. *)
(* Each LPA client opens a logical channel of the card, sends APDUs on it  *)
(* and closes it.  QMI and MBIM calls take a lease of the arbiter, then a  *)
(* mutex of the channel; serial ones a lease, then their turn in the       *)
(* command loop; AT commands share one mutex.  A scan of the serial        *)
(* transport first closes the channels 1 to 4, whoever has opened them.    *)
(* The arbiter is the abstract                                             *)
(* CardAccess, which APDUArbiter implements; its watchdog may take a lease *)
(* away while the APDU is on the wire.  The registry of sessions is left   *)
(* out: it chooses the owner's name and class of a lease.                  *)
(***************************************************************************)
EXTENDS Naturals, FiniteSets

CONSTANTS
    Client,      \* LPA clients, each with its channel object
    Channel,     \* logical channels the card can open
    NoChannel,   \* the basic channel 0: none open
    NoLease,
    MaxCalls,    \* bound: calls begun
    MaxTrouble   \* bound: stops, card resets and leases taken by the watchdog

VARIABLES
    kind,       \* "qmi", "mbim", "serial" or "at"
    arbiter,    \* an arbiter has been set
    lease, fence, \* CardAccess: leases held; no fence is raised here
    open,       \* who opened each channel that is open on the card
    epoch,      \* times the map of channel mutexes has been replaced
    conn,       \* the QMI client: its number, 0 when stopped
    started,    \* QMI clients started so far
    pc, op,     \* control state and operation of each client
    my,         \* the channel each client believes it has open
    mu, wire,   \* locals: epoch of the mutex and QMI client of the call
    orphans,    \* history: channels left open by a failure
    bereft,     \* history: clients whose channel was closed behind their back
    calls, trouble, expired

vars == <<kind, arbiter, lease, fence, open, epoch, conn, started, pc, op, my,
          mu, wire, orphans, bereft, calls, trouble, expired>>

Class == {"euicc_write", "usim_aka"}
Scope == {"exclusive", "qmi_channel"}
Leases == [type : {"transport"}, class : Class, channel : Channel \cup {NoChannel}, scope : Scope]

TransportsAssumption == NoChannel \notin Channel /\ NoLease \notin Leases

\* canAcquireTransportNow: leases of the channels of one card.
Compatible(a, b) ==
    a.scope = "qmi_channel" /\ b.scope = "qmi_channel" /\ a.channel # b.channel

A == INSTANCE CardAccess WITH
    Lease <- Leases, MaxSessions <- 1, MaxQMITransports <- 2, None <- NoLease

Init ==
    /\ kind \in {"qmi", "mbim", "serial", "at"}
    /\ arbiter \in (IF kind = "at" THEN {FALSE} ELSE BOOLEAN)
    /\ A!Init
    /\ open = [c \in Channel |-> {}]
    /\ epoch = 0 /\ conn = 1 /\ started = 1
    /\ pc = [p \in Client |-> "idle"] /\ op = [p \in Client |-> "open"]
    /\ my = [p \in Client |-> NoChannel]
    /\ mu = [p \in Client |-> 0] /\ wire = [p \in Client |-> 0]
    /\ orphans = {} /\ bereft = {} /\ calls = 0 /\ trouble = 0 /\ expired = 0

station == <<kind, arbiter, fence, epoch, conn, started>>
history == <<calls, trouble, expired>>

-----------------------------------------------------------------------------
\* A call: QMIChannel or the AT channel, then the transport

\* A client is made by opening a channel, and closes the one it has.  Before
\* the serial manager scans the card, ClearLogicalChannels closes one channel
\* after the other, each in a call of its own.
Begin(p, o) ==
    /\ pc[p] = "idle" /\ calls < MaxCalls
    /\ (o \in {"open", "clear"}) = (my[p] = NoChannel)
    /\ o = "clear" => kind = "serial"
    /\ calls' = calls + 1
    /\ pc' = [pc EXCEPT ![p] = "lease"]
    /\ op' = [op EXCEPT ![p] = o]
    /\ UNCHANGED <<station, lease, open, my, mu, wire, orphans, bereft, trouble, expired>>

\* APDUs of one QMI channel run beside those of another; all else is exclusive.
LeaseFor(p) ==
    [type |-> "transport", class |-> "euicc_write",
     channel |-> my[p],
     scope |-> IF kind = "qmi" /\ op[p] = "apdu" THEN "qmi_channel" ELSE "exclusive"]

\* acquireLease, and getOrCreateChanMu, which reads the current map.
Acquire(p) ==
    /\ pc[p] = "lease"
    /\ IF arbiter THEN A!Grant(p, LeaseFor(p)) ELSE UNCHANGED <<lease, fence>>
    /\ pc' = [pc EXCEPT ![p] = "mutex"]
    /\ mu' = [mu EXCEPT ![p] = epoch]
    /\ UNCHANGED <<kind, arbiter, open, epoch, conn, started, op, my, wire, orphans, bereft, history>>

\* The call returns: mutex and lease, if it still has it, are given back.  A
\* client whose close has failed is dropped with its channel.
Finish(p) ==
    /\ pc' = [pc EXCEPT ![p] = "idle"]
    /\ op' = [op EXCEPT ![p] = "open"]
    /\ mu' = [mu EXCEPT ![p] = 0]
    /\ wire' = [wire EXCEPT ![p] = 0]
    /\ IF lease[p] = NoLease THEN UNCHANGED <<lease, fence>> ELSE A!Release(p)

Drop(p) ==
    /\ my' = IF op[p] = "close" THEN [my EXCEPT ![p] = NoChannel] ELSE my
    /\ orphans' = orphans \cup {c \in Channel : op[p] = "close" /\ c = my[p]}

\* The lease is not granted in time or the caller's context ends.
GiveUp(p) ==
    /\ pc[p] = "lease" /\ arbiter
    /\ Finish(p) /\ Drop(p)
    /\ UNCHANGED <<kind, arbiter, open, epoch, conn, started, bereft, history>>

BugMutexOfTheChannel(p) == IF kind \in {"at", "serial"} THEN NoChannel ELSE my[p]

\* Open and close lock the mutex of channel 0, an APDU that of its channel;
\* the mutex around AT commands and the command loop are one for all.
MutexOf(p) == IF kind \in {"at", "serial"} \/ op[p] # "apdu" THEN NoChannel ELSE my[p]

OnWire(p) == pc[p] = "wire"

\* The mutex is locked; getUIM.
Send(p) ==
    /\ pc[p] = "mutex"
    /\ \A q \in Client \ {p} : OnWire(q) => <<mu[q], MutexOf(q)>> # <<mu[p], MutexOf(p)>>
    /\ kind = "qmi" => conn # 0
    /\ pc' = [pc EXCEPT ![p] = "wire"]
    /\ wire' = [wire EXCEPT ![p] = conn]
    /\ UNCHANGED <<station, lease, open, op, my, mu, orphans, bereft, history>>

\* qmi_uim_not_available
NoUIM(p) ==
    /\ pc[p] = "mutex" /\ kind = "qmi" /\ conn = 0
    /\ Finish(p) /\ Drop(p)
    /\ UNCHANGED <<kind, arbiter, open, epoch, conn, started, bereft, history>>

-----------------------------------------------------------------------------
\* The answer

Answered(p, o) == OnWire(p) /\ op[p] = o /\ wire[p] = conn

BugOpenedForgetsChannel(p) ==
    /\ Answered(p, "open")
    /\ \E c \in Channel : open[c] = {} /\ open' = [open EXCEPT ![c] = {p}]
    /\ Finish(p)
    /\ UNCHANGED <<kind, arbiter, epoch, conn, started, my, orphans, bereft, history>>

Opened(p) ==
    /\ Answered(p, "open")
    /\ \E c \in Channel :
         /\ open[c] = {}
         /\ open' = [open EXCEPT ![c] = {p}]
         /\ my' = [my EXCEPT ![p] = c]
    /\ bereft' = bereft \ {p}
    /\ Finish(p)
    /\ UNCHANGED <<kind, arbiter, epoch, conn, started, orphans, history>>

\* An error, or an answer that comes too late or cannot be parsed: then the
\* card may have opened a channel nobody knows.
OpenFails(p) ==
    /\ OnWire(p) /\ op[p] = "open"
    /\ \/ UNCHANGED <<open, orphans>>
       \/ \E c \in Channel :
            /\ open[c] = {}
            /\ open' = [open EXCEPT ![c] = {p}]
            /\ orphans' = orphans \cup {c}
    /\ Finish(p)
    /\ UNCHANGED <<kind, arbiter, epoch, conn, started, my, bereft, history>>

\* Success or error, the client keeps its channel.
Transmitted(p) ==
    /\ OnWire(p) /\ op[p] = "apdu"
    /\ Finish(p)
    /\ UNCHANGED <<kind, arbiter, open, epoch, conn, started, my, orphans, bereft, history>>

\* The card closes the channel with this number, also if it is another
\* client's by now.
CloseOnCard(p, c) ==
    /\ open' = [open EXCEPT ![c] = {}]
    /\ bereft' = bereft \cup {q \in Client \ {p} : my[q] = c}

Closed(p) ==
    /\ Answered(p, "close")
    /\ CloseOnCard(p, my[p])
    /\ my' = [my EXCEPT ![p] = NoChannel]
    /\ orphans' = orphans \ {my[p]}
    /\ Finish(p)
    /\ UNCHANGED <<kind, arbiter, epoch, conn, started, history>>

\* An error; for the AT channel an error answer counts as closed.
CloseFails(p) ==
    /\ OnWire(p) /\ op[p] = "close"
    /\ CloseOnCard(p, my[p]) \/ UNCHANGED <<open, bereft>>
    /\ Finish(p) /\ Drop(p)
    /\ UNCHANGED <<kind, arbiter, epoch, conn, started, history>>

\* AT+CCHC=1, ... 4; the result is ignored.
Cleared(p) ==
    /\ OnWire(p) /\ op[p] = "clear"
    /\ \/ \E c \in Channel : CloseOnCard(p, c) /\ orphans' = orphans \ {c}
       \/ UNCHANGED <<open, bereft, orphans>>
    /\ Finish(p)
    /\ UNCHANGED <<kind, arbiter, epoch, conn, started, my, history>>

-----------------------------------------------------------------------------
\* Trouble

\* The watchdog takes the lease of a call under way (MaxLeaseHold).
Expire(p) ==
    /\ trouble < MaxTrouble /\ trouble' = trouble + 1
    /\ pc[p] \in {"mutex", "wire"} /\ lease[p] # NoLease
    /\ A!Release(p)
    /\ expired' = expired + 1
    /\ UNCHANGED <<kind, arbiter, open, epoch, conn, started, pc, op, my, mu, wire, orphans, bereft, calls>>

\* Stop: the map of mutexes is replaced, then the client is taken away.
StopLocks ==
    /\ trouble < MaxTrouble /\ trouble' = trouble + 1
    /\ kind = "qmi" /\ conn # 0
    /\ epoch' = epoch + 1
    /\ UNCHANGED <<kind, arbiter, lease, fence, open, conn, started, pc, op, my, mu, wire, orphans, bereft, calls, expired>>

StopClient ==
    /\ conn # 0 /\ epoch >= started
    /\ conn' = 0
    /\ UNCHANGED <<kind, arbiter, lease, fence, open, epoch, started, pc, op, my, mu, wire, orphans, bereft, history>>

Start ==
    /\ kind = "qmi" /\ conn = 0
    /\ started' = started + 1
    /\ conn' = started'
    /\ UNCHANGED <<kind, arbiter, lease, fence, open, epoch, pc, op, my, mu, wire, orphans, bereft, history>>

\* The card resets itself, as after a profile is enabled: no channel is open.
CardReset ==
    /\ trouble < MaxTrouble /\ trouble' = trouble + 1
    /\ open' = [c \in Channel |-> {}]
    /\ orphans' = {}
    /\ bereft' = bereft \cup {p \in Client : my[p] # NoChannel}
    /\ UNCHANGED <<station, lease, pc, op, my, mu, wire, calls, expired>>

Next ==
    \/ \E p \in Client :
         \/ \E o \in {"open", "apdu", "close", "clear"} : Begin(p, o)
         \/ Acquire(p) \/ GiveUp(p) \/ Send(p) \/ NoUIM(p)
         \/ Opened(p) \/ OpenFails(p) \/ Transmitted(p) \/ Closed(p) \/ CloseFails(p)
         \/ Cleared(p)
         \/ Expire(p)
    \/ StopLocks \/ StopClient \/ Start \/ CardReset

Spec == Init /\ [][Next]_vars

-----------------------------------------------------------------------------

\* What may be on the wire together.  An exclusive call is alone as long as
\* there is an arbiter and its watchdog has taken no lease.  Two APDUs of
\* one channel, or two that open or close, meet only if both protections
\* are gone: no arbiter or an expired lease, and a Stop that replaced the
\* mutexes under a call.  AT commands never meet at all.
\* (acquireLease, getOrCreateChanMu, resetChanMu, releaseExpired)
WireExclusion ==
    \A p, q \in Client : p # q /\ OnWire(p) /\ OnWire(q) =>
        LET alike == IF op[p] = "apdu" THEN op[q] = "apdu" /\ my[p] = my[q]
                                       ELSE op[q] # "apdu"
            exclusive == kind # "qmi" \/ op[p] # "apdu" \/ op[q] # "apdu"
            leased == arbiter /\ expired = 0
        IN /\ kind \notin {"at", "serial"}
           /\ ~(exclusive /\ leased)
           /\ alike => ~leased /\ epoch > 0

\* Every channel open on the card can be closed by the client that opened
\* it, unless a failure has left it behind; and no client's APDU or close
\* reaches another client's channel, unless its own was closed behind its
\* back: by a reset of the card, by the clearing before a scan of the serial
\* transport, or by a client to which that has happened.
\* (OpenLogicalChannel, CloseLogicalChannel, ClearLogicalChannels)
ChannelsAccounted ==
    /\ \A c \in Channel : \A p \in open[c] : my[p] = c \/ c \in orphans
    /\ \A p \in Client \ bereft :
         OnWire(p) /\ my[p] # NoChannel => open[my[p]] \subseteq {p}
=============================================================================
