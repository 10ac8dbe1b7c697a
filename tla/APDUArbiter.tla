---------------------------- MODULE APDUArbiter ----------------------------
(***************************************************************************)
(* The device-level arbiter of internal/apduarbiter/arbiter.go.            *)
(*                                                                         *)
(* Callers ask for a lease (session, one-shot or transport) or a barrier.  *)
(* Each call appends a ticket to one FIFO queue, then evaluates it under   *)
(* a.mu; a ticket that may not be granted sleeps on the broadcast channel  *)
(* a.notifyC, which every change of the arbiter's state closes and         *)
(* replaces (signalLocked).  A lease is released by its holder or by the   *)
(* watchdog; a barrier only by its holder.                                 *)
(*                                                                         *)
(* a.mu is held from the append through the first evaluation and from a    *)
(* wake-up through the re-evaluation; the variable mu says by whom.  The   *)
(* other handlers take and drop the mutex within one action.  Time is two  *)
(* nondeterministic steps: Age (a ticket has waited 500 ms) and Expire (a  *)
(* lease has made no progress for MaxLeaseHold); both may happen while the *)
(* mutex is held, as time does.                                            *)
(***************************************************************************)
EXTENDS Naturals, Sequences, FiniteSets

CONSTANTS
    Client,           \* callers; each has at most one call or lease at a time
    Watcher,          \* callers of WaitIdle
    Requests,         \* what a client may ask for (a set of RawRequest)
    MaxSessions,      \* Options.MaxSessions
    MaxQMITransports, \* Options.MaxQMITransports
    Watchdog,         \* Options.MaxLeaseHold > 0
    MaxAged,          \* bound: how many waiting tickets age at the same time
    Nobody            \* the owner of a free mutex, not a client

APDUClass == {"EUICCWrite", "EUICCRead", "USIMAKA", "SMSC", "SwitchBarrier", "Recovery"}
LeaseType == {"session", "oneshot", "transport"}
Scope == {"exclusive", "qmi_channel"}
Channel == 0 .. 3

(* What a caller passes in: "" is an unset class, policy is the caller's   *)
(* BarrierPolicy, and mode is the part of Request.Mode the arbiter tells   *)
(* apart.                                                                  *)
RawRequest ==
    [type : LeaseType \cup {"barrier"}, class : APDUClass \cup {""}, mode : {"QMI", "AT"},
     channel : Channel, scope : Scope, policy : SUBSET (APDUClass \cup {""})]

Ticket ==
    [type : LeaseType \cup {"barrier"}, class : APDUClass,
     channel : Channel, scope : Scope, blocked : SUBSET APDUClass]

ASSUME ArbiterAssumption ==
    /\ IsFiniteSet(Client)
    /\ Client \cap Watcher = {}
    /\ Nobody \notin Client
    /\ Requests \subseteq RawRequest
    /\ MaxSessions \in Nat \ {0}
    /\ MaxQMITransports \in Nat \ {0}
    /\ Watchdog \in BOOLEAN
    /\ MaxAged \in Nat

NoTicket ==
    [type |-> "transport", class |-> "EUICCWrite", channel |-> 0,
     scope |-> "exclusive", blocked |-> {}]

VARIABLES
    mu,        \* who holds a.mu between two steps of an acquire
    queue,     \* a.queue: the waiting clients, oldest first
    ticket,    \* the ticket (or lease) of each client
    phase,     \* where each client is in its call
    active,    \* activeSessions, activeOneshot and activeTransports together
    barriers,  \* a.activeBarriers
    signalled, \* sleepers whose copy of notifyC has been closed
    aged,      \* queued clients whose ticket is at least 500 ms old
    armed,     \* leases whose watchdog timer is running
    expired,   \* active leases whose expiresAt has passed
    fired,     \* leases whose timer callback waits for a.mu
    watching   \* watchers asleep inside WaitIdle

vars == <<mu, queue, ticket, phase, active, barriers, signalled, aged, armed, expired, fired,
          watching>>
-----------------------------------------------------------------------------
(* Normalisation of a request into a ticket.                               *)

(* Definitions named Bug... are deliberate defects; they are not part of    *)
(* the model and show that a property can fail.                            *)
BugNormalizeClassKeepsUnset(class, type) == class

NormalizeClass(class, type) ==
    CASE class # ""        -> class
      [] type = "oneshot"  -> "USIMAKA"
      [] OTHER             -> "EUICCWrite"

NormalizeTransportScope(r) ==
    IF /\ r.type = "transport"
       /\ r.scope = "qmi_channel"
       /\ r.mode = "QMI"
       /\ r.channel > 0
    THEN "qmi_channel"
    ELSE "exclusive"

LeaseTicket(r) ==
    [type |-> r.type, class |-> NormalizeClass(r.class, r.type), channel |-> r.channel,
     scope |-> NormalizeTransportScope(r), blocked |-> {}]

BarrierTicket(r) ==
    [type    |-> "barrier",
     class   |-> IF r.class = "" THEN "SwitchBarrier" ELSE r.class,
     channel |-> r.channel,
     scope   |-> "exclusive",
     blocked |-> IF r.policy = {}
                 THEN {"USIMAKA", "SMSC"}
                 ELSE {NormalizeClass(c, "oneshot") : c \in r.policy}]
-----------------------------------------------------------------------------
(* The active leases.                                                      *)

ActiveOf(type) == {c \in active : ticket[c].type = type}

ActiveExclusive == {c \in ActiveOf("transport") : ticket[c].scope # "qmi_channel"}

ActiveQMI == {c \in ActiveOf("transport") : ticket[c].scope = "qmi_channel"}

ActiveOnChannel(channel) == {c \in ActiveQMI : ticket[c].channel = channel}

IsBlockedByActiveBarrier(class) == \E b \in barriers : class \in ticket[b].blocked

IsIdle == active = {} /\ barriers = {} /\ queue = <<>>

(* Positions of the queue. *)
Position(c) == CHOOSE i \in 1 .. Len(queue) : queue[i] = c

Ahead(c) == {queue[i] : i \in 1 .. Position(c) - 1}

QueueHeadIs(c) == queue # <<>> /\ queue[1] = c

RemoveTicket(c) ==
    LET p == Position(c)
    IN  [i \in 1 .. Len(queue) - 1 |-> IF i < p THEN queue[i] ELSE queue[i + 1]]
-----------------------------------------------------------------------------
(* The admission policy.                                                   *)

BugTransportIgnoresExclusive(t) ==
    /\ Cardinality(ActiveQMI) < MaxQMITransports
    /\ ActiveOnChannel(t.channel) = {}

CanAcquireTransportNow(t) ==
    IF t.scope = "qmi_channel"
    THEN /\ ActiveExclusive = {}
         /\ Cardinality(ActiveQMI) < MaxQMITransports
         /\ ActiveOnChannel(t.channel) = {}
    ELSE ActiveOf("transport") = {}

TransportWaitGatesQueue(t) ==
    \/ t.scope # "qmi_channel"
    \/ ActiveExclusive # {}
    \/ Cardinality(ActiveQMI) >= MaxQMITransports

BugScanSkipsBarriers(t) ==
    \/ t.type \in {"session", "oneshot"}
    \/ /\ t.type = "transport"
       /\ ~IsBlockedByActiveBarrier(t.class)
       /\ ~CanAcquireTransportNow(t)
       /\ TransportWaitGatesQueue(t)

BugScanStopsAtFenced(t) ==
    \/ t.type # "transport"
    \/ IsBlockedByActiveBarrier(t.class)
    \/ ~CanAcquireTransportNow(t) /\ TransportWaitGatesQueue(t)

(* The scan of selectedTransportLocked stops at this ticket. *)
StopsScan(t) ==
    \/ t.type # "transport"
    \/ /\ ~IsBlockedByActiveBarrier(t.class)
       /\ ~CanAcquireTransportNow(t)
       /\ TransportWaitGatesQueue(t)

EligibleTransports ==
    {i \in 1 .. Len(queue) :
        /\ \A j \in 1 .. i : ~StopsScan(ticket[queue[j]])
        /\ ~IsBlockedByActiveBarrier(ticket[queue[i]].class)
        /\ CanAcquireTransportNow(ticket[queue[i]])}

EligibleAKA == {i \in EligibleTransports : ticket[queue[i]].class = "USIMAKA"}

EligibleAgedNonAKA ==
    {i \in EligibleTransports : ticket[queue[i]].class # "USIMAKA" /\ queue[i] \in aged}

(* An aged non-AKA transport first, then AKA, then arrival order. *)
TransportChoice ==
    CASE EligibleAgedNonAKA # {} -> EligibleAgedNonAKA
      [] EligibleAgedNonAKA = {} /\ EligibleAKA # {} -> EligibleAKA
      [] OTHER -> EligibleTransports

SelectedTransport(c) ==
    \E i \in TransportChoice :
        /\ queue[i] = c
        /\ \A j \in TransportChoice : i <= j

SelectedBarrier(c) == \A d \in Ahead(c) : ticket[d].type # "barrier"

HasPendingBarrierAhead(c) ==
    \E d \in Ahead(c) : ticket[d].type = "barrier" /\ ticket[c].class \in ticket[d].blocked

BugLeaseIgnoresBarrier(c) ==
    /\ ~HasPendingBarrierAhead(c)
    /\ \/ /\ ticket[c].type = "session"
          /\ QueueHeadIs(c)
          /\ ActiveOf("oneshot") = {}
          /\ ActiveOf("transport") = {}
          /\ Cardinality(ActiveOf("session")) < MaxSessions
       \/ /\ ticket[c].type = "oneshot"
          /\ QueueHeadIs(c)
          /\ active = {}
       \/ /\ ticket[c].type = "transport"
          /\ ActiveOf("session") = {}
          /\ ActiveOf("oneshot") = {}
          /\ SelectedTransport(c)

CanAcquireLease(c) ==
    /\ ~IsBlockedByActiveBarrier(ticket[c].class)
    /\ ~HasPendingBarrierAhead(c)
    /\ \/ /\ ticket[c].type = "session"
          /\ QueueHeadIs(c)
          /\ ActiveOf("oneshot") = {}
          /\ ActiveOf("transport") = {}
          /\ Cardinality(ActiveOf("session")) < MaxSessions
       \/ /\ ticket[c].type = "oneshot"
          /\ QueueHeadIs(c)
          /\ active = {}
       \/ /\ ticket[c].type = "transport"
          /\ ActiveOf("session") = {}
          /\ ActiveOf("oneshot") = {}
          /\ SelectedTransport(c)

BugBarrierDoesNotDrain(c) == ticket[c].type = "barrier" /\ SelectedBarrier(c)

CanAcquireBarrier(c) ==
    /\ ticket[c].type = "barrier"
    /\ active = {}
    /\ SelectedBarrier(c)

CanAcquire(c) ==
    IF ticket[c].type = "barrier" THEN CanAcquireBarrier(c) ELSE CanAcquireLease(c)
-----------------------------------------------------------------------------
Init ==
    /\ mu = Nobody
    /\ queue = <<>>
    /\ ticket = [c \in Client |-> NoTicket]
    /\ phase = [c \in Client |-> "idle"]
    /\ active = {}
    /\ barriers = {}
    /\ signalled = {}
    /\ aged = {}
    /\ armed = {}
    /\ expired = {}
    /\ fired = {}
    /\ watching = {}

(* signalLocked: closing notifyC wakes everyone asleep on it, the waiters  *)
(* of acquire and BeginBarrier and those of WaitIdle alike.                *)
Sleepers == {c \in Client : phase[c] = "asleep"} \cup watching

Signal == signalled' = Sleepers

(* The ticket or lease of a call that is over is garbage. *)
Forget(c) == ticket' = [ticket EXCEPT ![c] = NoTicket]

(* acquire and BeginBarrier up to the loop: append the ticket and signal.  *)
Enqueue(c, r) ==
    /\ phase[c] = "idle"
    /\ mu = Nobody
    /\ mu' = c
    /\ phase' = [phase EXCEPT ![c] = "evaluating"]
    /\ ticket' = [ticket EXCEPT ![c] = IF r.type = "barrier" THEN BarrierTicket(r) ELSE LeaseTicket(r)]
    /\ queue' = Append(queue, c)
    /\ Signal
    /\ UNCHANGED <<active, barriers, aged, armed, expired, fired, watching>>

(* The loop finds the ticket grantable: it becomes a lease. *)
GrantLease(c) ==
    /\ phase[c] = "evaluating"
    /\ ticket[c].type # "barrier"
    /\ CanAcquireLease(c)
    /\ queue' = RemoveTicket(c)
    /\ active' = active \cup {c}
    /\ armed' = IF Watchdog THEN armed \cup {c} ELSE armed
    /\ aged' = aged \ {c}
    /\ phase' = [phase EXCEPT ![c] = "holding"]
    /\ Signal
    /\ mu' = Nobody
    /\ UNCHANGED <<ticket, barriers, expired, fired, watching>>

GrantBarrier(c) ==
    /\ phase[c] = "evaluating"
    /\ CanAcquireBarrier(c)
    /\ queue' = RemoveTicket(c)
    /\ barriers' = barriers \cup {c}
    /\ aged' = aged \ {c}
    /\ phase' = [phase EXCEPT ![c] = "holding"]
    /\ Signal
    /\ mu' = Nobody
    /\ UNCHANGED <<ticket, active, armed, expired, fired, watching>>

(* The loop does not: the caller takes the current notifyC and sleeps. *)
Sleep(c) ==
    /\ phase[c] = "evaluating"
    /\ ~CanAcquire(c)
    /\ phase' = [phase EXCEPT ![c] = "asleep"]
    /\ mu' = Nobody
    /\ UNCHANGED <<queue, ticket, active, barriers, signalled, aged, armed, expired, fired,
                   watching>>

(* The closed notifyC is received and the mutex taken again. *)
Wake(c) ==
    /\ phase[c] = "asleep"
    /\ c \in signalled
    /\ mu = Nobody
    /\ mu' = c
    /\ signalled' = signalled \ {c}
    /\ phase' = [phase EXCEPT ![c] = "evaluating"]
    /\ UNCHANGED <<queue, ticket, active, barriers, aged, armed, expired, fired, watching>>

(* ctx is done: the ticket leaves the queue and the others are signalled. *)
Timeout(c) ==
    /\ phase[c] = "asleep"
    /\ mu = Nobody
    /\ phase' = [phase EXCEPT ![c] = "idle"]
    /\ queue' = RemoveTicket(c)
    /\ aged' = aged \ {c}
    /\ signalled' = Sleepers \ {c}
    /\ Forget(c)
    /\ UNCHANGED <<mu, active, barriers, armed, expired, fired, watching>>

(* Lease.Release, once: a lease the watchdog already took is not there. *)
ReleaseLease(c) ==
    /\ phase[c] = "holding"
    /\ ticket[c].type # "barrier"
    /\ mu = Nobody
    /\ phase' = [phase EXCEPT ![c] = "idle"]
    /\ active' = active \ {c}
    /\ armed' = armed \ {c}
    /\ expired' = expired \ {c}
    /\ fired' = fired \ {c}
    /\ IF c \in active THEN Signal ELSE UNCHANGED signalled
    /\ Forget(c)
    /\ UNCHANGED <<mu, queue, barriers, aged, watching>>

ReleaseBarrier(c) ==
    /\ phase[c] = "holding"
    /\ c \in barriers
    /\ mu = Nobody
    /\ phase' = [phase EXCEPT ![c] = "idle"]
    /\ barriers' = barriers \ {c}
    /\ Signal
    /\ Forget(c)
    /\ UNCHANGED <<mu, queue, active, aged, armed, expired, fired, watching>>

(* Lease.Touch: if the lease is still there its deadline moves ahead and   *)
(* its timer is reset.  A callback already waiting for the mutex stays.    *)
Touch(c) ==
    /\ Watchdog
    /\ phase[c] = "holding"
    /\ c \in active
    /\ mu = Nobody
    /\ expired' = expired \ {c}
    /\ armed' = armed \cup {c}
    /\ UNCHANGED <<mu, queue, ticket, phase, active, barriers, signalled, aged, fired, watching>>

(* The deadline passes, the timer runs out and its goroutine starts. *)
Expire(c) ==
    /\ c \in armed
    /\ armed' = armed \ {c}
    /\ expired' = expired \cup {c}
    /\ fired' = fired \cup {c}
    /\ UNCHANGED <<mu, queue, ticket, phase, active, barriers, signalled, aged, watching>>

(* releaseExpired: the deadline may have moved since the timer ran out; if *)
(* it has, the timer is set again and the lease stays.                     *)
ReleaseExpired(c) ==
    /\ c \in fired
    /\ mu = Nobody
    /\ fired' = fired \ {c}
    /\ expired' = expired \ {c}
    /\ IF c \in expired
       THEN active' = active \ {c} /\ armed' = armed \ {c} /\ Signal
       ELSE armed' = armed \cup {c} /\ UNCHANGED <<active, signalled>>
    /\ UNCHANGED <<mu, queue, ticket, phase, barriers, aged, watching>>

(* A waiting ticket passes transportPriorityAging.  enqueued is read before *)
(* the mutex is taken, so tickets need not age in queue order.             *)
Age(c) ==
    /\ phase[c] \in {"evaluating", "asleep"}
    /\ c \notin aged
    /\ Cardinality(aged) < MaxAged
    /\ aged' = aged \cup {c}
    /\ UNCHANGED <<mu, queue, ticket, phase, active, barriers, signalled, armed, expired, fired,
                   watching>>

(* WaitIdle finds the arbiter busy, on the call or after a wake-up, and    *)
(* sleeps on the channel it read under the mutex.                          *)
WatchBusy(w) ==
    /\ w \in watching => w \in signalled
    /\ mu = Nobody
    /\ ~IsIdle
    /\ watching' = watching \cup {w}
    /\ signalled' = signalled \ {w}
    /\ UNCHANGED <<mu, queue, ticket, phase, active, barriers, aged, armed, expired, fired>>

(* WaitIdle wakes up, finds the arbiter idle and returns. *)
WatchIdle(w) ==
    /\ w \in watching \cap signalled
    /\ mu = Nobody
    /\ IsIdle
    /\ watching' = watching \ {w}
    /\ signalled' = signalled \ {w}
    /\ UNCHANGED <<mu, queue, ticket, phase, active, barriers, aged, armed, expired, fired>>

(* WaitIdle's context is done. *)
WatchTimeout(w) ==
    /\ w \in watching
    /\ watching' = watching \ {w}
    /\ signalled' = signalled \ {w}
    /\ UNCHANGED <<mu, queue, ticket, phase, active, barriers, aged, armed, expired, fired>>

Next ==
    \/ \E c \in Client :
        \/ \E r \in Requests : Enqueue(c, r)
        \/ GrantLease(c)
        \/ GrantBarrier(c)
        \/ Sleep(c)
        \/ Wake(c)
        \/ Timeout(c)
        \/ ReleaseLease(c)
        \/ ReleaseBarrier(c)
        \/ Touch(c)
        \/ Expire(c)
        \/ ReleaseExpired(c)
        \/ Age(c)
    \/ \E w \in Watcher : WatchBusy(w) \/ WatchIdle(w) \/ WatchTimeout(w)

Spec == Init /\ [][Next]_vars
-----------------------------------------------------------------------------
(***************************************************************************)
(* Fairness.  A goroutine that waits for a.mu gets it: sync.Mutex hands    *)
(* the lock to a waiter after one millisecond (starvation mode), hence SF  *)
(* for the steps that lock.  Holders of a lease release it (every caller   *)
(* defers Release) and timers fire.  Nothing makes a client ask, a context *)
(* end, a ticket age or a barrier's holder finish.                         *)
(***************************************************************************)
LoopFairness ==
    \A c \in Client :
        WF_vars(GrantLease(c) \/ GrantBarrier(c) \/ Sleep(c)) /\ SF_vars(Wake(c))

(* The worst case for those who wait: holders hang for ever (no fairness    *)
(* for Release, no Touch) and the profile switch behind a barrier never    *)
(* finishes; time passes and the watchdog's callbacks run.                 *)
HangingSpec ==
    /\ Init
    /\ [][Next /\ barriers \subseteq barriers' /\ ~\E c \in Client : Touch(c)]_vars
    /\ LoopFairness
    /\ \A c \in Client : WF_vars(Expire(c)) /\ SF_vars(ReleaseExpired(c))
    /\ \A w \in Watcher : SF_vars(WatchIdle(w)) /\ SF_vars(WatchBusy(w) /\ w \in watching)

(* Tickets age in queue order, which is how it goes unless a goroutine is  *)
(* preempted between reading enqueued and appending its ticket.            *)
AgesInOrder == \A c \in aged : Ahead(c) \subseteq aged

AgingSpec ==
    /\ Init
    /\ [][Next /\ AgesInOrder']_vars
    /\ LoopFairness
    /\ \A c \in Client : SF_vars(ReleaseLease(c))
-----------------------------------------------------------------------------
(* The state has the types of the Go fields it stands for. *)
TypeOK ==
    /\ mu \in Client \cup {Nobody}
    /\ queue \in Seq(Client)
    /\ ticket \in [Client -> Ticket]
    /\ phase \in [Client -> {"idle", "evaluating", "asleep", "holding"}]
    /\ active \subseteq Client
    /\ barriers \subseteq Client
    /\ signalled \subseteq Client \cup Watcher
    /\ aged \subseteq Client
    /\ armed \subseteq Client
    /\ expired \subseteq Client
    /\ fired \subseteq Client
    /\ watching \subseteq Watcher

(* What two leases may be active together: sessions with sessions, and QMI *)
(* logical channels with other QMI logical channels.                       *)
Compatible(s, t) ==
    \/ s.type = "session" /\ t.type = "session"
    \/ /\ s.type = "transport" /\ s.scope = "qmi_channel"
       /\ t.type = "transport" /\ t.scope = "qmi_channel"
       /\ s.channel # t.channel

(* Mutual exclusion on the card: whatever queue, barriers, time-outs and    *)
(* watchdog releases did, two leases that are active together are          *)
(* compatible, and sessions and QMI channels stay within their limits.     *)
CardExclusion ==
    /\ \A c, d \in active : c # d => Compatible(ticket[c], ticket[d])
    /\ Cardinality(ActiveOf("session")) <= MaxSessions
    /\ Cardinality(ActiveQMI) <= MaxQMITransports

(* While a barrier is up (a profile switch) no lease of a class it blocks  *)
(* is active, neither one granted before the barrier nor one granted since. *)
BarrierFence ==
    \A b \in barriers, c \in active : ticket[c].class \notin ticket[b].blocked

(* What the arbiter promises, as an abstract specification: the granted    *)
(* tickets are the leases held, the barriers the fences raised.            *)
NoLease == [type |-> "none"]

Access ==
    INSTANCE CardAccess WITH
        Lease <- {LeaseTicket(r) : r \in {q \in Requests : q.type # "barrier"}},
        Class <- APDUClass,
        None  <- NoLease,
        lease <- [c \in Client |-> IF c \in active THEN ticket[c] ELSE NoLease],
        fence <- [c \in Client |-> IF c \in barriers THEN ticket[c].blocked ELSE {}]

(* The arbiter implements CardAccess: every step of it grants one lease    *)
(* that fits what is held and what is fenced off, releases one, raises a   *)
(* fence on a silent card, lowers one, or shows nothing to its callers.    *)
ImplementsCardAccess == Access!Spec

(* No lost wake-up: a sleeping ticket that could be granted now has been   *)
(* signalled, and so has a sleeping WaitIdle when the arbiter is idle.     *)
(* Every handler that makes room must signal after it has made it.  That a *)
(* ticket ages is the one change nothing signals: see Aging-    *)
(* PreventsStarvation.                                                     *)
NoLostWakeup ==
    /\ aged = {} => \A c \in Client : phase[c] = "asleep" /\ CanAcquire(c) => c \in signalled
    /\ IsIdle => watching \subseteq signalled

(* No lease escapes the watchdog: however Touch races with the timer, an   *)
(* active lease has a running timer or a callback on its way, and a lease  *)
(* whose deadline has passed has the callback.                             *)
WatchdogArmed ==
    /\ Watchdog => active \subseteq armed \cup fired
    /\ expired \subseteq active \cap fired

(* The watchdog takes only what is overdue: a lease its holder has not     *)
(* released goes away only if its deadline has passed and no Touch came    *)
(* between the timer and its callback.                                     *)
WatchdogTakesOverdueOnly ==
    [][\A c \in active \ active' : phase'[c] = "idle" \/ c \in expired]_vars

(* A barrier is never overtaken: no lease is granted, and no barrier is    *)
(* entered, while an older barrier still waits ahead of it in the queue.   *)
BarrierNotOvertaken ==
    [][\A c \in Client :
          (c \in active' \cup barriers') /\ (c \notin active \cup barriers) =>
              \A d \in Ahead(c) : ticket[d].type # "barrier"]_vars

(* A transport overtakes an older transport only for a reason the policy   *)
(* knows: the older one is fenced by a barrier, its QMI channel is busy,   *)
(* an AKA goes first, or the younger one has aged.                         *)
OvertakingHasReason ==
    [][\A c \in Client : c \in active' \ active /\ ticket[c].type = "transport" =>
          \A d \in Ahead(c) :
              /\ ticket[d].type = "transport"
              /\ \/ IsBlockedByActiveBarrier(ticket[d].class)
                 \/ ActiveOnChannel(ticket[d].channel) # {} /\ ticket[d].scope = "qmi_channel"
                 \/ ticket[c].class = "USIMAKA" /\ ~(d \in aged /\ ticket[d].class # "USIMAKA")
                 \/ ticket[c].class # "USIMAKA" /\ c \in aged]_vars

(* Whoever waits is woken when it may go on and is overtaken only for a    *)
(* reason; whoever holds is watched, and loses the card only when overdue. *)
QueueIsFair ==
    /\ [](NoLostWakeup /\ WatchdogArmed)
    /\ BarrierNotOvertaken /\ OvertakingHasReason /\ WatchdogTakesOverdueOnly

(* A caller that waits for the eUICC gets it without the help of time-outs, *)
(* also while a barrier that does not block its class stays up for ever:   *)
(* the profile switch that raised the barrier talks to the card itself.    *)
EUICCServed ==
    \A c \in Client :
        (/\ phase[c] = "asleep"
         /\ ticket[c].type = "transport"
         /\ ticket[c].class \in {"EUICCWrite", "EUICCRead"})
            ~> phase[c] \in {"holding", "idle"}

(* Aging prevents starvation: a transport that has waited 500 ms behind    *)
(* AKA traffic is served.                                                  *)
AgingPreventsStarvation ==
    \A c \in Client :
        (/\ phase[c] = "asleep"
         /\ c \in aged
         /\ ticket[c].type = "transport"
         /\ ticket[c].class # "USIMAKA")
            ~> phase[c] \in {"holding", "idle"}

(* WaitIdle returns once the arbiter stays idle.                           *)
IdleIsNoticed == \A w \in Watcher : [](([]IsIdle) => <>(w \notin watching))

(* Callers of Acquire and of WaitIdle come through.                        *)
WaitersServed == EUICCServed /\ IdleIsNoticed
=============================================================================
