------------------------------ MODULE CardAccess ------------------------------
(***************************************************************************)
(* What the arbiter promises its callers, with no queue, mutex, timer or   *)
(* wake-up in it: at any time some clients hold leases on the card that    *)
(* can live together, and some have raised fences that keep classes of     *)
(* traffic off it.  APDUArbiter implements this specification.             *)
(***************************************************************************)
EXTENDS Naturals, FiniteSets

CONSTANTS
    Client,
    Lease,             \* what may be granted: records with type, class, channel, scope
    Class,             \* the classes of traffic a fence may block
    Compatible(_, _),  \* which two leases may be held together
    MaxSessions,
    MaxQMITransports,
    None               \* not a lease

VARIABLES
    lease,  \* the lease each client holds, or None
    fence   \* the classes each client keeps off the card

Holders == {c \in Client : lease[c] # None}

Init ==
    /\ lease = [c \in Client |-> None]
    /\ fence = [c \in Client |-> {}]

Grant(c, l) ==
    /\ lease[c] = None
    /\ fence[c] = {}
    /\ \A d \in Holders : Compatible(l, lease[d])
    /\ \A d \in Client : l.class \notin fence[d]
    /\ l.type = "session" =>
          Cardinality({d \in Holders : lease[d].type = "session"}) < MaxSessions
    /\ l.scope = "qmi_channel" =>
          Cardinality({d \in Holders : lease[d].scope = "qmi_channel"}) < MaxQMITransports
    /\ lease' = [lease EXCEPT ![c] = l]
    /\ UNCHANGED fence

(* By the holder, or on its behalf when it hangs. *)
Release(c) ==
    /\ lease[c] # None
    /\ lease' = [lease EXCEPT ![c] = None]
    /\ UNCHANGED fence

(* A fence goes up only on a silent card. *)
Raise(c, classes) ==
    /\ Holders = {}
    /\ fence[c] = {}
    /\ classes # {}
    /\ fence' = [fence EXCEPT ![c] = classes]
    /\ UNCHANGED lease

Lower(c) ==
    /\ fence[c] # {}
    /\ fence' = [fence EXCEPT ![c] = {}]
    /\ UNCHANGED lease

Next ==
    \E c \in Client :
        \/ \E l \in Lease : Grant(c, l)
        \/ \E classes \in SUBSET Class : Raise(c, classes)
        \/ Release(c)
        \/ Lower(c)

Spec == Init /\ [][Next]_<<lease, fence>>
=============================================================================
