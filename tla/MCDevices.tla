------------------------------ MODULE MCDevices ------------------------------
(* The MBIM control channel and the services the backends build on devices, *)
(* in one state space: `which` chooses the part that runs.                  *)
EXTENDS MbimDevice, TLC

CONSTANTS MaxSessions, Message, Client, None, Outgoing, Index, MaxSets

VARIABLES
    which,
    n, phase, result, error, release, await, net, results, hung, domain,
    backend, store, job, at, todo, doomed, left, read, unread, disturbed, astray,
    stored, shown, sets

B == INSTANCE BackendServices

ASSUME DevicesConfiguration == B!BackendAssumption

services ==
    <<n, phase, result, error, release, await, net, results, hung, domain,
      backend, store, job, at, todo, doomed, left, read, unread, disturbed, astray,
      stored, shown, sets>>

\* The callers of the MBIM channel are alike.
Symmetry == Permutations(Caller)

\* Only QMI has the sessions, and only they look at the domains.
MCInit ==
    /\ which \in {"mbim", "ussd", "sms", "selection"} /\ Init /\ B!Init
    /\ which \in {"mbim", "ussd"} => backend = "qmi"
    /\ which # "ussd" => domain = B!Prepared

MCNext ==
    /\ \/ which = "mbim" /\ Next /\ UNCHANGED services
       \/ which = "ussd" /\ B!USSDNext /\ UNCHANGED vars
       \/ which = "sms" /\ B!SMSNext /\ UNCHANGED vars
       \/ which = "selection" /\ B!SelectionNext /\ UNCHANGED vars
    /\ UNCHANGED which

MCSpec == MCInit /\ [][MCNext]_<<which, vars, services>>

\* BackendServices: USSD sessions get their own results and are not refused for ever.
USSDSessionsSound == B!USSDSessionsSound

\* BackendServices: how a message can be erased by index unread.
ErasedBackendSMSWasRead == B!ErasedBackendSMSWasRead

\* BackendServices: a success of DeleteAllSMS leaves nothing.
AllMeansAll == B!AllMeansAll

\* BackendServices: over MBIM, the access technology told was given to the device.
RATWasAsked == B!RATWasAsked

\* BackendServices: the selection reported is the one the modem has.
SelectionAsReported == B!SelectionAsReported
=============================================================================
