------------------------------- MODULE MCModem -------------------------------
(* The command loop and the services above it, one at a time: `which` is    *)
(* the part that runs.                                                      *)
EXTENDS ModemLink, TLC

CONSTANTS Message, Parts, Job, User, Collector, None, MaxEvents

VARIABLES
    which,
    selected, slot, jpc, want, prev, check, cached, read, erased, garbled, disturbed, astray,
    upc, session, ussdChan, pending, stray, together, results,
    simFailCount, simAlerting, raised, rdy,
    card, info, cpc, found, spoilt, overtaken, mixed, crossed, events

S == INSTANCE ModemServices WITH pc <- jpc

ASSUME ModemConfiguration == S!ServicesAssumption

services ==
    <<selected, slot, jpc, want, prev, check, cached, read, erased, garbled, disturbed,
      astray, upc, session, ussdChan, pending, stray, together, results,
      simFailCount, simAlerting, raised, rdy,
      card, info, cpc, found, spoilt, overtaken, mixed, crossed, events>>

MCInit ==
    /\ which \in {"link", "sms", "ussd", "status", "identity"}
    /\ Init /\ S!Init

MCNext ==
    \/ which = "link" /\ Next /\ UNCHANGED <<which, services>>
    \/ which = "sms" /\ S!SMSNext /\ UNCHANGED <<which, vars>>
    \/ which = "ussd" /\ S!USSDNext /\ UNCHANGED <<which, vars>>
    \/ which = "status" /\ S!StatusNext /\ UNCHANGED <<which, vars>>
    \/ which = "identity" /\ S!IdentityNext /\ UNCHANGED <<which, vars>>

MCSpec == MCInit /\ [][MCNext]_<<which, vars, services>>

LinkOnly == which = "link" /\ selected = "ME" /\ Init /\ S!Init

\* The command loop alone, with its fairness.
LiveSpec == LinkOnly /\ [][MCNext]_<<which, vars, services>> /\ Fairness

Symmetry ==
    UNION {Permutations(s) : s \in {Caller, Pooled, Job}}

\* ModemServices: the ways in which a message is erased unread.
UnreadErasedOnlyAstray == S!UnreadErasedOnlyAstray

\* ModemServices: a reading job erases nothing in another storage.
OtherStoragesSpared == S!OtherStoragesSpared

\* ModemServices: the cached number is of no earlier card than the IMSI.
NumberIsNotStale == S!NumberIsNotStale

\* ModemServices: a USSD user is given the result of the user's session.
USSDAnswersInOrder == S!USSDAnswersInOrder

\* ModemServices: the cached identity is that of one card.
IdentityIsOneCards == S!IdentityIsOneCards
=============================================================================
