----------------------------- MODULE CallHistory -----------------------------
(***************************************************************************)
(* The call log of cmd/dj4ghub-macos/communication_history.go.  An         *)
(* observation reads the card's identity, asks the module for its calls    *)
(* (AT+CLCC), reads the identity again and feeds the answer to observe,    *)
(* which opens, updates and closes records and saves them.  Observations   *)
(* are serialized by audioMu (the monitor's every three seconds, and those *)
(* of callAction); the SMS archive and failed dials append records of      *)
(* their own between two steps of one.                                     *)
(***************************************************************************)
EXTENDS Naturals, Sequences, FiniteSets, SequencesExt

CONSTANTS
    Card,       \* SIM cards or profiles, by ICCID
    NoCard,     \* an empty slot, or an identity that could not be confirmed
    Call,       \* calls; each has a number of its own and happens once
    Incoming,   \* those the other party makes
    NoCall,
    Index,      \* the indices AT+CLCC gives to calls, from 1
    Fault,      \* what may fail: "identity", "query", "listing", "save"
    MaxRecords  \* bound: records

(* What a configuration has to satisfy. *)
HistoryAssumption ==
    /\ NoCard \notin Card
    /\ NoCall \notin Call
    /\ Incoming \subseteq Call
    /\ Index \subseteq Nat \ {0} /\ IsFiniteSet(Index)
    /\ Fault \subseteq {"identity", "query", "listing", "save"}
    /\ MaxRecords \in Nat

States == {"observed", "connected", "unanswered", "missed", "ended", "interrupted", "closed"}

(* A record; its ID is its place in the log.  The number is that of the    *)
(* call; NoCall stands for an SMS or a dial that failed, of state "closed". *)
Record ==
    [card : Card \cup {NoCard}, number : Call \cup {NoCall}, incoming : BOOLEAN,
     connected : BOOLEAN, ended : BOOLEAN, state : States]

(* A line of the AT+CLCC answer. *)
Line == [call : Call, talking : BOOLEAN]

VARIABLES
    card,     \* external: the card in the slot
    line,     \* external: the call at each index
    talking,  \* external: the calls that have been answered
    carrier,  \* external: the card each call came over, NoCard before it exists
    swapped,  \* external: the card changed during this observation
    pc,       \* where the observation is
    before,   \* the identity it read first
    listing,  \* the module's answer, by index
    records,  \* h.records
    active,   \* h.active: the record of each index, 0 for none
    dirty,    \* h.dirty
    durable,  \* the records in the database
    cut,      \* history: the calls that the answer under way leaves out
    misjudged \* history: the calls recorded as over for that reason

external == <<card, line, talking, carrier>>

observer == <<pc, before, listing>>

log == <<records, active, dirty, durable>>

errors == <<cut, misjudged>>

vars == <<external, swapped, observer, log, errors>>

Nothing == [i \in {} |-> NoCall]

Init ==
    /\ card \in Card \cup {NoCard}
    /\ line = [i \in Index |-> NoCall]
    /\ talking = {}
    /\ carrier = [c \in Call |-> NoCard]
    /\ swapped = FALSE
    /\ pc = "idle"
    /\ before = NoCard
    /\ listing = Nothing
    /\ records = <<>>
    /\ active = [i \in Index |-> 0]
    /\ dirty = FALSE
    /\ durable = <<>>
    /\ cut = {}
    /\ misjudged = {}
-----------------------------------------------------------------------------
(* The module and the network (external).                                  *)

Over(c) == carrier[c] # NoCard /\ \A i \in Index : line[i] # c

CallBegins(c, i) ==
    /\ card # NoCard
    /\ carrier[c] = NoCard
    /\ line[i] = NoCall
    /\ line' = [line EXCEPT ![i] = c]
    /\ carrier' = [carrier EXCEPT ![c] = card]
    /\ UNCHANGED <<card, talking, swapped, observer, log, errors>>

CallIsAnswered(i) ==
    /\ line[i] \notin talking \cup {NoCall}
    /\ talking' = talking \cup {line[i]}
    /\ UNCHANGED <<card, line, carrier, swapped, observer, log, errors>>

CallEnds(i) ==
    /\ line[i] # NoCall
    /\ line' = [line EXCEPT ![i] = NoCall]
    /\ UNCHANGED <<card, talking, carrier, swapped, observer, log, errors>>

(* A card change ends the calls; an observation is too short for two.      *)
ChangeCard ==
    /\ ~swapped
    /\ card' \in (Card \cup {NoCard}) \ {card}
    /\ line' = [i \in Index |-> NoCall]
    /\ swapped' = (pc # "idle")
    /\ UNCHANGED <<talking, carrier, observer, log, errors>>

(* AT+QCCID. *)
ReadIdentity == {card} \cup (IF "identity" \in Fault THEN {NoCard} ELSE {})

(* AT+CLCC.  An answer cut short by the time-out is taken for a whole one. *)
Answers ==
    LET calls == {i \in Index : line[i] # NoCall}
        Listing(shown) == [i \in shown |-> [call |-> line[i], talking |-> line[i] \in talking]]
    IN  {Listing(shown) : shown \in IF "listing" \in Fault THEN SUBSET calls ELSE {calls}}
-----------------------------------------------------------------------------
(* save: every record that differs from its row is written, in one         *)
(* transaction.  A save that fails leaves the log dirty.                   *)
Save ==
    \/ /\ durable' = records'
       /\ dirty' = FALSE
    \/ /\ "save" \in Fault
       /\ dirty' = TRUE
       /\ UNCHANGED durable

SaveIf(changed) ==
    IF changed \/ dirty THEN Save ELSE UNCHANGED <<dirty, durable>>

Open(r) == r.number # NoCall /\ ~r.ended /\ r.state # "interrupted"

NewRecord(c, identity) ==
    [card |-> identity, number |-> c, incoming |-> c \in Incoming,
     connected |-> FALSE, ended |-> FALSE, state |-> "observed"]

(* The calls of the answer that have no record under this identity yet. *)
Untracked(answer, identity) ==
    {i \in DOMAIN answer : active[i] = 0 \/ records[active[i]].card # identity}

(* h.active with the new records, which are appended in index order. *)
Tracking(answer, identity) ==
    LET new == Untracked(answer, identity)
    IN  [i \in Index |->
            CASE i \in new                 -> Len(records) + Cardinality({j \in new : j <= i})
              [] i \in DOMAIN answer \ new -> active[i]
              [] i \notin DOMAIN answer    -> 0]

Appended(answer, identity) ==
    LET new == Untracked(answer, identity)
        IndexOf(n) == CHOOSE i \in new : Cardinality({j \in new : j <= i}) = n
    IN  records \o [n \in 1 .. Cardinality(new) |-> NewRecord(answer[IndexOf(n)].call, identity)]

Updated(r, shown) ==
    LET connected == r.connected \/ shown.talking
    IN  [r EXCEPT !.number = shown.call, !.connected = connected,
                  !.state = IF connected THEN "connected" ELSE @]

BugClosedIgnoresIdentity(r, identity) ==
    [r EXCEPT !.ended = TRUE,
              !.state = CASE r.connected                -> "ended"
                          [] ~r.connected /\ r.incoming -> "missed"
                          [] ~r.connected /\ ~r.incoming -> "unanswered"]

(* The end of a call that is no longer listed. *)
Closed(r, identity) ==
    [r EXCEPT !.ended = TRUE,
              !.state = CASE r.card # identity -> "interrupted"
                          [] r.card = identity /\ r.connected -> "ended"
                          [] r.card = identity /\ ~r.connected /\ r.incoming -> "missed"
                          [] r.card = identity /\ ~r.connected /\ ~r.incoming -> "unanswered"]

(* observe(calls, identity, now). *)
Observe(answer, identity) ==
    LET tracking == Tracking(answer, identity)
        IsAt(n, i) == i \in DOMAIN answer /\ tracking[i] = n
        After(n, r) ==
            IF \E i \in Index : IsAt(n, i)
            THEN Updated(r, answer[CHOOSE i \in Index : IsAt(n, i)])
            ELSE IF Open(r) THEN Closed(r, identity) ELSE r
        all == Appended(answer, identity)
    IN  /\ Len(all) <= MaxRecords
        /\ records' = [n \in DOMAIN all |-> After(n, all[n])]
        /\ active' = tracking
        /\ SaveIf(records' # records)

IsActive(n) == \E i \in Index : active[i] = n

(* interrupt(). *)
Interrupt ==
    /\ records' =
          [n \in DOMAIN records |->
              IF IsActive(n) THEN [records[n] EXCEPT !.state = "interrupted"] ELSE records[n]]
    /\ active' = [i \in Index |-> 0]
    /\ SaveIf(\E i \in Index : active[i] # 0)
-----------------------------------------------------------------------------
(* An observation: the monitor's, or one made by callAction. *)

EndObservation ==
    /\ pc' = "idle"
    /\ before' = NoCard
    /\ listing' = Nothing
    /\ cut' = {}

ReadBefore ==
    /\ pc = "idle"
    /\ before' \in ReadIdentity
    /\ pc' = "query"
    /\ swapped' = FALSE
    /\ UNCHANGED <<external, listing, log, errors>>

QueryCalls ==
    /\ pc = "query"
    /\ listing' \in Answers
    /\ cut' = {line[i] : i \in Index \ DOMAIN listing'} \ {NoCall}
    /\ pc' = "confirm"
    /\ UNCHANGED <<external, swapped, before, log, misjudged>>

BugQueryFailsIsSilence ==
    /\ "query" \in Fault
    /\ pc = "query"
    /\ Observe(Nothing, before)
    /\ EndObservation
    /\ UNCHANGED <<external, swapped, misjudged>>

(* The monitor's query fails. *)
QueryFails ==
    /\ "query" \in Fault
    /\ pc = "query"
    /\ Interrupt
    /\ EndObservation
    /\ UNCHANGED <<external, swapped, misjudged>>

(* A query of captureCallHistory fails: nothing is recorded. *)
CaptureFails ==
    /\ "query" \in Fault
    /\ pc = "query"
    /\ EndObservation
    /\ UNCHANGED <<external, swapped, log, misjudged>>

ConfirmedHistoryIdentity(first, second) ==
    IF first # NoCard /\ first = second THEN first ELSE NoCard

(* The calls whose records this step closes. *)
ClosedNow ==
    {records[n].number :
        n \in {m \in DOMAIN records : ~records[m].ended /\ records'[m].ended}}

FinishObservation ==
    /\ pc = "confirm"
    /\ \E second \in ReadIdentity :
          Observe(listing, ConfirmedHistoryIdentity(before, second))
    /\ misjudged' = misjudged \cup (cut \cap ClosedNow)
    /\ EndObservation
    /\ UNCHANGED <<external, swapped>>

(* appendHistory: an SMS, or a dial the module refused.  Its card matters  *)
(* to no property here.                                                    *)
AppendHistory ==
    /\ Len(records) < MaxRecords
    /\ records' = Append(records,
          [card |-> NoCard, number |-> NoCall, incoming |-> FALSE,
           connected |-> FALSE, ended |-> TRUE, state |-> "closed"])
    /\ Save
    /\ UNCHANGED <<external, swapped, observer, active, errors>>

(* An SMS that is in the log already, with something left to save. *)
AppendKnown ==
    /\ dirty
    /\ \E n \in DOMAIN records : records[n].number = NoCall
    /\ records' = records
    /\ Save
    /\ UNCHANGED <<external, swapped, observer, active, errors>>

(* What initHistory makes of the rows it loads: a call without an end is   *)
(* marked interrupted.                                                     *)
Reloaded(rows) ==
    [n \in DOMAIN rows |->
        IF rows[n].number # NoCall /\ ~rows[n].ended
        THEN [rows[n] EXCEPT !.state = "interrupted"]
        ELSE rows[n]]

(* The process dies and initHistory starts it again; a start that cannot   *)
(* save fails.                                                             *)
Restart ==
    /\ records' = Reloaded(durable)
    /\ durable' = records'
    /\ dirty' = FALSE
    /\ active' = [i \in Index |-> 0]
    /\ EndObservation
    /\ UNCHANGED <<external, swapped, misjudged>>

Next ==
    \/ \E c \in Call, i \in Index : CallBegins(c, i)
    \/ \E i \in Index : CallIsAnswered(i) \/ CallEnds(i)
    \/ ChangeCard
    \/ ReadBefore
    \/ QueryCalls
    \/ QueryFails
    \/ CaptureFails
    \/ FinishObservation
    \/ AppendHistory
    \/ AppendKnown
    \/ Restart

Spec == Init /\ [][Next]_vars
-----------------------------------------------------------------------------
(* The log, the answer and the identity have the types of the Go values.   *)
TypeOK ==
    /\ card \in Card \cup {NoCard}
    /\ line \in [Index -> Call \cup {NoCall}]
    /\ talking \subseteq Call
    /\ carrier \in [Call -> Card \cup {NoCard}]
    /\ swapped \in BOOLEAN
    /\ pc \in {"idle", "query", "confirm"}
    /\ before \in Card \cup {NoCard}
    /\ DOMAIN listing \subseteq Index /\ \A i \in DOMAIN listing : listing[i] \in Line
    /\ records \in Seq(Record) /\ durable \in Seq(Record)
    /\ Len(records) <= MaxRecords
    /\ active \in [Index -> 0 .. Len(records)]
    /\ dirty \in BOOLEAN
    /\ cut \subseteq Call /\ misjudged \subseteq Call

(* A clean log is the one on disk: what saves failed to write, crashes     *)
(* lost and other writers flushed is never forgotten by the dirty flag.    *)
CleanIsDurable == ~dirty => durable = records

(* The calls being tracked are exactly those whose record is open, one     *)
(* record each: no record is left to ring for ever in the alerts, and no   *)
(* call goes on in a record that says it was interrupted or has ended.     *)
OpenIsTracked ==
    /\ \A n \in DOMAIN records : Open(records[n]) <=> IsActive(n)
    /\ \A i, j \in Index : i # j /\ active[i] = active[j] => active[i] = 0

(* A call is filed under the card it came over, or under none.             *)
CallsAttributed ==
    \A n \in DOMAIN records :
        records[n].number # NoCall /\ records[n].card # NoCard =>
            records[n].card = carrier[records[n].number]

(* A call that has two records shows the gap: the earlier one says that    *)
(* the observation was interrupted, unless a cut answer made it say more.  *)
GapIsMarked ==
    \A m, n \in DOMAIN records :
        m < n /\ records[m].number = records[n].number /\ records[m].number # NoCall =>
            records[m].state = "interrupted" \/ records[m].number \in misjudged

(* What the log says at any time, in memory and on disk.                   *)
LogIsSound == TypeOK /\ CleanIsDurable /\ OpenIsTracked /\ CallsAttributed /\ GapIsMarked

(* A read failure is not evidence of a hang-up: a call is recorded as      *)
(* ended, missed or unanswered only when it is over.  (A record that says  *)
(* it was interrupted may have an end while the call goes on: observe      *)
(* gives it one when the identity cannot be confirmed.)                    *)
ReadFailureIsNoHangup ==
    [][\A n \in DOMAIN records \cap DOMAIN records' :
          /\ ~records[n].ended
          /\ records'[n].ended
          /\ records'[n].state # "interrupted"
          => Over(records[n].number)]_vars

(* What the code keeps of it: of all the failures, of queries, identities  *)
(* and saves, only an answer that was cut short and left out this very     *)
(* call ends a record too early.                                           *)
HangupIsReal ==
    [][\A n \in DOMAIN records \cap DOMAIN records' :
          /\ ~records[n].ended
          /\ records'[n].ended
          /\ records'[n].state # "interrupted"
          => Over(records[n].number) \/ records[n].number \in cut]_vars
=============================================================================
