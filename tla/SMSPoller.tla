------------------------------ MODULE SMSPoller ------------------------------
(***************************************************************************)
(* Receiving SMS over USB AT: pollSMSOnce, readUSBATSMS and clearModuleSMS *)
(* of cmd/dj4ghub-macos/main.go, with the archive of                       *)
(* communication_history.go behind them.                                   *)
(*                                                                         *)
(* The module keeps messages in two memories, SM (on the SIM card) and ME  *)
(* (its own).  AT+CPMS selects the memory that AT+CMGL lists and AT+CMGD   *)
(* erases; the selection is the module's, shared by every goroutine that   *)
(* talks to it.  One command runs at a time (usbAT.mu), but a sequence of  *)
(* commands is not atomic: one action here is one AT command with the      *)
(* local work that follows it.  A poll reads both memories, archives what  *)
(* it found and then erases ME.                                            *)
(***************************************************************************)
EXTENDS Naturals, Sequences, FiniteSets, SequencesExt, Reassembler

CONSTANTS
    Card,         \* SIM cards or profiles, by ICCID
    NoCard,       \* an empty slot, or an identity that could not be confirmed
    Long,         \* messages of two parts
    Single,       \* messages of one part
    Garbled,      \* one-part messages whose PDU does not decode
    ManualClear,  \* the user may press "clear module SMS"
    Truncates,    \* AT+CMGL may time out in the middle of its answer
    Refuses,      \* AT+CPMS and AT+CMGD may be answered with an error
    MaxClock      \* bound: distinguishable times at which a PDU is decoded

Message == Long \cup Single \cup Garbled

Part ==
    [key : Long, seq : 1 .. 2, total : {2}] \cup [key : Single \cup Garbled, seq : {1}, total : {1}]

ASSUME PollerAssumption ==
    /\ {NoCard, "network", "ME"} \cap Card = {}
    /\ {ManualClear, Truncates, Refuses} \subseteq BOOLEAN
    /\ MaxClock \in Nat

(* A decoded message: the part that made it whole gives its timestamp, and *)
(* an undecodable PDU gets the time of its decoding.  The key of a.sms.    *)
Text == [part : Part, at : 0 .. MaxClock]

(* What a poll has read, and from which memory. *)
Found == [text : Text, memory : {"SM", "ME"}]

(* A history record: its ID digests the text and the card it is filed under. *)
Record == [text : Text, card : Card \cup {NoCard}]

VARIABLES
    card,         \* external: the card in the slot
    sim,          \* external: the SM memory of each card, in slot order
    me,           \* external: the ME memory, in slot order
    selected,     \* external: the memory AT+CPMS selected
    placed,       \* external: where each part was delivered
    swapped,      \* external: the card changed during this poll
    clock,        \* time, in steps a timestamp can tell apart
    pc,           \* where the poll is; smsPollMu is held unless it is idle
    identity,     \* the poll's identity
    cardIdentity, \* a.smsCardIdentity
    failures,     \* how many memories this poll could not read
    batch,        \* messages read: text and the memory they are filed under
    todo,         \* those not archived yet
    cache,        \* a.smsReassembler
    inbox,        \* a.sms
    records,      \* the history records in memory
    durable,      \* those on disk
    dirty,        \* h.dirty
    clearing,     \* where the clear-module handler is
    strayed,      \* history: the memory the poll selected last is not the one it asked for
    mistaken      \* history: texts of ME that a poll took for those of SM

module == <<card, sim, me, selected, placed>>
poll == <<pc, identity, cardIdentity, failures, batch, todo, cache>>
history == <<records, durable, dirty>>
errors == <<strayed, mistaken>>

vars == <<module, swapped, clock, poll, inbox, history, clearing, errors>>

Init ==
    /\ card \in Card \cup {NoCard}
    /\ sim = [c \in Card |-> <<>>]
    /\ me = <<>>
    /\ selected \in {"SM", "ME"}
    /\ placed = [p \in Part |-> "network"]
    /\ swapped = FALSE
    /\ clock = 0
    /\ pc = "idle"
    /\ identity = NoCard
    /\ cardIdentity = NoCard
    /\ failures = 0
    /\ batch = {}
    /\ todo = {}
    /\ cache = EmptyCache
    /\ inbox = {}
    /\ records = {}
    /\ durable = {}
    /\ dirty = FALSE
    /\ clearing = "idle"
    /\ strayed = FALSE
    /\ mistaken = {}
-----------------------------------------------------------------------------
(* The module (external).                                                  *)

(* A part arrives and takes some free slot of either memory. *)
Deliver(p) ==
    /\ placed[p] = "network"
    /\ \/ /\ card # NoCard
          /\ \E i \in 1 .. Len(sim[card]) + 1 :
                sim' = [sim EXCEPT ![card] = InsertAt(@, i, p)]
          /\ placed' = [placed EXCEPT ![p] = card]
          /\ UNCHANGED me
       \/ /\ \E i \in 1 .. Len(me) + 1 : me' = InsertAt(me, i, p)
          /\ placed' = [placed EXCEPT ![p] = "ME"]
          /\ UNCHANGED sim
    /\ UNCHANGED <<card, selected, swapped, clock, poll, inbox, history, clearing, errors>>

(* The card is taken out, put in or switched; a poll is too short for two  *)
(* such changes.                                                           *)
ChangeCard ==
    /\ ~swapped
    /\ card' \in (Card \cup {NoCard}) \ {card}
    /\ swapped' = (pc # "idle")
    /\ UNCHANGED <<sim, me, selected, placed, clock, poll, inbox, history, clearing, errors>>

Tick ==
    /\ clock < MaxClock
    /\ clock' = clock + 1
    /\ UNCHANGED <<module, swapped, poll, inbox, history, clearing, errors>>

(* AT+CPMS.  SM cannot be selected without a card; the module answers with *)
(* an error, which usbAT.Command does not report as one.  It may answer so *)
(* at any time: then, too, the code goes on with the memory selected before. *)
Select(memory) ==
    /\ selected' = IF memory = "SM" /\ card = NoCard THEN selected ELSE memory
    /\ strayed' = FALSE

SelectionRefused(memory) ==
    /\ Refuses
    /\ strayed' = (selected # memory)
    /\ UNCHANGED selected

Selected ==
    CASE selected = "ME"                    -> me
      [] selected = "SM" /\ card # NoCard   -> sim[card]
      [] selected = "SM" /\ card = NoCard   -> <<>>

(* AT+CMGD=1,4 erases whatever is selected. *)
EraseSelected ==
    /\ me' = IF selected = "ME" THEN <<>> ELSE me
    /\ sim' = [c \in Card |-> IF selected = "SM" /\ c = card THEN <<>> ELSE sim[c]]

(* AT+QCCID, which may fail. *)
ReadIdentity == {card, NoCard}
-----------------------------------------------------------------------------
(* The poll.                                                               *)

(* An identity that changed or could not be read voids the fragments.      *)
CacheFor(read) == IF read = NoCard \/ read # cardIdentity THEN EmptyCache ELSE cache

PollStart ==
    /\ pc = "idle"
    /\ \E read \in ReadIdentity :
          /\ identity' = read
          /\ cache' = CacheFor(read)
          /\ cardIdentity' = read
    /\ failures' = 0
    /\ batch' = {}
    /\ todo' = {}
    /\ swapped' = FALSE
    /\ strayed' = FALSE
    /\ pc' = "selectSM"
    /\ UNCHANGED <<module, clock, inbox, history, clearing, mistaken>>

(* A poll that ends, for whatever reason, forgets its locals. *)
EndPoll ==
    /\ pc' = "idle"
    /\ identity' = NoCard
    /\ failures' = 0
    /\ batch' = {}
    /\ todo' = {}
    /\ strayed' = FALSE

(* AT+CMGF=0 fails: the poll is over. *)
SetModeFails ==
    /\ pc = "selectSM"
    /\ EndPoll
    /\ UNCHANGED <<module, swapped, clock, cardIdentity, cache, inbox, history, clearing, mistaken>>

BeforeSelect(memory) == IF memory = "SM" THEN "selectSM" ELSE "selectME"

BeforeList(memory) == IF memory = "SM" THEN "listSM" ELSE "listME"

AfterMemory(memory) == IF memory = "SM" THEN "selectME" ELSE "confirm"

SelectMemory(memory) ==
    /\ pc = BeforeSelect(memory)
    /\ Select(memory)
    /\ pc' = BeforeList(memory)
    /\ UNCHANGED <<card, sim, me, placed, swapped, clock, identity, cardIdentity, failures, batch,
                   todo, cache, inbox, history, clearing, mistaken>>

SelectMemoryRefused(memory) ==
    /\ pc = BeforeSelect(memory)
    /\ SelectionRefused(memory)
    /\ pc' = BeforeList(memory)
    /\ UNCHANGED <<card, sim, me, placed, swapped, clock, identity, cardIdentity, failures, batch,
                   todo, cache, inbox, history, clearing, mistaken>>

(* A command of this memory fails: the poll goes on with the other one, or *)
(* ends if it could read neither and has nothing to show.                  *)
MemoryFails(memory) ==
    /\ pc \in {BeforeSelect(memory), BeforeList(memory)}
    /\ IF failures = 1 /\ batch = {}
       THEN EndPoll
       ELSE /\ pc' = AfterMemory(memory)
            /\ failures' = failures + 1
            /\ UNCHANGED <<identity, batch, todo, strayed>>
    /\ UNCHANGED <<module, swapped, clock, cardIdentity, cache, inbox, history, clearing, mistaken>>

TextOf(p) == [part |-> p, at |-> IF p.key \in Garbled THEN clock ELSE 0]

(* Decoding the listing in order: long messages go through the reassembler, *)
(* of which CacheAfter(listing)[i] is what i entries have left.            *)
CacheAfter(listing) ==
    LET after[i \in 0 .. Len(listing)] ==
            IF i = 0 THEN cache
            ELSE IF listing[i].total = 1 THEN after[i - 1]
            ELSE Add(after[i - 1], listing[i])
    IN  after

TextsOf(listing) ==
    LET after == CacheAfter(listing)
    IN  {TextOf(listing[i]) :
            i \in {j \in 1 .. Len(listing) :
                    listing[j].total = 1 \/ Completes(after[j - 1], listing[j])}}

(* The long messages of the listing that get a new fragment.               *)
Refreshed(listing) ==
    {listing[i].key :
        i \in {j \in 1 .. Len(listing) :
                listing[j].key \in Long /\ ~IsDuplicate(CacheAfter(listing)[j - 1], listing[j])}}

(* AT+CMGL=4, of whose answer the first n entries arrive.  Cleanup drops   *)
(* the fragments of messages that have had no new one for ten minutes.     *)
TakeListing(memory, n) ==
    /\ pc = BeforeList(memory)
    /\ \E old \in SUBSET Long :
          LET listing == SubSeq(Selected, 1, n)
              known   == {b.text : b \in batch}
          IN  /\ old \cap Refreshed(listing) = {}
              /\ cache' = Cleanup(CacheAfter(listing)[n], old)
              /\ batch' =
                    batch \cup {[text |-> t, memory |-> memory] : t \in TextsOf(listing) \ known}
              /\ mistaken' =
                    mistaken \cup (IF strayed /\ memory = "SM" THEN TextsOf(listing) ELSE {})
    /\ pc' = AfterMemory(memory)
    /\ UNCHANGED <<module, swapped, clock, identity, cardIdentity, failures, todo, inbox, history,
                   clearing, strayed>>

ListMemory(memory) == TakeListing(memory, Len(Selected))

(* An answer that stops before the end of the list when the command times  *)
(* out is taken for the whole list.                                        *)
ListCut(memory) ==
    /\ Truncates
    /\ \E n \in 0 .. Len(Selected) - 1 : TakeListing(memory, n)

BugConfirmTrustsFirst(before, after) == before

ConfirmedHistoryIdentity(before, after) ==
    IF before # NoCard /\ before = after THEN before ELSE NoCard

Confirm ==
    /\ pc = "confirm"
    /\ \E read \in ReadIdentity : identity' = ConfirmedHistoryIdentity(identity, read)
    /\ todo' = batch
    /\ pc' = "archive"
    /\ UNCHANGED <<module, swapped, clock, cardIdentity, failures, batch, cache, inbox, history,
                   clearing, errors>>

(* Only SM tells which card a message was received for. *)
RecordOf(b) == [text |-> b.text, card |-> IF b.memory = "SM" THEN identity ELSE NoCard]

(* appendHistory when nothing has to be written or the write succeeds.     *)
Archive(b) ==
    /\ pc = "archive"
    /\ b \in todo
    /\ LET r == RecordOf(b)
       IN  IF r \in records /\ ~dirty
           THEN UNCHANGED history
           ELSE /\ records' = records \cup {r}
                /\ durable' = records'
                /\ dirty' = FALSE
    /\ todo' = todo \ {b}
    /\ UNCHANGED <<module, swapped, clock, pc, identity, cardIdentity, failures, batch, cache,
                   inbox, clearing, errors>>

BugArchiveFailureGoesOn(b) ==
    /\ pc = "archive"
    /\ b \in todo
    /\ RecordOf(b) \notin records \/ dirty
    /\ records' = records \cup {RecordOf(b)}
    /\ dirty' = TRUE
    /\ todo' = todo \ {b}
    /\ UNCHANGED <<module, swapped, clock, pc, identity, cardIdentity, failures, batch, cache,
                   durable, inbox, clearing, errors>>

(* The write fails: the record stays in memory and the poll ends, with the *)
(* rest unarchived and nothing erased.                                     *)
ArchiveFails(b) ==
    /\ pc = "archive"
    /\ b \in todo
    /\ RecordOf(b) \notin records \/ dirty
    /\ records' = records \cup {RecordOf(b)}
    /\ dirty' = TRUE
    /\ EndPoll
    /\ UNCHANGED <<module, swapped, clock, cardIdentity, cache, durable, inbox, clearing, mistaken>>

BugMergeBeforeArchive ==
    /\ pc = "archive"
    /\ inbox' = inbox \cup {b.text : b \in batch}
    /\ IF batch = {}
       THEN EndPoll
       ELSE pc' = "clearME" /\ UNCHANGED <<identity, failures, batch, todo, strayed>>
    /\ UNCHANGED <<module, swapped, clock, cardIdentity, cache, history, clearing, mistaken>>

(* mergeSMS, and on to the cleanup if the poll found anything. *)
Merge ==
    /\ pc = "archive"
    /\ todo = {}
    /\ inbox' = inbox \cup {b.text : b \in batch}
    /\ IF batch = {}
       THEN EndPoll
       ELSE pc' = "clearME" /\ UNCHANGED <<identity, failures, batch, todo, strayed>>
    /\ UNCHANGED <<module, swapped, clock, cardIdentity, cache, history, clearing, mistaken>>

(* clearUSBATSMSMemoryForDevice: select ME, erase, select ME again to see  *)
(* what is left.  A command that fails ends it.                            *)
ClearSelect ==
    /\ pc = "clearME"
    /\ Select("ME")
    /\ pc' = "erase"
    /\ UNCHANGED <<card, sim, me, placed, swapped, clock, identity, cardIdentity, failures, batch,
                   todo, cache, inbox, history, clearing, mistaken>>

ClearSelectRefused ==
    /\ pc = "clearME"
    /\ SelectionRefused("ME")
    /\ pc' = "erase"
    /\ UNCHANGED <<card, sim, me, placed, swapped, clock, identity, cardIdentity, failures, batch,
                   todo, cache, inbox, history, clearing, mistaken>>

ClearErase ==
    /\ pc = "erase"
    /\ EraseSelected
    /\ pc' = "recheck"
    /\ UNCHANGED <<card, selected, placed, swapped, clock, identity, cardIdentity, failures, batch,
                   todo, cache, inbox, history, clearing, errors>>

ClearEraseRefused ==
    /\ Refuses
    /\ pc = "erase"
    /\ pc' = "recheck"
    /\ UNCHANGED <<module, swapped, clock, identity, cardIdentity, failures, batch, todo, cache,
                   inbox, history, clearing, errors>>

ClearRecheck ==
    /\ pc = "recheck"
    /\ Select("ME")
    /\ EndPoll
    /\ UNCHANGED <<card, sim, me, placed, swapped, clock, cardIdentity, cache, inbox, history,
                   clearing, mistaken>>

ClearFails ==
    /\ pc \in {"clearME", "erase", "recheck"}
    /\ EndPoll
    /\ UNCHANGED <<module, swapped, clock, cardIdentity, cache, inbox, history, clearing, mistaken>>
-----------------------------------------------------------------------------
(* clearModuleSMS: the same three commands, without smsPollMu.             *)

ManualSelect ==
    /\ ManualClear
    /\ clearing = "idle"
    /\ selected' = "ME"
    /\ clearing' = "erase"
    /\ strayed' = (strayed \/ pc = "listSM")
    /\ UNCHANGED <<card, sim, me, placed, swapped, clock, poll, inbox, history, mistaken>>

ManualErase ==
    /\ clearing = "erase"
    /\ EraseSelected
    /\ clearing' = "recheck"
    /\ UNCHANGED <<card, selected, placed, swapped, clock, poll, inbox, history, errors>>

ManualRecheck ==
    /\ clearing = "recheck"
    /\ selected' = "ME"
    /\ clearing' = "idle"
    /\ strayed' = (strayed \/ pc = "listSM")
    /\ UNCHANGED <<card, sim, me, placed, swapped, clock, poll, inbox, history, mistaken>>

(* Its selection, or its erasure, is refused, and it goes on. *)
ManualRefused ==
    /\ Refuses
    /\ \/ ManualClear /\ clearing = "idle" /\ clearing' = "erase"
       \/ clearing = "erase" /\ clearing' = "recheck"
    /\ UNCHANGED <<module, swapped, clock, poll, inbox, history, errors>>

ManualFails ==
    /\ clearing # "idle"
    /\ clearing' = "idle"
    /\ UNCHANGED <<module, swapped, clock, poll, inbox, history, errors>>
-----------------------------------------------------------------------------
(* The call observer saves the history too, with what the poll left dirty. *)
OtherSave ==
    /\ dirty
    /\ durable' = records
    /\ dirty' = FALSE
    /\ UNCHANGED <<module, swapped, clock, poll, inbox, records, clearing, errors>>

(* The process dies and is started again: initHistory reloads the disk.    *)
Restart ==
    /\ EndPoll
    /\ cardIdentity' = NoCard
    /\ cache' = EmptyCache
    /\ inbox' = {}
    /\ records' = durable
    /\ dirty' = FALSE
    /\ clearing' = "idle"
    /\ UNCHANGED <<module, swapped, clock, durable, mistaken>>

PollSteps ==
    \/ PollStart
    \/ \E memory \in {"SM", "ME"} : SelectMemory(memory) \/ ListMemory(memory)
    \/ Confirm
    \/ \E b \in todo : Archive(b)
    \/ Merge
    \/ ClearSelect
    \/ ClearErase
    \/ ClearRecheck

Failures ==
    \/ SetModeFails
    \/ \E memory \in {"SM", "ME"} :
            MemoryFails(memory) \/ SelectMemoryRefused(memory) \/ ListCut(memory)
    \/ \E b \in todo : ArchiveFails(b)
    \/ ClearSelectRefused
    \/ ClearEraseRefused
    \/ ClearFails
    \/ ManualFails
    \/ Restart

Manual == ManualSelect \/ ManualErase \/ ManualRecheck \/ ManualRefused

Next ==
    \/ \E p \in Part : Deliver(p)
    \/ ChangeCard
    \/ Tick
    \/ PollSteps
    \/ Failures
    \/ Manual
    \/ OtherSave

Spec == Init /\ [][Next]_vars

(* The poller's timer keeps firing and AT commands come back. *)
LiveSpec == Spec /\ WF_vars(PollSteps)
-----------------------------------------------------------------------------
(* The memories hold parts delivered to them, the poll's locals have the   *)
(* types of the Go variables, and a clean history is what is on disk.      *)
TypeOK ==
    /\ card \in Card \cup {NoCard}
    /\ sim \in [Card -> Seq(Part)]
    /\ me \in Seq(Part)
    /\ selected \in {"SM", "ME"}
    /\ placed \in [Part -> {"network", "ME"} \cup Card]
    /\ swapped \in BOOLEAN
    /\ clock \in 0 .. MaxClock
    /\ pc \in {"idle", "selectSM", "listSM", "selectME", "listME", "confirm", "archive",
               "clearME", "erase", "recheck"}
    /\ identity \in Card \cup {NoCard}
    /\ cardIdentity \in Card \cup {NoCard}
    /\ failures \in 0 .. 2
    /\ batch \subseteq Found
    /\ todo \subseteq batch
    /\ cache \subseteq Part
    /\ inbox \subseteq Text
    /\ records \subseteq Record
    /\ durable \subseteq records
    /\ dirty \in BOOLEAN
    /\ ~dirty => durable = records
    /\ clearing \in {"idle", "erase", "recheck"}
    /\ strayed \in BOOLEAN
    /\ mistaken \subseteq Text

(* Messages read from the SM memory may be filed under the present card,   *)
(* those of the module's own memory under none: a record filed under a     *)
(* card is of a message received for that card.                            *)
AttributionSound == \A r \in records : r.card # NoCard => placed[r.text.part] = r.card

(* What the code keeps of it whatever happens: a card changed in the       *)
(* middle of a poll, an identity that cannot be read and an empty slot     *)
(* never put a message under the wrong card; only one that a listing took  *)
(* for SM's, after the module refused the selection or the user's cleanup  *)
(* had made another, may be under a card without being received for it.    *)
AttributionKept ==
    \A r \in records :
        r.card # NoCard => placed[r.text.part] = r.card \/ r.text \in mistaken

(* What the user is shown survives a crash: every text in the inbox is in  *)
(* a record on disk.                                                       *)
InboxIsDurable == \A t \in inbox : \E r \in durable : r.text = t

(* A poll erases ME only when everything it has read is on disk; a failed  *)
(* archive stops the cleanup, whatever was saved before or since.          *)
CleanupFollowsArchive ==
    [][pc = "erase" /\ me' # me => \A b \in batch : \E r \in durable : r.text = b.text]_vars

(* Messages on a SIM card are never erased: cleanup is for the module's    *)
(* own memory.                                                             *)
SIMNeverErased ==
    [][\A c \in Card : ToSet(sim[c]) \subseteq ToSet(sim'[c])]_vars

(* What the code keeps of it: SIM messages are erased only by a poll whose *)
(* selection of ME was refused, or by the user's cleanup.                  *)
SIMErasedByMistake ==
    [][\A c \in Card : ToSet(sim[c]) \subseteq ToSet(sim'[c]) \/ strayed \/ clearing = "erase"]_vars

StoredOnSIM(m) ==
    card # NoCard /\ {p \in Part : p.key = m} \subseteq ToSet(sim[card])

Archived(m) == \E r \in durable : r.text.part.key = m

(* A message that stays on the SIM card is archived once the failures, the *)
(* crashes, the cut answers and the card changes are over, whatever they   *)
(* left behind in the reassembler and in the history.  (Some failures look *)
(* like a normal step, as an answer cut after its last entry does.)        *)
SIMMessagesArchived ==
    <>[][Failures \/ ChangeCard => PollSteps]_vars =>
        \A m \in Message : StoredOnSIM(m) ~> (Archived(m) \/ ~StoredOnSIM(m))
=============================================================================
