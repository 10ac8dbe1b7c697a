---------------------------- MODULE ModemServices ----------------------------
(***************************************************************************)
(* What internal/modem/manager.go builds on its command loop (ModemLink):  *)
(* reading SMS out of the module's two storages, one goroutine for each    *)
(* +CMTI and one job that reads and erases everything; USSD sessions;      *)
(* the SIM check with its alarm; the wait for RDY after a restart; and the *)
(* cached identity of the SIM card.  An AT command is one step and may     *)
(* fail; between two commands of a job anything may happen.                *)
(***************************************************************************)
EXTENDS Naturals, FiniteSets

CONSTANTS
    Message,    \* messages that may arrive
    Parts,      \* those that are the parts of one long message
    Job,        \* goroutines that read one SMS
    User,       \* goroutines that run USSD
    Collector,  \* initModem's goroutine and callers of RefreshDeviceInfo
    None,
    MaxEvents   \* bound: sessions, checks, collections and card changes

\* CheckAllSMS is none of the jobs that read one SMS.
All == "all"

ServicesAssumption == All \notin Job

VARIABLES
    selected,   \* the storage AT+CPMS has selected
    slot,       \* the message at the index the +CMTI names, per storage
    pc, want, prev, \* reading jobs: control state, storage, one to restore
    check,      \* CheckAllSMS: "idle", "erase"
    cached,     \* parts in the reassembler
    read,       \* history: messages decoded
    erased,     \* history: messages erased from the module
    garbled,    \* history: messages listed without their PDU
    disturbed,  \* history: jobs (All: CheckAllSMS) between reading and erasing
                \* whose storage was switched, or whose index was filled anew
    astray,     \* history: messages those have erased
    upc, session, \* USSD: control state and session of each user
    ussdChan,   \* the result in ussdChan, 0 for none
    pending,    \* sessions the network may still answer
    stray,      \* history: sessions given up without the network knowing
    together,   \* history: two sessions ran together
    results,    \* history: <<session, result it was given>>
    simFailCount, simAlerting,
    raised,     \* history: alarms raised and not taken back
    rdy,        \* a subscriber: "none", "waiting", or woken: "polled", "restarted"
    card, info, \* the SIM card, the cache
    cpc, found, \* collections: control state, IMSI and number found, 0 for none
    spoilt,     \* history: collections under way whose card has changed, in
                \* which a query failed, or which another has overtaken
    overtaken,  \* history: of these, the last
    mixed,      \* history: the last to end was spoilt
    crossed,    \* history: it had been overtaken
    events

sms == <<selected, slot, pc, want, prev, check, cached, read, erased, garbled, disturbed, astray>>
ussd == <<upc, session, ussdChan, pending, stray, together, results>>
status == <<simFailCount, simAlerting, raised, rdy>>
identity == <<card, info, cpc, found, spoilt, overtaken, mixed, crossed>>
vars == <<sms, ussd, status, identity, events>>

Storage == {"ME", "SM"}
Event == events < MaxEvents /\ events' = events + 1

Init ==
    /\ selected \in Storage
    /\ slot = [s \in Storage |-> None]
    /\ pc = [j \in Job |-> "idle"]
    /\ want = [j \in Job |-> None] /\ prev = [j \in Job |-> None]
    /\ check = "idle" /\ cached = {} /\ read = {} /\ erased = {}
    /\ garbled = {} /\ disturbed = {} /\ astray = {}
    /\ upc = [u \in User |-> "idle"] /\ session = [u \in User |-> 0]
    /\ ussdChan = 0 /\ pending = {} /\ stray = {} /\ together = FALSE /\ results = {}
    /\ simFailCount = 0 /\ simAlerting = FALSE /\ raised = 0 /\ rdy = "none"
    /\ card = 1 /\ info = [imsi |-> 1, number |-> 1, iccid |-> 1]
    /\ cpc = [c \in Collector |-> "idle"]
    /\ found = [c \in Collector |-> [imsi |-> 0, number |-> 0]]
    /\ spoilt = {} /\ overtaken = {} /\ mixed = FALSE /\ crossed = FALSE /\ events = 0

-----------------------------------------------------------------------------
\* SMS

Busy(j) == pc[j] # "idle"

\* Those that have read and not erased yet.
Erasing == {j \in Job : pc[j] = "erase"} \cup IF check = "erase" THEN {All} ELSE {}

\* A message arrives; +CMTI starts a job, unless automatic reading is off.
\* A URC without a storage is read where the module happens to be.
Arrive(m, s) ==
    /\ m \notin read \cup erased \cup garbled /\ \A t \in Storage : slot[t] # m
    /\ slot[s] = None
    /\ slot' = [slot EXCEPT ![s] = m]
    /\ disturbed' = IF s = selected THEN disturbed \cup Erasing ELSE disturbed
    /\ \/ \E j \in Job :
            /\ ~Busy(j)
            /\ pc' = [pc EXCEPT ![j] = "query"]
            /\ want' = [want EXCEPT ![j] = s]
       \/ UNCHANGED <<pc, want>>
    /\ UNCHANGED <<selected, prev, check, cached, read, erased, garbled, astray>>
    /\ UNCHANGED <<ussd, status, identity, events>>

Step(j, from, to) == pc[j] = from /\ pc' = [pc EXCEPT ![j] = to]

\* switchSMSStorageForRead: AT+CPMS? tells what to restore.
Query(j) ==
    /\ \/ /\ Step(j, "query", IF selected = want[j] THEN "read" ELSE "select")
          /\ prev' = [prev EXCEPT ![j] = IF selected = want[j] THEN None ELSE selected]
       \/ /\ Step(j, "query", "select")
          /\ UNCHANGED prev
    /\ UNCHANGED <<selected, slot, want, check, cached, read, erased, garbled, disturbed, astray>>
    /\ UNCHANGED <<ussd, status, identity, events>>

\* AT+CPMS=; whoever is about to erase does so in this storage.
Switch(s) ==
    /\ selected' = s
    /\ disturbed' = IF s = selected THEN disturbed ELSE disturbed \cup Erasing

\* A storage that cannot be selected is not read.
Select(j) ==
    /\ \/ /\ Step(j, "select", "read")
          /\ Switch(want[j])
          /\ UNCHANGED <<want, prev>>
       \/ /\ Step(j, "select", "idle")
          /\ want' = [want EXCEPT ![j] = None] /\ prev' = [prev EXCEPT ![j] = None]
          /\ UNCHANGED <<selected, disturbed>>
    /\ UNCHANGED <<slot, check, cached, read, erased, garbled, astray>>
    /\ UNCHANGED <<ussd, status, identity, events>>

\* decodePDU and Reassembler.Add; a message that is whole goes to the
\* callback, one that cannot be decoded as it is.
Decoded(ms) ==
    /\ read' = read \cup ms
    /\ cached' = IF Parts \subseteq cached \cup ms THEN {} ELSE cached \cup (ms \cap Parts)

BugReadMessage(j) ==
    /\ Step(j, "read", "erase")
    /\ \/ /\ slot[selected] # None
          /\ Decoded({slot[selected]})
       \/ UNCHANGED <<read, cached>>
    /\ UNCHANGED <<selected, slot, want, prev, check, erased, garbled, disturbed, astray>>
    /\ UNCHANGED <<ussd, status, identity, events>>

ReadMessage(j) ==
    /\ \/ /\ slot[selected] # None
          /\ Step(j, "read", "erase")
          /\ Decoded({slot[selected]})
       \/ /\ Step(j, "read", "restore")
          /\ UNCHANGED <<read, cached>>
    /\ UNCHANGED <<selected, slot, want, prev, check, erased, garbled, disturbed, astray>>
    /\ UNCHANGED <<ussd, status, identity, events>>

\* AT+CMGD, of what is at the index in the storage selected by then, or an
\* error.
Erases(x) ==
    /\ \/ /\ erased' = erased \cup ({slot[selected]} \ {None})
          /\ astray' = IF x \in disturbed THEN astray \cup ({slot[selected]} \ {None}) ELSE astray
          /\ slot' = [slot EXCEPT ![selected] = None]
       \/ UNCHANGED <<erased, astray, slot>>
    /\ disturbed' = disturbed \ {x}

Erase(j) ==
    /\ Step(j, "erase", "restore")
    /\ Erases(j)
    /\ UNCHANGED <<selected, want, prev, check, cached, read, garbled>>
    /\ UNCHANGED <<ussd, status, identity, events>>

\* The deferred restore; with an error the storage stays selected.
Restore(j) ==
    /\ Step(j, "restore", "idle")
    /\ \E s \in {selected, IF prev[j] = None THEN selected ELSE prev[j]} : Switch(s)
    /\ want' = [want EXCEPT ![j] = None] /\ prev' = [prev EXCEPT ![j] = None]
    /\ UNCHANGED <<slot, check, cached, read, erased, garbled, astray>>
    /\ UNCHANGED <<ussd, status, identity, events>>

\* CheckAllSMS: list and decode all of the selected storage.  A header whose
\* PDU line is missing is passed over; the storage may hold messages at
\* other indexes too, so it goes on to erase either way ...
ListAll ==
    /\ check = "idle"
    /\ check' = "erase"
    /\ LET m == {slot[selected]} \ {None} IN
       \/ Decoded(m) /\ UNCHANGED garbled
       \/ garbled' = garbled \cup m /\ UNCHANGED <<read, cached>>
    /\ UNCHANGED <<selected, slot, pc, want, prev, erased, disturbed, astray>>
    /\ UNCHANGED <<ussd, status, identity, events>>

\* ... all there is by then (SMSDeleteAll).
EraseAll ==
    /\ check = "erase"
    /\ check' = "idle"
    /\ Erases(All)
    /\ UNCHANGED <<selected, pc, want, prev, cached, read, garbled>>
    /\ UNCHANGED <<ussd, status, identity, events>>

\* cleanupOldFragments, or a new process.
Forget ==
    /\ cached # {}
    /\ cached' = {}
    /\ UNCHANGED <<selected, slot, pc, want, prev, check, read, erased, garbled, disturbed, astray>>
    /\ UNCHANGED <<ussd, status, identity, events>>

-----------------------------------------------------------------------------
\* USSD

BugExecuteUSSD(u) ==
    /\ Event /\ upc[u] = "idle"
    /\ upc' = [upc EXCEPT ![u] = "send"]
    /\ session' = [session EXCEPT ![u] = events']
    /\ together' = (together \/ \E v \in User : upc[v] # "idle")
    /\ UNCHANGED <<sms, ussdChan, pending, stray, results, status, identity>>

\* ExecuteUSSD empties the channel, then sets the character set.
ExecuteUSSD(u) ==
    /\ Event /\ upc[u] = "idle"
    /\ upc' = [upc EXCEPT ![u] = "send"]
    /\ session' = [session EXCEPT ![u] = events']
    /\ ussdChan' = 0
    /\ together' = (together \/ \E v \in User : upc[v] # "idle")
    /\ UNCHANGED <<sms, pending, stray, results, status, identity>>

USSDReturn(u) ==
    /\ upc' = [upc EXCEPT ![u] = "idle"]
    /\ session' = [session EXCEPT ![u] = 0]

\* AT+CUSD=1: sent; or an error, and the network may have got it.
SendUSSD(u) ==
    /\ upc[u] = "send"
    /\ \/ /\ upc' = [upc EXCEPT ![u] = "wait"]
          /\ pending' = pending \cup {session[u]}
          /\ UNCHANGED <<session, stray>>
       \/ /\ USSDReturn(u)
          /\ pending' \in {pending, pending \cup {session[u]}}
          /\ stray' = stray \cup {session[u]}
    /\ UNCHANGED <<sms, ussdChan, together, results, status, identity, events>>

\* +CUSD: into the channel, or dropped when that is full.
NetworkAnswers(i) ==
    /\ i \in pending
    /\ pending' = pending \ {i}
    /\ ussdChan' = IF ussdChan = 0 THEN i ELSE ussdChan
    /\ UNCHANGED <<sms, upc, session, stray, together, results, status, identity, events>>

ReceiveUSSD(u) ==
    /\ upc[u] = "wait" /\ ussdChan # 0
    /\ results' = results \cup {<<session[u], ussdChan>>}
    /\ ussdChan' = 0
    /\ USSDReturn(u)
    /\ UNCHANGED <<sms, pending, stray, together, status, identity, events>>

\* The timer; CancelUSSD ends what the network has open, or fails.
USSDTimesOut(u) ==
    /\ upc[u] = "wait"
    /\ USSDReturn(u)
    /\ \/ pending' = {} /\ UNCHANGED stray
       \/ UNCHANGED pending /\ stray' = stray \cup {session[u]}
    /\ UNCHANGED <<sms, ussdChan, together, results, status, identity, events>>

-----------------------------------------------------------------------------
\* The SIM check and RDY

\* RefreshStatus.  AT+QSIMSTAT? never yields its line, which handleCommand
\* takes for a URC, so AT+CPIN? decides; its "READY" wakes the subscribers.
RefreshStatus(ready) ==
    /\ Event
    /\ rdy' = IF ready /\ rdy = "waiting" THEN "polled" ELSE rdy
    /\ simFailCount' = IF ready THEN 0 ELSE simFailCount + 1
    /\ simAlerting' = (~ready /\ (simAlerting \/ simFailCount' >= 3))
    /\ raised' = IF simAlerting = simAlerting' THEN raised
                 ELSE IF simAlerting' THEN raised + 1 ELSE raised - 1
    /\ UNCHANGED <<sms, ussd, identity>>

SubscribeRDY ==
    /\ Event /\ rdy = "none"
    /\ rdy' = "waiting"
    /\ UNCHANGED <<sms, ussd, simFailCount, simAlerting, raised, identity>>

\* Restarted, the module says RDY or +CPIN: READY.
DispatchRDY ==
    /\ rdy = "waiting"
    /\ rdy' = "restarted"
    /\ UNCHANGED <<sms, ussd, simFailCount, simAlerting, raised, identity, events>>

-----------------------------------------------------------------------------
\* The identity of the card

CardChanges ==
    /\ Event
    /\ card' = card + 1
    /\ spoilt' = {c \in Collector : cpc[c] # "idle"}
    /\ UNCHANGED <<sms, ussd, status, info, cpc, found, overtaken, mixed, crossed>>

\* collectDeviceInfo: IMSI and number, if a card is in, then the ICCID.
\* 0: the query failed.  Nothing keeps two collections apart.
Ask(c, from, to, field) ==
    /\ cpc[c] = from /\ cpc' = [cpc EXCEPT ![c] = to]
    /\ \E v \in {0, card} :
         /\ found' = [found EXCEPT ![c][field] = v]
         /\ spoilt' = IF v = 0 THEN spoilt \cup {c} ELSE spoilt
    /\ UNCHANGED <<sms, ussd, status, card, info, overtaken, mixed, crossed>>

QueryIMSI(c) == Event /\ Ask(c, "idle", "number", "imsi")

QueryNumber(c) == Ask(c, "number", "iccid", "number") /\ UNCHANGED events

BugCommit(c, v) ==
    [imsi |-> IF found[c].imsi = 0 THEN info.imsi ELSE found[c].imsi,
     number |-> IF found[c].number = 0 THEN info.number ELSE found[c].number,
     iccid |-> IF v = 0 THEN info.iccid ELSE v]

\* What a query did not find keeps its old value, but for the number.
Commit(c, v) ==
    [imsi |-> IF found[c].imsi = 0 THEN info.imsi ELSE found[c].imsi,
     number |-> found[c].number,
     iccid |-> IF v = 0 THEN info.iccid ELSE v]

\* The ICCID, and what was found goes into the cache.
Collected(c) ==
    /\ cpc[c] = "iccid" /\ cpc' = [cpc EXCEPT ![c] = "idle"]
    /\ \E v \in {0, card} :
         /\ info' = Commit(c, v)
         /\ mixed' = (v = 0 \/ c \in spoilt)
    /\ found' = [found EXCEPT ![c] = [imsi |-> 0, number |-> 0]]
    /\ crossed' = (c \in overtaken)
    /\ overtaken' = {d \in Collector \ {c} : cpc[d] # "idle"}
    /\ spoilt' = (spoilt \ {c}) \cup overtaken'
    /\ UNCHANGED <<sms, ussd, status, card, events>>

\* The four share the command loop and nothing else.
SMSNext ==
    \/ \E m \in Message, s \in Storage : Arrive(m, s)
    \/ \E j \in Job : Query(j) \/ Select(j) \/ ReadMessage(j) \/ Erase(j) \/ Restore(j)
    \/ ListAll \/ EraseAll \/ Forget

USSDNext ==
    \/ \E u \in User : ExecuteUSSD(u) \/ SendUSSD(u) \/ ReceiveUSSD(u) \/ USSDTimesOut(u)
    \/ \E i \in pending : NetworkAnswers(i)

StatusNext == \E r \in BOOLEAN : RefreshStatus(r) \/ SubscribeRDY \/ DispatchRDY

IdentityNext ==
    CardChanges \/ \E c \in Collector : QueryIMSI(c) \/ QueryNumber(c) \/ Collected(c)

Next == SMSNext \/ USSDNext \/ StatusNext \/ IdentityNext

Spec == Init /\ [][Next]_vars

-----------------------------------------------------------------------------

\* "切换短信存储失败，跳过读取以避免误删其他存储短信": a job that reads one storage
\* erases nothing in the other.  But AT+CMGD means the storage that is selected
\* when it runs, whoever selected it.
\* (readAndProcessSMSFromStorage, switchSMSStorageForRead)
OtherStoragesSpared ==
    [][\A j \in Job : pc[j] = "erase" /\ pc'[j] # "erase" =>
          \A s \in Storage \ {want[j]} : slot'[s] = slot[s]]_vars

\* However many jobs, arrivals and erasers of everything run at once, there are
\* three ways to erase a message unread: the storage was switched between
\* somebody's reading and erasing, the index was filled anew between the two,
\* or CheckAllSMS did not find the PDU of a message it had listed.
\* (readAndProcessSMSFromStorage, switchSMSStorageForRead, CheckAllSMS)
UnreadErasedOnlyAstray == erased \subseteq read \cup astray \cup garbled

\* A USSD user is given the result of the user's own session, unless two ran
\* together; after one that was given up and could not be cancelled the
\* results may come one session late, never early.
\* (ExecuteUSSD, handleURC, CancelUSSD)
USSDAnswersInOrder ==
    \A r \in results :
        r[1] = r[2] \/ together \/ (r[2] < r[1] /\ \E i \in stray : i <= r[2])

\* "每次重新采集都覆盖缓存，避免换卡后继续展示上一张卡的号码": the number in the cache is
\* not of an earlier card than the IMSI.
\* (collectDeviceInfo)
NumberIsNotStale == info.number = 0 \/ info.number >= info.imsi

\* The cached identity is that of one card after a collection in which nothing
\* failed, the card stayed and no other collection ended; and whatever failed
\* or changed, the number belongs to no earlier card than the IMSI, unless
\* another collection ended during the last one.
\* (collectDeviceInfo, initModem, RefreshDeviceInfo)
IdentityIsOneCards ==
    /\ ~mixed => info.imsi = info.iccid /\ info.imsi = info.number
    /\ crossed \/ NumberIsNotStale
=============================================================================
