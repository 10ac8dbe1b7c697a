--------------------------- MODULE BackendServices ---------------------------
(***************************************************************************)
(* internal/backend: what a device offers over AT, QMI or MBIM, where the  *)
(* translation keeps state or loses it.  Three parts that share nothing:   *)
(* QMI USSD sessions (one at a time, under ussdMu; results, errors and     *)
(* releases come through three channels of one place); SMS storage behind  *)
(* one index, used as SMSProvider means it to be used: list, read, delete; *)
(* and the operator selection, whose MNC keeps two or three digits.        *)
(***************************************************************************)
EXTENDS Naturals, FiniteSets, Functions

CONSTANTS
    MaxSessions,  \* bound: USSD sessions
    Message, Client, None,
    Outgoing,     \* messages that are drafts, or were sent, and lie in a storage
    Index,        \* indexes of a storage
    MaxSets       \* bound: operator selections

VARIABLES
    n, phase,     \* the session that holds ussdMu: "none", "reset", "drained",
                  \* "originate", "wait"
    result, error, release, \* the channels: the session that filled them, or 0
    await,        \* ussdAwaitRelease
    net,          \* the sessions in the network
    results,      \* history: <<session, session whose result it was given>>
    hung,         \* history: sessions that returned, not by a time-out, before
                  \* the network released them
    domain,       \* the modem's service and voice domain preferences
    backend,      \* "at", "qmi", "mbim"
    store,        \* messages in the module, by storage and index
    job, at,      \* clients: control state, index
    todo, doomed, \* in DeleteAllSMS: storages to do, messages there at its start
    left,         \* history: those left behind when it reported success
    read, unread, \* history: messages read; those erased by index unread
    disturbed,    \* history: clients about to delete that read the SIM card's
                  \* message, or whose index has been filled anew
    astray,       \* history: messages those have erased
    stored,       \* the modem's operator selection
    shown,        \* what the last request was told
    sets

ussd == <<n, phase, result, error, release, await, net, results, hung, domain>>
sms == <<store, job, at, todo, doomed, left, read, unread, disturbed, astray>>
selection == <<stored, shown, sets>>
vars == <<ussd, backend, sms, selection>>

BackendAssumption == MaxSessions \in Nat /\ Outgoing \subseteq Message

Storage == {"NV", "SIM"}
Session == 1..MaxSessions
Automatic == [mode |-> "automatic"]

Init ==
    /\ n = 0 /\ phase = "none" /\ result = 0 /\ error = 0 /\ release = 0 /\ await = FALSE
    /\ net = [i \in Session |-> "none"] /\ results = {} /\ hung = {}
    /\ domain \in [service : {"psOnly", "csps"}, voice : {"psPreferred", "csPreferred"}]
    /\ backend \in {"at", "qmi", "mbim"}
    /\ store = [s \in Storage |-> [i \in Index |-> None]]
    /\ job = [c \in Client |-> "idle"] /\ at = [c \in Client |-> 0]
    /\ todo = [c \in Client |-> {}] /\ doomed = [c \in Client |-> {}] /\ left = {}
    /\ read = {} /\ unread = {} /\ disturbed = {} /\ astray = {}
    /\ stored = Automatic /\ shown = Automatic /\ sets = 0

-----------------------------------------------------------------------------
\* QMI USSD

\* resetUSSDChannelsLocked: results and errors first ...
Reset ==
    /\ phase = "none" /\ n < MaxSessions
    /\ phase' = "reset" /\ result' = 0 /\ error' = 0
    /\ UNCHANGED <<n, release, await, net, results, hung, domain, backend, sms, selection>>

\* ... then the releases; after one there may be results again.
DrainReleases ==
    /\ phase = "reset"
    /\ phase' = "drained"
    /\ release' = 0
    /\ await' = (await /\ release = 0)
    /\ IF release = 0 THEN UNCHANGED <<result, error>> ELSE result' = 0 /\ error' = 0
    /\ UNCHANGED <<n, net, results, hung, domain, backend, sms, selection>>

\* prepareQMIUSSDVoiceState: what keeps a modem from circuit switching is
\* changed, until its next power cycle, if it can be read and changed.
Prepared == [service |-> "csps", voice |-> "csPreferred"]

\* ExecuteUSSD goes on, or refuses.
Admit ==
    /\ phase = "drained"
    /\ IF await THEN phase' = "none" /\ UNCHANGED <<n, domain>>
       ELSE phase' = "originate" /\ n' = n + 1 /\ domain' \in {domain, Prepared}
    /\ UNCHANGED <<result, error, release, await, net, results, hung, backend, sms, selection>>

\* The session returns, otherwise than by a time-out.
Return(state) ==
    /\ phase' = "none"
    /\ hung' = IF state \in {"open", "answered"} THEN hung \cup {n} ELSE hung

BugTimedOut ==
    /\ phase' = "none"
    /\ UNCHANGED <<await, hung>>

\* The session's time is over: it cancels, and the next one must wait for
\* the release.
TimedOut ==
    /\ phase' = "none" /\ await' = TRUE
    /\ UNCHANGED hung

\* VOICEOriginateUSSDNoWait, or VOICEOriginateUSSD where that is unsupported:
\* accepted, timed out, answered at once, or another error.
Originate ==
    /\ phase = "originate"
    /\ \E s \in {"none", "open", "answered"} :
         /\ net' = [net EXCEPT ![n] = s]
         /\ \/ s = "open" /\ phase' = "wait" /\ UNCHANGED <<await, results, hung>>
            \/ s # "answered" /\ TimedOut /\ UNCHANGED results
            \/ s = "answered" /\ Return(s) /\ results' = results \cup {<<n, n>>} /\ UNCHANGED await
            \/ s # "answered" /\ Return(s) /\ UNCHANGED <<await, results>>
    /\ UNCHANGED <<n, result, error, release, domain, backend, sms, selection>>

\* waitQMIUSSDResult: any of the channels that has something, or the end of
\* the context.
Wait ==
    /\ phase = "wait"
    /\ \/ /\ result # 0
          /\ results' = results \cup {<<n, result>>} /\ result' = 0
          /\ Return(net[n])
          /\ UNCHANGED <<error, release, await>>
       \/ /\ error # 0
          /\ error' = 0 /\ Return(net[n])
          /\ UNCHANGED <<result, release, await, results>>
       \/ /\ release # 0
          /\ release' = 0 /\ await' = FALSE /\ Return(net[n])
          /\ UNCHANGED <<result, error, results>>
       \/ /\ TimedOut
          /\ UNCHANGED <<result, error, release, results>>
    /\ UNCHANGED <<n, net, domain, backend, sms, selection>>

\* The callbacks fill a channel that is empty and drop the rest.
Fill(channel, i) == IF channel = 0 THEN i ELSE channel

\* The network answers a session at most once and then, or before, releases
\* it.
Answers(i) ==
    /\ net[i] = "open"
    /\ net' = [net EXCEPT ![i] = "answered"]
    /\ \/ result' = Fill(result, i) /\ UNCHANGED error
       \/ error' = Fill(error, i) /\ UNCHANGED result
    /\ UNCHANGED <<n, phase, release, await, results, hung, domain, backend, sms, selection>>

Releases(i) ==
    /\ net[i] \in {"open", "answered"}
    /\ net' = [net EXCEPT ![i] = "over"]
    /\ release' = Fill(release, i)
    /\ UNCHANGED <<n, phase, result, error, await, results, hung, domain, backend, sms, selection>>

USSDNext ==
    \/ Reset \/ DrainReleases \/ Admit \/ Originate \/ Wait
    \/ \E i \in Session : Answers(i) \/ Releases(i)

-----------------------------------------------------------------------------
\* SMS

Held(s) == Range(store[s]) \ {None}

\* The storage the indexes of ListSMS and DeleteSMS are of.  Over AT, and
\* MBIM, there is one, here "NV".
Arrive(m, s, i) ==
    /\ store[s][i] = None /\ (backend = "qmi" \/ s = "NV")
    /\ m \notin read \cup unread \cup left \cup UNION Range(doomed)
    /\ \A t \in Storage : m \notin Held(t)
    /\ store' = [store EXCEPT ![s][i] = m]
    /\ disturbed' = disturbed \cup {c \in Client : s = "NV" /\ job[c] = "delete" /\ at[c] = i}
    /\ UNCHANGED <<job, at, todo, doomed, left, read, unread, astray, ussd, backend, selection>>

\* ListSMS: over AT the messages are numbered from 0, whatever their index.
ListSMS(c, i) ==
    /\ job[c] = "idle"
    /\ IF backend = "at" THEN i < Cardinality(Held("NV")) ELSE store["NV"][i] # None
    /\ job' = [job EXCEPT ![c] = "read"] /\ at' = [at EXCEPT ![c] = i]
    /\ UNCHANGED <<store, todo, doomed, left, read, unread, disturbed, astray>>
    /\ UNCHANGED <<ussd, backend, selection>>

Done(c) ==
    /\ job' = [job EXCEPT ![c] = "idle"]
    /\ at' = [at EXCEPT ![c] = 0]
    /\ disturbed' = disturbed \ {c}

\* ReadSMS: over QMI the SIM card's, if the module's cannot be read.
ReadSMS(c) ==
    /\ job[c] = "read"
    /\ \/ \E s \in IF backend = "qmi" THEN Storage ELSE {"NV"} :
            /\ store[s][at[c]] # None
            /\ read' = read \cup {store[s][at[c]]}
            /\ disturbed' = IF s = "SIM" THEN disturbed \cup {c} ELSE disturbed
            /\ job' = [job EXCEPT ![c] = "delete"]
            /\ UNCHANGED at
       \/ Done(c) /\ UNCHANGED read
    /\ UNCHANGED <<store, todo, doomed, left, unread, astray, ussd, backend, selection>>

BugDeleteFrom == {"SIM"}

\* WMSDeleteMessage of the module's storage, AT+CMGD, SMS_DELETE.
DeleteFrom == {"NV"}

DeleteSMS(c) ==
    /\ job[c] = "delete"
    /\ \/ \E s \in DeleteFrom :
            LET m == {store[s][at[c]]} \ {None} IN
            /\ store' = [store EXCEPT ![s][at[c]] = None]
            /\ unread' = unread \cup (m \ read)
            /\ astray' = IF c \in disturbed THEN astray \cup m ELSE astray
       \/ UNCHANGED <<store, unread, astray>>
    /\ Done(c)
    /\ UNCHANGED <<todo, doomed, left, read, ussd, backend, selection>>

\* DeleteAllSMS: both storages over QMI; a failure in one does not keep it
\* from the other, and is reported.
DeleteAllSMS(c) ==
    /\ job[c] = "idle"
    /\ job' = [job EXCEPT ![c] = "sweep"]
    /\ todo' = [todo EXCEPT ![c] = IF backend = "qmi" THEN Storage ELSE {"NV"}]
    /\ doomed' = [doomed EXCEPT ![c] = Held("NV") \cup Held("SIM")]
    /\ UNCHANGED <<store, at, left, read, unread, disturbed, astray, ussd, backend, selection>>

\* What is erased: over QMI the messages received, read and unread ones by
\* two commands, here one step; all of them otherwise.
Swept(s) == IF backend = "qmi" THEN Held(s) \ Outgoing ELSE Held(s)

\* After a failure, of some of it, there is no success to report, whatever
\* the rest does.
DeleteAllOf(c, s) ==
    /\ s \in todo[c] /\ (s = "SIM" \/ "SIM" \notin todo[c])
    /\ todo' = [todo EXCEPT ![c] = @ \ {s}]
    /\ job' = [job EXCEPT ![c] = IF todo'[c] = {} THEN "idle" ELSE @]
    /\ \E gone \in SUBSET Swept(s), ok \in BOOLEAN :
         /\ ok => gone = Swept(s)
         /\ store' = [store EXCEPT ![s] =
                        [i \in Index |-> IF @[i] \in gone THEN None ELSE @[i]]]
         /\ left' = IF ok /\ todo'[c] = {}
                    THEN left \cup (doomed[c] \cap UNION {Range(store'[t]) : t \in Storage})
                    ELSE left
         /\ doomed' = [doomed EXCEPT ![c] = IF ok /\ todo'[c] # {} THEN @ ELSE {}]
    /\ UNCHANGED <<at, read, unread, disturbed, astray, ussd, backend, selection>>

SMSNext ==
    \/ \E m \in Message, s \in Storage, i \in Index : Arrive(m, s, i)
    \/ \E c \in Client : (\E i \in Index : ListSMS(c, i)) \/ ReadSMS(c) \/ DeleteSMS(c)
    \/ \E c \in Client : DeleteAllSMS(c) \/ \E s \in Storage : DeleteAllOf(c, s)

-----------------------------------------------------------------------------
\* Operator selection, one request at a time.  A PLMN is its MNC, of two or
\* three digits; pcs is the request's includes_pcs_digit, rat its access
\* technology, "any" for none.

PLMN == {[len |-> l, mnc |-> v] : l \in {2, 3}, v \in {4, 40}} \cup {[len |-> 3, mnc |-> 400]}
RAT == {"gsm", "lte"}

\* NormalizeManualOperatorSelection: what a request is told.
Normalized(p, pcs, rat) ==
    [mode |-> "manual", mnc |-> p.mnc, len |-> p.len, rat |-> rat,
     three |-> IF pcs = "unset" THEN p.len = 3 ELSE pcs = "yes"]

BugKept(p, pcs, rat) ==
    [mode |-> "manual", mnc |-> p.mnc, three |-> pcs = "yes" \/ p.mnc >= 100, rat |-> rat]

\* The modem's selection: AT and MBIM pass the digits on, QMI a number and
\* whether it has three digits; AT and QMI pass the access technology on.
Kept(p, pcs, rat) ==
    [mode |-> "manual", mnc |-> p.mnc,
     three |-> IF backend = "qmi" THEN Normalized(p, pcs, rat).three ELSE p.len = 3,
     rat |-> IF backend = "mbim" THEN "any" ELSE rat]

\* GetOperatorSelection reads an access technology over AT alone: the
\* module's answer has the one selected, else the one in use, or none, which
\* the code takes for GSM.
ReadBack(s) ==
    IF backend # "at" THEN {"any"} ELSE {"gsm"} \cup IF s.rat = "any" THEN RAT ELSE {s.rat}

Told(s) ==
    IF s = Automatic THEN {Automatic}
    ELSE LET three == s.three \/ s.mnc >= 100 IN
         {[mode |-> "manual", mnc |-> s.mnc, len |-> IF three THEN 3 ELSE 2, three |-> three,
           rat |-> r] : r \in ReadBack(s)}

\* SetOperatorSelection.  Over QMI a change to automatic is two requests, and
\* the first alone changes the preference; QMI and MBIM report the request,
\* AT, and QMI after a change to automatic, what they then find.
Found == Told(stored') \cup {None}
Report(p, pcs, rat) == IF backend = "at" THEN Found ELSE {Normalized(p, pcs, rat)}

SetManual(p, pcs, rat) ==
    /\ sets < MaxSets /\ sets' = sets + 1
    /\ \/ /\ stored' = Kept(p, pcs, rat)
          /\ shown' \in Report(p, pcs, rat)
       \/ UNCHANGED stored /\ shown' = None
    /\ UNCHANGED <<ussd, backend, sms>>

SetAutomatic ==
    /\ sets < MaxSets /\ sets' = sets + 1
    /\ \/ stored' = Automatic /\ shown' \in IF backend = "qmi" THEN Found ELSE {Automatic}
       \/ UNCHANGED stored /\ shown' = None
    /\ UNCHANGED <<ussd, backend, sms>>

SelectionNext ==
    \/ SetAutomatic
    \/ \E p \in PLMN, pcs \in {"unset", "yes", "no"}, rat \in RAT \cup {"any"} :
         SetManual(p, pcs, rat)

Next == USSDNext \/ SMSNext \/ SelectionNext

Spec == Init /\ [][Next]_vars

-----------------------------------------------------------------------------

\* A USSD session is given its own result.  Not once a session has returned
\* before the network released it, otherwise than by a time-out: its release
\* or its result then ends a later one (see the README).
\* (resetUSSDChannelsLocked, ExecuteUSSD, waitQMIUSSDResult)
USSDResultIsOwn ==
    \A r \in results : r[1] = r[2] \/ \E i \in hung : i <= r[2]

\* USSD is refused only while the network has not released the session that
\* timed out: a release is never lost.
\* (ussdAwaitRelease, initUSSDCallbacks, drainUSSDReleasesLocked)
RefusalHasReason ==
    await => net[n] # "over" \/ release # 0

\* Whatever order results, errors and releases come in, with time-outs and
\* cancellations between them: a session is given its own result, and none is
\* refused because of a release that has come.
\* (ExecuteUSSD, ContinueUSSD, CancelUSSD, initUSSDCallbacks)
USSDSessionsSound == USSDResultIsOwn /\ RefusalHasReason

\* However many clients list, read and delete by index and erase everything at
\* once, a message is erased by its index unread in two ways only: ReadSMS fell
\* over to the SIM card, whose message DeleteSMS does not erase; or the index
\* was filled anew between the two.  Over AT the message need not be the one
\* that was listed (see the README).  And when DeleteAllSMS reports success,
\* all that was there at its start is gone, but over QMI for outgoing messages.
\* (ListSMS, ReadSMS, DeleteSMS, DeleteAllSMS)
ErasedBackendSMSWasRead ==
    /\ unread \subseteq astray
    /\ left \subseteq IF backend = "qmi" THEN Outgoing ELSE {}

\* "DeleteAllSMS 删除所有短信 ... 遍历所有 tag": when it reports success, none of the
\* messages there at its start are left.
\* (DeleteAllSMS)
AllMeansAll == left = {}

\* The digits are those of a number and a length.
SamePLMN == shown.mnc = stored.mnc /\ shown.three = (stored.three \/ stored.mnc >= 100)

\* What a request was told, without an error, is what the device has, with
\* all the digits of the MNC, unless the request contradicts itself with an
\* includes_pcs_digit that is not the length of its PLMN; and the access
\* technology it was told is the one the device was given, but over MBIM, and
\* over AT where none was given or the module names none.
\* (NormalizePLMNSelection, SetOperatorSelection, GetOperatorSelection,
\* parseCOPSSelection)
SelectionAsReported ==
    shown # None =>
        IF Automatic \in {shown, stored} THEN shown = stored
        ELSE /\ SamePLMN \/ shown.three # (shown.len = 3)
             /\ \/ shown.rat = stored.rat \/ backend = "mbim"
                \/ backend = "at" /\ (stored.rat = "any" \/ shown.rat = "gsm")

\* The access technology a request is told, if any, is one the device was
\* given: "sel.RAT != OperatorRATGSM" fails the test of a selection over MBIM.
\* (MBIMBackend.SetOperatorSelection)
RATWasAsked ==
    backend = "mbim" /\ shown \notin {None, Automatic} /\ stored # Automatic =>
        shown.rat \in {"any", stored.rat}
=============================================================================
