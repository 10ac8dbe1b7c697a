---------------------------- MODULE EsimManager ----------------------------
(***************************************************************************)
(* The eSIM manager, internal/esim/manager.go: the write lock opMu and the *)
(* channel opDone that announces its release, the cached overview with its *)
(* generation, the singleflight that shares a load, the background reload, *)
(* and the operations that write the card.                                 *)
(*                                                                         *)
(* The card's content is a version: a change of the card adds one, and a   *)
(* cached overview is the version it shows.  Exchanging the card changes   *)
(* `chip`, the hardware the chip information describes.  A scan may miss   *)
(* something and succeed; `lacks` is what the cached overview leaves out.  *)
(* What the card or the SM-DP+ server decides is a nondeterministic        *)
(* outcome.  The notifications are in EsimNotifications.                   *)
(***************************************************************************)
EXTENDS Integers, Sequences

CONSTANTS
    Proc,      \* concurrent callers (HTTP handlers)
    Reload,    \* the goroutine of triggerOverviewReload
    Nobody,    \* no owner, nothing cached
    MaxCalls,  \* bound: calls begun
    MaxEvents  \* bound: card exchanges and UIM indications

VARIABLES
    card, chip,   \* version of the profiles on the card, identity of the card
    barrier,      \* holder of the arbiter's switch barrier
    token,        \* outcome of each switch token handed out by onBeforeSwitch
    opMu,         \* holder of opMu
    opDone, made, closed, \* announcement channels: current, last made, closed
    cache,        \* overviewCache: the version it shows, or Nobody
    lacks,        \* what the scan missed that the cached overview came from
    chipCache,    \* chipInfoCache: the card it describes, or Nobody
    gen,          \* overviewGeneration
    reloading,    \* overviewReloading
    suppress,     \* now < suppressOverviewReloadUntil
    flight,       \* generations whose load is in flight
    pc, op,       \* control state and operation of each process
    loc,          \* locals of each process
    panicked,     \* callers whose close(opDone) panicked
    calls, events, \* calls begun and events so far
    suspect       \* history: why a cached value may be out of date

world == <<card, chip, barrier, token>>
locks == <<opDone, made, closed>>
stash == <<cache, lacks, chipCache, gen, suppress>>
loads == <<reloading, flight>>
hist  == <<panicked, calls, events, suspect>>
vars  == <<world, opMu, locks, stash, loads, pc, op, loc, hist>>

Process == Proc \cup {Reload}

ASSUME ManagerAssumption == Nobody \notin Process /\ Reload \notin Proc

Loads   == {"get", "refresh"}
Writes  == {"switch", "disable", "download", "delete", "rename", "retry"}
Ops     == Loads \cup Writes \cup {"list", "chipinfo", "profiles"}

\* What a scan that succeeds may have missed: the profiles of an eUICC that
\* gave an error to their listing (shown empty) or at once (not shown); or a
\* whole eUICC it has found, when the callback panics.
Missing == {"nothing", "profiles", "found"}

\* An overview patched for a switch that did not happen shows no version.
Imagined == -1

Fresh == [ch |-> 0, gen |-> 0, seen |-> 0, chip |-> 0, tok |-> 0, miss |-> "nothing"]

Init ==
    /\ card = 0 /\ chip = 0 /\ barrier = Nobody /\ token = <<>>
    /\ opMu = Nobody /\ opDone = 0 /\ made = 0 /\ closed = {}
    /\ cache \in {Nobody, 0} /\ chipCache = cache /\ lacks = "nothing"
    /\ gen = 0 /\ suppress = FALSE
    /\ reloading = FALSE /\ flight = {}
    /\ pc = [p \in Process |-> "idle"]
    /\ op = [p \in Process |-> "get"]
    /\ loc = [p \in Process |-> Fresh]
    /\ panicked = {} /\ calls = 0 /\ events = 0 /\ suspect = {}

-----------------------------------------------------------------------------
\* Helpers

Goto(p, l) == pc' = [pc EXCEPT ![p] = l]

\* A call returns; the goroutine that ends clears overviewReloading, and a
\* flight ends with the process that leads it.
Return(p) ==
    /\ Goto(p, "idle")
    /\ op' = [op EXCEPT ![p] = "get"]
    /\ loc' = [loc EXCEPT ![p] = Fresh]

Leave(p) ==
    /\ Return(p)
    /\ reloading' = (reloading /\ p # Reload)

Land(p) == flight' = IF op[p] \in Loads THEN flight \ {loc[p].gen} ELSE flight

\* Processes that have read the card or the cached product information and
\* have not stored what they read.
Holding(ops) == {p \in Process : op[p] \in ops /\ pc[p] = "store"}

\* The two stores without a generation outlive an invalidation.
Unguarded == {o \in {"profiles", "chipinfo"} : Holding({o}) # {}}

\* A change of the card's profiles.
Changed(why) ==
    /\ card' = card + 1
    /\ suspect' = suspect \cup why \cup Unguarded

\* setOverviewCache(nil, err, generation)
NoOverview(p) ==
    /\ cache' = IF op[p] \in Loads /\ loc[p].gen = gen THEN Nobody ELSE cache
    /\ lacks' = IF cache' = Nobody THEN "nothing" ELSE lacks

\* invalidateOverviewCache
Invalidate ==
    /\ gen' = gen + 1
    /\ cache' = Nobody
    /\ chipCache' = Nobody
    /\ lacks' = "nothing"
    /\ suspect' = Unguarded

\* triggerOverviewReload: a request while a reload runs is dropped.
TriggerAndGoto(p, l) ==
    /\ pc' = [pc EXCEPT ![p] = l, ![Reload] = IF reloading THEN @ ELSE "load"]
    /\ reloading' = TRUE

\* patchCachedActiveProfile: an up to date overview shows the target active;
\* one that leaves something out may not know the target.
Patch(before, after) ==
    cache' \in IF cache # before THEN {cache}
               ELSE {after} \cup {c \in {cache} : lacks # "nothing"}

-----------------------------------------------------------------------------
\* The write lock and its announcement

Begin(p, o) ==
    /\ pc[p] = "idle" /\ p # Reload /\ calls < MaxCalls
    /\ calls' = calls + 1
    /\ op' = [op EXCEPT ![p] = o]
    /\ loc' = [loc EXCEPT ![p].tok = 0]
    /\ \/ o \in Writes /\ Goto(p, "lock")
       \/ o = "list" /\ Goto(p, "try")
       \/ o = "get" /\ Goto(p, "load")
       \/ o = "refresh" /\ Goto(p, "refresh")
       \/ o \in {"profiles", "chipinfo"} /\ Goto(p, "try")
    /\ UNCHANGED <<world, opMu, locks, stash, loads, panicked, events, suspect>>

\* opMu.Lock() of the operations that wait for the lock without limit.
Lock(p) ==
    /\ pc[p] = "lock" /\ opMu = Nobody
    /\ opMu' = p
    /\ Goto(p, "body")
    /\ UNCHANGED <<world, locks, stash, loads, op, loc, hist>>

\* TryLock of acquireOperationLock ("list") and of waitForNoWriteOperation,
\* at first and after an announcement.
Try(p) ==
    /\ \/ pc[p] = "try"
       \/ pc[p] = "wait" /\ loc[p].ch \in closed
    /\ \/ /\ opMu = Nobody
          /\ opMu' = p
          /\ Goto(p, IF op[p] = "list" THEN "body" ELSE "probe")
       \/ /\ opMu # Nobody
          /\ opMu' = opMu
          /\ Goto(p, "listen")
    /\ UNCHANGED <<world, locks, stash, loads, op, loc, hist>>

\* waitForNoWriteOperation gives the lock back at once, unannounced.
ProbeEnds(p) ==
    /\ pc[p] = "probe"
    /\ opMu' = Nobody
    /\ Goto(p, "scan")
    /\ UNCHANGED <<world, locks, stash, loads, op, loc, hist>>

\* Each round of a waiter reads m.opDone, without a lock.
Listen(p) ==
    /\ pc[p] = "listen"
    /\ loc' = [loc EXCEPT ![p].ch = opDone]
    /\ Goto(p, "wait")
    /\ UNCHANGED <<world, opMu, locks, stash, loads, op, hist>>

\* The timer of a waiter: ErrOperationInProgress.
WaitTimesOut(p) ==
    /\ pc[p] = "wait"
    /\ Leave(p) /\ Land(p) /\ NoOverview(p)
    /\ UNCHANGED <<world, opMu, locks, chipCache, gen, suppress, hist>>

\* Unlock, then notifyWriteDone: read the channel; replace and close it.
Unlock(p) ==
    /\ pc[p] = "unlock"
    /\ opMu' = Nobody
    /\ Goto(p, "announce")
    /\ UNCHANGED <<world, locks, stash, loads, op, loc, hist>>

ReadOld(p) ==
    /\ pc[p] = "announce"
    /\ loc' = [loc EXCEPT ![p].ch = opDone]
    /\ Goto(p, "replace")
    /\ UNCHANGED <<world, opMu, locks, stash, loads, op, hist>>

\* A second close panics and cuts the deferred function short: then
\* onSwitchFailed is not called.
ReplaceAndClose(p) ==
    /\ pc[p] = "replace"
    /\ made' = made + 1
    /\ opDone' = made'
    /\ LET twice == loc[p].ch \in closed
           t == loc[p].tok IN
       /\ closed' = closed \cup {loc[p].ch}
       /\ panicked' = IF twice THEN panicked \cup {p} ELSE panicked
       /\ token' = IF ~twice /\ t # 0 /\ token[t] = "begun"
                   THEN [token EXCEPT ![t] = "failed"] ELSE token
    /\ Return(p)
    /\ UNCHANGED <<card, chip, barrier, opMu, stash, loads, calls, events, suspect>>

-----------------------------------------------------------------------------
\* Reading the card

\* RefreshOverview: while a reload runs it only loads; otherwise it drops
\* the cache first, keeping reusable product information.
Refresh(p) ==
    /\ pc[p] = "refresh"
    /\ \/ /\ reloading
          /\ UNCHANGED <<cache, lacks, gen, suspect>>
       \/ /\ ~reloading
          /\ gen' = gen + 1
          /\ cache' = Nobody /\ lacks' = "nothing"
          /\ suspect' = Unguarded \cup (suspect \cap {"chipinfo"})
    /\ Goto(p, "load")
    /\ UNCHANGED <<world, opMu, locks, chipCache, suppress, loads, op, loc, panicked, calls, events>>

\* loadOverview: answer from the cache; or capture the generation, which is
\* the key of singleflight.Do, and join the flight with this key or lead it.
LoadOverview(p) ==
    /\ pc[p] = "load"
    /\ \/ /\ cache # Nobody
          /\ Leave(p)
          /\ UNCHANGED flight
       \/ /\ cache = Nobody
          /\ Goto(p, IF gen \in flight THEN "follow" ELSE "try")
          /\ flight' = flight \cup {gen}
          /\ loc' = [loc EXCEPT ![p].gen = gen]
          /\ UNCHANGED <<reloading, op>>
    /\ UNCHANGED <<world, opMu, locks, stash, hist>>

Follow(p) ==
    /\ pc[p] = "follow" /\ loc[p].gen \notin flight
    /\ Leave(p)
    /\ UNCHANGED <<world, opMu, locks, stash, flight, hist>>

\* forEachEUICC once no write runs: wait until the arbiter is idle, then
\* scan the AIDs and read the profiles.  It succeeds once one eUICC has
\* answered: errors and panics of the callback, and AIDs that fail, are
\* logged.
Scan(p) ==
    /\ pc[p] = "scan" /\ barrier = Nobody
    /\ \E miss \in (IF op[p] = "chipinfo" THEN {"nothing"} ELSE Missing) :
         loc' = [loc EXCEPT ![p].seen = card, ![p].chip = chip, ![p].miss = miss]
    /\ Goto(p, "store")
    /\ UNCHANGED <<world, opMu, locks, stash, loads, op, hist>>

\* No eUICC answers, or the arbiter stays busy.
ScanFails(p) ==
    /\ pc[p] = "scan"
    /\ Leave(p) /\ Land(p) /\ NoOverview(p)
    /\ UNCHANGED <<world, opMu, locks, chipCache, gen, suppress, hist>>

\* Product information found in the cache is reused, not read again.
ProductOf(p) == IF chipCache = Nobody THEN loc[p].chip ELSE chipCache

BugStoreIgnoresGeneration(p) ==
    /\ pc[p] = "store" /\ op[p] \in Loads
    /\ cache' = loc[p].seen /\ lacks' = loc[p].miss /\ chipCache' = ProductOf(p)
    /\ Leave(p) /\ Land(p)
    /\ UNCHANGED <<world, opMu, locks, gen, suppress, hist>>

\* setOverviewCache compares the generation.
StoreOverview(p) ==
    /\ pc[p] = "store" /\ op[p] \in Loads
    /\ \/ /\ loc[p].gen = gen
          /\ cache' = loc[p].seen /\ lacks' = loc[p].miss
          /\ chipCache' = ProductOf(p)
       \/ /\ loc[p].gen # gen
          /\ UNCHANGED <<cache, lacks, chipCache>>
    /\ Leave(p) /\ Land(p)
    /\ UNCHANGED <<world, opMu, locks, gen, suppress, hist>>

\* RefreshProfiles and GetEUICCChipInfo store what they found; the first
\* leaves the list of eUICCs of a cached overview as it is.
StoreProfiles(p) ==
    /\ pc[p] = "store" /\ op[p] = "profiles"
    /\ cache' = loc[p].seen
    /\ lacks' = IF lacks = "found" THEN lacks ELSE loc[p].miss
    /\ Leave(p)
    /\ UNCHANGED <<world, opMu, locks, chipCache, gen, suppress, flight, hist>>

StoreChipInfo(p) ==
    /\ pc[p] = "store" /\ op[p] = "chipinfo"
    /\ chipCache' = ProductOf(p)
    /\ Leave(p)
    /\ UNCHANGED <<world, opMu, locks, cache, lacks, gen, suppress, flight, hist>>

-----------------------------------------------------------------------------
\* Writing the card: every body runs with opMu held and ends at "unlock".

\* Everything that returns before the card is written, and the bodies of
\* ListNotifications and RetryNotification, which write no profile.
ReturnEarly(p) ==
    /\ pc[p] = "body"
    /\ Goto(p, "unlock")
    /\ UNCHANGED <<world, opMu, locks, stash, loads, op, loc, hist>>

\* RenameProfile, DeleteProfile and DownloadProfile succeed on the card.
WriteCard(p) ==
    /\ pc[p] = "body" /\ op[p] \in {"rename", "delete", "download"}
    /\ Changed({})
    /\ Goto(p, "finish")
    /\ UNCHANGED <<chip, barrier, token, opMu, locks, stash, loads, op, loc, panicked, calls, events>>

\* RenameProfile and DeleteProfile return the error of an APDU whose answer
\* was lost after the card had done its work, and keep the cache.
WriteUnanswered(p) ==
    /\ pc[p] = "body" /\ op[p] \in {"rename", "delete"}
    /\ Changed({"unanswered"})
    /\ Goto(p, "unlock")
    /\ UNCHANGED <<chip, barrier, token, opMu, locks, stash, loads, op, loc, panicked, calls, events>>

\* A failed download invalidates whether or not the profile got there.
DownloadFails(p) ==
    /\ pc[p] = "body" /\ op[p] = "download"
    /\ card' \in {card, card + 1}
    /\ Invalidate
    /\ Goto(p, "unlock")
    /\ UNCHANGED <<chip, barrier, token, opMu, locks, suppress, loads, op, loc, panicked, calls, events>>

\* The common end of a successful write.
Finish(p) ==
    /\ pc[p] = "finish"
    /\ Invalidate
    /\ suppress' = (suppress \/ op[p] = "download")
    /\ TriggerAndGoto(p, "unlock")
    /\ UNCHANGED <<world, opMu, locks, flight, op, loc, panicked, calls, events>>

\* SwitchProfileWithResult and DisableProfile: a token is handed out, the
\* barrier is waited for, the APDU is sent, the barrier is released.
SwitchBegins(p) ==
    /\ pc[p] = "body" /\ op[p] \in {"switch", "disable"}
    /\ token' = Append(token, "begun")
    /\ loc' = [loc EXCEPT ![p].tok = Len(token')]
    /\ Goto(p, "barrier")
    /\ UNCHANGED <<card, chip, barrier, opMu, locks, stash, loads, op, hist>>

BarrierGranted(p) ==
    /\ pc[p] = "barrier" /\ barrier = Nobody
    /\ barrier' = p
    /\ suppress' = (suppress \/ op[p] = "switch")
    /\ Goto(p, "enable")
    /\ UNCHANGED <<card, chip, token, opMu, locks, cache, lacks, chipCache, gen, loads, op, loc, hist>>

BarrierRefused(p) ==
    /\ pc[p] = "barrier"
    /\ Goto(p, "unlock")
    /\ UNCHANGED <<world, opMu, locks, stash, loads, op, loc, hist>>

\* EnableProfile with its CatBusy retries, or DisableProfile: accepted, or
\* an error with or without effect.  A card reset signal is taken for
\* acceptance, though the card may have reset itself before the command got
\* through.  The switch patches the cache instead of outdating the loads in
\* flight.
Enable(p) ==
    /\ pc[p] = "enable"
    /\ \/ /\ Changed(IF op[p] = "switch" /\ Holding(Loads) # {} THEN {"patched"} ELSE {})
          /\ Goto(p, "accepted")
       \/ UNCHANGED <<card, suspect>> /\ Goto(p, "presumed")
       \/ Changed({"unanswered"}) /\ Goto(p, "refused")
       \/ UNCHANGED <<card, suspect>> /\ Goto(p, "refused")
    /\ UNCHANGED <<chip, barrier, token, opMu, locks, stash, loads, op, loc, panicked, calls, events>>

BugRefusedKeepsBarrier(p) ==
    /\ pc[p] = "refused"
    /\ Goto(p, "unlock")
    /\ UNCHANGED <<world, opMu, locks, stash, loads, op, loc, hist>>

EnableRefused(p) ==
    /\ pc[p] = "refused"
    /\ barrier' = Nobody
    /\ Goto(p, "unlock")
    /\ UNCHANGED <<card, chip, token, opMu, locks, stash, loads, op, loc, hist>>

SwitchAccepted(p) ==
    /\ pc[p] \in {"accepted", "presumed"} /\ op[p] = "switch"
    /\ barrier' = Nobody
    /\ \/ pc[p] = "accepted" /\ Patch(card - 1, card) /\ suspect' = suspect
       \/ /\ pc[p] = "presumed"
          /\ cache' \in IF cache = Nobody THEN {Nobody}
                        ELSE {Imagined} \cup {c \in {cache} : lacks # "nothing"}
          /\ suspect' = suspect \cup {"presumed"}
    /\ token' = [token EXCEPT ![loc[p].tok] = "accepted"]
    /\ Goto(p, "unlock")
    /\ UNCHANGED <<card, chip, opMu, locks, lacks, chipCache, gen, suppress, loads, op, loc>>
    /\ UNCHANGED <<panicked, calls, events>>

DisableAccepted(p) ==
    /\ pc[p] \in {"accepted", "presumed"} /\ op[p] = "disable"
    /\ barrier' = Nobody
    /\ suppress' = TRUE
    /\ Invalidate
    /\ token' = [token EXCEPT ![loc[p].tok] = "accepted"]
    /\ TriggerAndGoto(p, "unlock")
    /\ UNCHANGED <<card, chip, opMu, locks, flight, op, loc, panicked, calls, events>>

\* runPostSwitchRecovery and runPostSwitchHook: onAfterSwitch, later.
AfterSwitch(t) ==
    /\ t \in DOMAIN token /\ token[t] = "accepted"
    /\ token' = [token EXCEPT ![t] = "after"]
    /\ UNCHANGED <<card, chip, barrier, opMu, locks, stash, loads, pc, op, loc, hist>>

-----------------------------------------------------------------------------
\* Events from outside

\* NotifyModemReset after an exchange of the card.
CardExchanged ==
    /\ events < MaxEvents /\ barrier = Nobody
    /\ events' = events + 1
    /\ card' = card + 1 /\ chip' = 1 - chip
    /\ Invalidate
    /\ \/ suppress /\ UNCHANGED <<pc, reloading>>
       \/ ~suppress /\ TriggerAndGoto(Reload, IF reloading THEN pc[Reload] ELSE "load")
    /\ UNCHANGED <<barrier, token, opMu, locks, suppress, flight, op, loc, panicked, calls>>

\* NotifyUIMIndication outside a switch; inside the window it is ignored.
UIMIndication ==
    /\ events < MaxEvents /\ ~suppress
    /\ events' = events + 1
    /\ Invalidate
    /\ TriggerAndGoto(Reload, IF reloading THEN pc[Reload] ELSE "load")
    /\ UNCHANGED <<world, opMu, locks, suppress, flight, op, loc, panicked, calls>>

SuppressionEnds ==
    /\ suppress
    /\ suppress' = FALSE
    /\ UNCHANGED <<world, opMu, locks, cache, lacks, chipCache, gen, loads, pc, op, loc, hist>>

-----------------------------------------------------------------------------

Step(p) ==
    \/ Lock(p) \/ Try(p) \/ ProbeEnds(p) \/ Listen(p) \/ WaitTimesOut(p)
    \/ Unlock(p) \/ ReadOld(p) \/ ReplaceAndClose(p)
    \/ Refresh(p) \/ LoadOverview(p) \/ Follow(p)
    \/ Scan(p) \/ ScanFails(p)
    \/ StoreOverview(p) \/ StoreProfiles(p) \/ StoreChipInfo(p)
    \/ ReturnEarly(p) \/ WriteCard(p) \/ WriteUnanswered(p) \/ DownloadFails(p) \/ Finish(p)
    \/ SwitchBegins(p) \/ BarrierGranted(p) \/ BarrierRefused(p) \/ Enable(p)
    \/ EnableRefused(p) \/ SwitchAccepted(p) \/ DisableAccepted(p)

Next ==
    \/ \E p \in Process : Step(p)
    \/ \E p \in Proc, o \in Ops : Begin(p, o)
    \/ \E t \in DOMAIN token : AfterSwitch(t)
    \/ CardExchanged \/ UIMIndication \/ SuppressionEnds

Spec == Init /\ [][Next]_vars

-----------------------------------------------------------------------------

\* Once no write is under way, a cached overview that leaves nothing out
\* shows the card and cached chip information the card that is in - unless
\* the cause is one of: an answer lost after the card had done its work; a
\* reset of the card taken for a switch that did not happen; a load in
\* flight when a switch patched the cache instead of moving the generation;
\* a store of RefreshProfiles or GetEUICCChipInfo, which check no generation.
\* (setOverviewCache, invalidateOverviewCache, patchCachedActiveProfile)
CacheIsCurrent ==
    opMu = Nobody /\ suspect = {} =>
        /\ cache \in {Nobody, card} \/ lacks # "nothing"
        /\ chipCache \in {Nobody, chip}

\* An eUICC that a scan has found is in the overview it ends up in, also
\* when the callback for it panics - so the test of runEUICCCallback.  It is
\* not: loadOverviewFresh adds the eUICC only after its profiles are listed.
FoundIsShown == lacks # "found"

\* A switch or disable whose token was handed out reports one outcome:
\* onSwitchFailed by the time the call has returned, or onAfterSwitch; and
\* the barrier it raised is down before it gives the lock back.  Only a
\* panic in notifyWriteDone swallows the report.
SwitchReported ==
    /\ \A t \in DOMAIN token : token[t] = "begun" =>
         panicked # {} \/ \E p \in Proc : pc[p] # "idle" /\ loc[p].tok = t
    /\ barrier # Nobody =>
         opMu = barrier /\ token[loc[barrier].tok] = "begun" /\ pc[barrier] # "unlock"

\* notifyWriteDone wakes all who wait for the end of the write: a waiter
\* never sleeps on a channel that no release to come will close while the
\* lock is free.  It does (see the README).
WaitersHear ==
    \A p \in Process : pc[p] = "wait" /\ opMu = Nobody =>
        loc[p].ch \in closed \/ \E q \in Process : pc[q] \in {"announce", "replace"}
=============================================================================
