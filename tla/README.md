# DJ4Hub, in TLA+

Specifications of DJ4Hub (a macOS hub for DJI 4G modules: a Go service that
talks to the module over USB AT, QMI or MBIM, a web client and a native client), model-checked with
TLC; the safety properties of arbiter, poller, eSIM stack, serial modem, MBIM device and backends are
proved with TLAPS.

1. [The system](#1-the-system)
2. [Modules and how they correspond to the code](#2-modules-and-how-they-correspond-to-the-code)
3. [Runs, bounds, fairness](#3-runs-bounds-fairness)
4. [What the counterexamples show](#4-what-the-counterexamples-show)
5. [What is proved](#5-what-is-proved)
6. [What is only model-checked, and what is not modelled](#6-what-is-only-model-checked-and-what-is-not-modelled)
7. [Plan](#7-plan)

To check a run: `tlc -config MCAPDUArbiter_safety.cfg MCAPDUArbiter`; to check the proofs:
`tlapm APDUArbiterProofs.tla`, and likewise for the other modules named `...Proofs`.
`PROJECT.json` lists every run, the source lines each definition
translates, the hazards each property is for, and for each property a mutation of the model (a
definition named `Bug...`) under which TLC refutes it.

## 1. The system

Paths are relative to the repository. "State" is what a component keeps between calls.

| Component | State | Operations | Talks to | What is hard | What makes it correct |
|---|---|---|---|---|---|
| APDU arbiter, `internal/apduarbiter/arbiter.go` | ticket queue, active leases, active barriers, watchdog timers, broadcast channel | AcquireTransport/Session/OneShot, BeginBarrier, Release, Touch, WaitIdle | eSIM transports, modem manager | waiters evaluated one by one under a mutex, ageing, time-outs against signals, timers against Touch | exclusion on the card, fences, no lost wake-up, no starvation |
| SIM authentication gate, `internal/apduarbiter/simauth_ready.go` | generation, ready, probing, wait channel | WaitSIMAuthReady, InvalidateSIMAuthReady | callers' probes | an invalidation during a probe, callers that join it | ready is never stale, one probe, nobody sleeps for ever |
| SMS poller and cleanup, `cmd/dj4ghub-macos/main.go` | inbox, reassembler, card identity | pollSMSOnce, clearModuleSMS | USB AT, history | commands of two goroutines interleave on one module, cards change, answers are cut, archive fails | nothing erased before it is archived, right attribution |
| Long-SMS reassembler, `pkg/smscodec/reassembler.go` | fragments by sender and reference | Add, Cleanup | poller, modem manager | duplicates, leftovers | complete messages come out once |
| Call history, `cmd/dj4ghub-macos/communication_history.go` | records, active calls, dirty flag, SQLite rows | observe, interrupt, appendHistory, save, initHistory | CLCC monitor, callAction, SMS archive | observation every 3 s of something that changes, failing queries, failing saves, restarts | a failure is not an end; clean means durable |
| History backup, `cmd/dj4ghub-macos/history_backup.go` | settings (directory, owner token, fingerprint, last file), snapshot files | configure, backup, scheduled backup, rotate, restore | database, a cloud directory | crash between file, settings and rotation; memory and database differ | nothing goes back, last backup exists, number of files is bounded |
| eSIM manager, `internal/esim/manager.go` | operation mutex and done channel, overview cache with generation, reload flags, switch phases | GetEsimOverview, RefreshProfiles, SwitchProfile, DisableProfile, DownloadProfile, DeleteProfile, notifications | arbiter, transports, lpa client | writers against readers, reloads against invalidations, the modem resets under a switch | a cache never shows a profile state from before an invalidation |
| APDU coordinator and transports, `internal/esim/*transport.go`, `apdu_coordinator.go` | channel mutexes, session registry, arbiter | open, transmit, close, stop | arbiter, QMI/MBIM | Stop against transmit | one APDU at a time per channel |
| Serial modem manager, `internal/modem/manager.go` | two command queues, request pool, health, time-out watchdog | ExecuteAT, read loop, URC dispatch, SMS storage switching | serial port | late answers, time-outs, stop against callers | an answer belongs to its command |
| MBIM device, `pkg/mbim/device.go`, `fragment.go` | transaction counter, pending table, fragment collectors | Open, Command, read loop, Close | transport | cancellation against late fragments, loss of the transport | an answer belongs to its transaction, nobody waits for a dead loop |
| USB AT bridge, `cmd/dj4ghub-macos/main.go`, `usbat_darwin.go` | handle, device, backoff | ensureUSBAT, Command, CommandWithPrompt, detach | libusb | unplugging against commands | an error of an old handle does not detach the new one |
| Module audio, `module_audio.go`, `audio_initialize.go`, `audio_root.go` | session token, lease time; on the module: script, lease file, USB configuration | prepare, lease, stop, initialize | ADB, USB AT, phone | re-enumeration, reboot with lost acknowledgement | configuration is backed up before it is written and restored when leases stop |
| Configuration, `internal/config`; profile notes | YAML file, global; notes file | update devices, notification, credentials, notes | API | read-modify-write, a process that ends in between | no update lost |
| Backends, `internal/backend` | USSD session, SMS index, operator selection | USSD, list/read/delete SMS, select operator | QMI, MBIM, AT | three transports behind one interface, late results | a session gets its own result, an index means one message |
| Logger broadcaster, `pkg/logger/log_broadcaster.go` | client channels | Subscribe, Unsubscribe, Broadcast | everything | close against send | no send on a closed channel |
| MBIM codecs, SMS codec, SIM files, AT parsing, network service, clients | little or none | requests, encoding, parsing, rendering | the above | formats | see the tests of the repository |

How they interact: handlers of the local HTTP API and background goroutines (SMS poll every 8 s, CLCC
monitor every 3 s, backup check every minute, eSIM reloads) share one module. `usbAT.mu` serializes
single AT commands; sequences are serialized only among those that take the same mutex (`smsPollMu`
for polls, `audioMu` for phone, audio, restore and observation, `h.mu` for the history). APDUs to the
card go through the arbiter of the device whatever the transport.

The hazards of this code, each at its line, are in `PROJECT.json` under "hazards" with the properties
that cover them or the reason why none does.

## 2. Modules and how they correspond to the code

Every module models one component or one part of one; the `MC` modules put several beside each other
for TLC (section 3).

### CardAccess, APDUArbiter

`CardAccess` is what the arbiter promises: clients hold leases that are compatible and within limits,
and raise fences that keep classes of traffic off the card; a fence goes up only on a silent card.
It has no queue, mutex, timer or wake-up.

`APDUArbiter` is the code. A call of `acquire` or `BeginBarrier` is `Enqueue` (append, signal, mutex
kept), then `GrantLease`/`GrantBarrier` or `Sleep`, then `Wake` (mutex taken again) or `Timeout`.
`mu` is the owner of `a.mu` between the steps that keep it. `signalled` is the set of sleepers whose
copy of `notifyC` has been closed; `Signal` closes it for everybody asleep. `Touch`, `Expire` and
`ReleaseExpired` are the watchdog: a timer, its callback that waits for the mutex, and the deadline
that may have moved meanwhile. Time is nondeterministic: `Age` (500 ms in the queue), `Expire`.
`StopsScan`, `EligibleTransports` and `TransportChoice` are the loop of `selectedTransportLocked`.
`ImplementsCardAccess` is `CardAccess!Spec` under the mapping "active tickets are the leases, blocked
classes of active barriers are the fences".

### SIMAuthReady

The gate. One action per section of `WaitSIMAuthReady` between two lock operations; a wait channel is
named by the prober that made it, so that closing "the channel in the gate if it is mine" is a
comparison of names. The card is external: it changes, and `InvalidateSIMAuthReady` comes some time
later (`owed`).

### Reassembler, SMSPoller

`Reassembler` is the cache as a set of fragments and what `Add` and `Cleanup` leave of it.
`SMSPoller` has the module's two memories and its selected memory as external state, one action per AT
command of `pollSMSOnce` (`SelectMemory`, `ListMemory`, `ClearSelect`, `ClearErase`, `ClearRecheck`)
with the local work that follows it, one failure action per command, the archive (`Archive`,
`ArchiveFails`), `Merge`, the manual cleanup as a second goroutine, and `Restart`. The record key is
the text with the timestamp of the part that completed it and the card it is filed under. Two failures
the code cannot see, because `Command` answers ERROR, +CMS ERROR and a partial answer without an error:
an AT+CMGL that stops early is `ListCut` (when `Truncates` holds); a refused AT+CPMS or AT+CMGD is
`SelectMemoryRefused`, `ClearSelectRefused`, `ClearEraseRefused` (when `Refuses` holds), after which
the poll goes on with the memory selected before. `strayed` and `mistaken` are history: a selection
that the poll believes in is not the module's, and the texts a listing took for SM's since.

### CallHistory

`Observe` is `communicationHistory.observe` whole, save included; `Interrupt` and `AppendHistory` are
the two other writers, `Restart` is `initHistory` after a crash. An observation is `ReadBefore`,
`QueryCalls` and `FinishObservation` because calls, answers and cards change between its commands;
observations do not overlap, since both callers hold `audioMu`. A record's number is the call itself,
so a property can ask whether what the record says of its call is so. `Fault` lists what may fail in
a run; "listing" is the AT+CLCC answer cut by the time-out, which `Command` returns without an error.
`cut` and `misjudged` are history: calls missing in such an answer, and those closed by one.

### HistoryBackup

Records carry versions in place of content. `BackupNow` and `BackupIfDue` publish the snapshot,
`SaveConfig` writes the settings, `Rotate` removes old files; they run under `h.mu`, so nothing but a
`Crash` or a failure comes between them. `Restore` merges any content, since the user may choose any
file. `files` holds the snapshots that this installation wrote, in name order.

### EsimManager

`internal/esim/manager.go` without its notifications. A process is an HTTP handler, or `Reload`, the
goroutine of `triggerOverviewReload`. `Lock`, `Try`, `Listen`, `WaitTimesOut`, `Unlock`, `ReadOld` and
`ReplaceAndClose` are `lockOperation`, `waitForNoWriteOperation` and `notifyWriteDone` one access of
`opMu` or `opDone` at a time; `ProbeEnds` is the unlock of a reader's probe. The card is a version
number; a cached overview is the version it shows, so "stale" is a comparison. `gen` is the generation
that `Invalidate` moves, `loads` the singleflight, `StoreOverview` the guarded store. A scan that
succeeds may have missed something (`Missing`): the profiles of an eUICC whose listing failed, an eUICC
whose AID failed, or one it had found, when the callback panicked; `lacks` is what the cache lacks. The switch is
`SwitchBegins`, `BarrierGranted`/`BarrierRefused`, `Enable`/`EnableRefused`, `SwitchAccepted`,
`AfterSwitch`; a card reset without effect is taken for success there as in the code; `token` records what the host was told of each. `suspect` is history: why a cached value
may differ from the card.

### EsimNotifications

The same file, where it sends, cleans up and retries notifications. Each operation holds `opMu` from end
to end, hence one action each; `DownloadProfile`, `RecoverDownload` and `DownloadFails` are the ways a
download ends. `Classify` is `download_error.go`. The card's numbers grow; `MaxSequence` over the
listing before the download is how the code tells its own notification.

### EsimTransports

Four kinds of transport with their locks: lease of the arbiter (`Acquire`, over `CardAccess` in place of
`APDUArbiter`, which implements it), channel mutex (`MutexOf`, in an `epoch` that `StopLocks` ends),
the serial command loop, the AT mutex. `Send` puts an APDU on the wire; `Expire` is the arbiter's
watchdog, `CardReset` the card's. `Cleared` is `ClearLogicalChannels`, with which every scan over the
serial transport closes all channels, whoever opened them. `orphans` are channels the code knows, or
could know, to be left open; `bereft` are the clients whose channel was closed behind their back.

### ModemLink, ModemServices

`ModemLink` is `runLoop`, `readLoop`, `executeAT` and `SendSMSWithOptions` of `internal/modem/manager.go`:
requests in two bounded queues, answer channels from a pool, one command in hand, the module answering
in order but as late as it likes. `LoopPanics` and `ReaderPanics` are the recovered panics, which end
one goroutine and neither stop the manager nor tell its owner.

`ModemServices` is what uses it, in four parts that share no state:
SMS (`Select`, `ReadMessage`, `Erase`, `Restore` per goroutine, `ListAll`, `EraseAll`), USSD, the SIM
check with RDY, and the identity (`QueryIMSI`, `QueryNumber`, `Commit` per collector, of which initModem's
goroutine and RefreshDeviceInfo may run at once). An AT command is one step there. History tells why a
message may be erased unread: `disturbed` jobs, whose storage was switched by another or whose index was filled
anew, and the messages they erased (`astray`); `garbled`, listed without their PDU line.

### MbimDevice

`pkg/mbim/device.go` and `fragment.go`. `Register`, `Write`, `Unlock`, `ContextEnds`, `Receive` are
`Command`; `Read` is one turn of `readLoop` with the whole of the handler it calls, `ReaderEnds` is
`failPending`, `Apply` the monitor that takes indications. A fragment carries the identity of its
message, so "put together from one message" can be asked. `WriteFails` and `ReaderEnds` need no broken
transport: a framing error ends the loop while the module and the clients it has given out live on.

### BackendServices

Three parts of `internal/backend`: QMI USSD sessions (`Originate`, `Wait`, `TimedOut`, `Return` on the
session's side, `Answers` and `Releases` on the network's; one-place channels that hold the number of
the session that filled them), SMS by index on three kinds of storage, and the operator selection with
its two encodings of the MNC and its access technology. No lock keeps the clients of the SMS part apart:
lists, reads, deletions and the sweeps of `DeleteAllSMS` interleave, a sweep one index or tag at a time
(`Swept`; over QMI only the tags of received messages, `Outgoing` being the others).

### HostUSB

`cmd/dj4ghub-macos` on its USB side, three parts: the bridge (`Start`, `Open`, `Use`, `Write`, `Read`,
`TimedOut`, `NoDevice`, `Detach`, `Close` per request; a handle is a number), the notes in the phone
book (`SelectME`, `CheckME`, `ReadBook`, `WriteBook` of the editor, one command each, beside `Probe` and
the commands of other clients, `Console`, which may select a book and write to it), the sending of SMS (`Send`, `Segment`, `Accepted`, `LateDropped`,
`Log`).

### HostAudio

The audio session: `Prepare`, `ReadyRead`, `Prepared`, `NotPrepared`, `Lease`, `Stop`, `Stopped`
are the handlers under `audioMu`; `Begin`, `Calibrate`, `Enumerate`, `Lapsed`, `LoopEnds`, `Restored`
are `audio_session.sh` for each script; both sides count their own lease. The initialization is
`Identify` to `Await`, with `Meddle` for everything that others do between its commands.

### HubStores

Three files: `profile-notes.json`, the configuration, the import of the JSON history. Every file
operation is a step, and `RestartHub`, `UpdateFails` and `RollBack` end the process or the operation
between two of them.

## 3. Runs, bounds, fairness

Components that share no state are checked in one state space: `which`, fixed by the initial state,
names the part that runs, and the others stand still. `MCHost` extends `MCModem`, so that one run has all
parts of the modem manager and of the host. The states are then the sum of those of the
parts, not their product, and every counterexample is one of a single part. Parts that do share state
(poller and its archive, host and script of an audio session, LPA clients and arbiter) are composed in
their modules.

| Run | Parts and instance | Shows |
|---|---|---|
| `arbiter_safety` | 3 callers, 7 kinds of request, a WaitIdle watcher, 2 sessions, 2 QMI channels, watchdog, one aged ticket at a time | `CardExclusion`, `BarrierFence`, `QueueIsFair` (no lost wake-up, watchdog armed and exact, barriers not overtaken, overtaking has a reason), `ImplementsCardAccess` |
| `arbiter_live` | 3 callers, a watcher, holders that hang, a barrier that stays up | `WaitersServed` |
| `live_ops` | gate: 3 callers, 2 invalidations; backup: 1 record, 2 directories; bridge: 2 requests, 2 enumerations, a time-out; poll: 1 card, a message of two parts, all failures and refusals; saves may fail in all | `GateWorks`, `ChangesReachBackup`, `ModuleIsFound`, `SIMMessagesArchived` |
| `history_ops` | poll: 2 cards, a two-part message, all failures and refusals; manual: an undecodable message, the user's cleanup, two times; cards, indexes: 2 calls on two cards, at two indexes, all failures, cut answers; backup: 2 versions, 2 directories, Keep = 2, up to 4 files | `ArchiveIsSound`, `InboxIsDurable`, `CleanupFollowsArchive`, `LogIsSound`, `HangupIsReal`, `BackupsAreSound` |
| `esim_ops` | manager: 2 handlers and the reload, 2 calls, a card event; notes: 2 profiles, 4 operations; wires: 2 clients, 2 channels, 5 calls, 2 of stops, resets, expired leases, on 4 transports | `CacheIsCurrent`, `SwitchReported`, `SuccessIsNotified`, `RemovedWereSent`, `WireExclusion`, `ChannelsAccounted` |
| `devices_ops` | mbim: 2 callers, 1 collector, 1 indication, 4 transactions; ussd: 3 sessions; sms: 2 clients, 2 indexes, 3 messages, one of them outgoing, 3 backends; selection: 2 settings, with access technology | `MessagesAreWhole`, `NobodyForgotten`, `ClientsAccounted`, `USSDSessionsSound`, `ErasedBackendSMSWasRead`, `SelectionAsReported` |
| `hub_ops` | link: 2 callers, 2 pooled channels, queues of 1, watchdog after 2, panics; sms: 2 jobs and the collector, 2 messages; ussd: 2 users; status; identity: 2 collectors, card changes; bridge: 2 requests, 3 enumerations, 2 errors; notes: 2 slots in 2 books, a probe, another client; messages: 2 SMS of 2 segments; session: 2 scripts; init: 2 modules, 3 interferences; files: 2 cards, 2 updaters, 3 records | `AnswersInOrder`, `SentAsReported`, `DeadLinkIsNoticed`, `UnreadErasedOnlyAstray`, `USSDAnswersInOrder`, `IdentityIsOneCards`; `DetachHasCause`, `SentAsRecorded`, `SessionsEnd`, `InitializationIsCareful`, `SavedIsDurable` |

Five further runs expect a violation (section 4). Files are `MC<Module>_<suffix of the run>.cfg`.

Why these bounds are enough for the question asked:

* Arbiter: three callers are a holder or a barrier, and two waiters whose order matters; every rule of
  the admission policy compares a ticket with the active set, the barriers and the tickets ahead of
  it, so a third waiter repeats the second. The theorems of section 5 do not depend on the number.
  `MaxAged` only bounds how many waiting tickets are old at the same time; the absence of lost wake-ups
  is asked of states where none is, since ageing is the one change that signals nobody (section 4).
* Gate: three callers are a prober, one that joined, and one that comes after the invalidation.
* Poller: a message of two parts is the smallest that can be incomplete; a poll is too short for two
  card changes (`swapped`); `MaxClock` bounds distinguishable decoding times. The two ways to run it
  split the question: on two cards without the user's cleanup, on one with it. Once a selection has gone
  astray no further failure and no change of card is added (`OnlyAstray`), since refusals and each of
  those are covered apart. In `live_ops` one card stays in, as
  the property is about what happens after the changes have ended.
* Calls: two calls can share an index one after the other or be listed together; two records are two
  calls, or an interrupted one and its continuation. `cards` and `indexes` split the two questions: two
  cards at one index with whole answers and saves that succeed, and one card with everything, but for
  saves that fail after an answer was cut. The theorems of section 5 have none of these restrictions.
* Backup: `Keep` is 10 in the code and 2 here; rotation looks at positions relative to `Keep` only.
* eSIM manager: a writer, a reader and the background reload are all the roles there are; two calls let
  a store meet an invalidation in between. Notifications: four operations are a download, another event
  of the same profile, a retry and a cleanup. Transports: two clients, one channel each or the same
  number after a reset.
* Modem link: an answer slips by one place for each command that timed out; three calls show two slips.
  `QueueCap` is 10 and 5 in the code; 1 makes a full queue happen. `Threshold` is 5 there. Services: two
  jobs, two collectors are one and another that overlaps it.
* MBIM: one collector makes eviction happen, one place of the indication queue makes a drop happen;
  four transactions are two callers that each have one behind them. A message has up to two fragments.
* USSD: three sessions are one that ended badly, one it disturbs, and one after.
* HostUSB: three enumerations are two replacements under one slow request. HostAudio: leases of 2 and 3
  units stand for 45 s and 50 s, keeping their order; two scripts are enough to overlap.
* HubStores: two updaters, each of either kind; more are refused the lock or share the one temporary
  file in the same way.

CHECK_DEADLOCK is off where the system really stops: under a barrier that stays up, and in the runs
whose bounds on calls and events end every behaviour.

Fairness and its grounds in the code:

* Arbiter: a goroutine that waits for `a.mu` gets it (`sync.Mutex` starvation mode), so strong fairness
  for the steps that lock and weak fairness for those that hold it. Never assumed: that a caller asks,
  that a context ends, that a ticket ages, that a barrier is lowered. `HangingSpec` assumes timers and
  their callbacks and not even Release; `AgingSpec` assumes Release and restricts tickets to age in
  queue order.
* Gate: the prober's steps and the wake-ups, and an invalidation that is due comes. That probes are
  not for ever cut short by their contexts is a condition of the property, like a card that stays up.
* Poller: its timer goes on and commands return (`startSMSPoller`); the property is conditional on
  failures and card changes coming to an end.
* Backup: the minute's ticker, the passing of time, a handler that has begun, observations that save
  what is dirty. `BackupIfDue` needs strong fairness because it waits for `h.mu`, which other handlers
  hold again and again.
* Bridge: the back-off passes and a request goes on; requests keep coming (the poller's do). That
  modules stop coming and going is the bound `MaxPlugs`.

## 4. What the counterexamples show

Each of these runs checks one statement of a comment, a document, a message or a test of the
repository, and TLC refutes it. `PROJECT.json` ("findings") quotes the statement.

| Run | What happens |
|---|---|
| `arbiter_starved` | An eUICC ticket evaluates just before it is 500 ms old and sleeps (AKA first); the AKA evaluates just after and sleeps (aged first). Nothing signals, and the free card is used by neither until a context ends (ten seconds in `esim/apdu_coordinator.go`) or another caller comes. |
| `history_clearrace` | "Clear module SMS" runs beside a poll: select ME, (poll) select SM, erase: the SIM card is empty. |
| `history_cut` | An AT+CLCC answer is cut by its time-out before a call's line. `Command` returns what it has, without an error, and `observe` records the call as over while it goes on. |
| `esim_deaf` | A reader's momentary `TryLock` is seen by another reader, which sleeps on `opDone`; the first unlocks without an announcement, and the second reports "operation in progress" after its time-out though nothing was. |
| `host_enumerates` | The preparation of a session gives up and its `stop` file is seen only when the script's loop begins; until then it enumerates the module with audio, under a call dialled meanwhile. |

Further statements of the repository are stated as properties and refuted in the same way: put the
definition into the configuration named here (as an INVARIANT; `OtherStoragesSpared` as a PROPERTY) in
place of its properties, and TLC shows the behaviour.

| Property, configuration | Statement | What happens |
|---|---|---|
| `AttributionSound`, `MCHistory_ops` | `docs/COMMUNICATION_HISTORY.md:17`: only what is read from SM is attributed to the card | a refused AT+CPMS="SM" goes unnoticed (`main.go:1193`), ME is listed as SM and filed under the card |
| `FingerprintCoversSnapshot`, `MCHistory_ops` | `history_backup.go:284` "so the fingerprint and snapshot cover the same records" | after a failed save the snapshot is of the database, the fingerprint of the memory (`:148`) |
| `FoundIsShown`, `MCEsim_ops` | `esim/manager_test.go:520` a panic in a callback must not take down the scan | the eUICC whose callback panics is missing in the overview that is cached (`manager.go:1055`) |
| `AcceptsWhatItRuns`, `MCHost_ops` | `modem/manager.go:1830` CanExecuteAT: the manager is started and takes AT commands | a panic ends `runLoop` (`:612`) and nothing else: commands are queued for a loop that is gone |
| `OtherStoragesSpared`, `MCHost_ops` | `modem/manager.go:1512` skip, so as not to delete messages of the other storage | another job switches the storage between a job's read and its AT+CMGD (`:1547`) |
| `NumberIsNotStale`, `MCHost_ops` | `modem/manager.go:992` each collection overwrites, so that the previous card's number is not shown | an older collection whose IMSI query failed ends last (`:907`) |
| `AllMeansAll`, `MCDevices_ops` | `backend/sms.go:27` "DeleteAllSMS" deletes all, over all tags | over QMI only the tags of received messages (`qmi_backend.go:884`) |
| `RATWasAsked`, `MCDevices_ops` | `backend/mbim_operator_selection_test.go:58` the result has the technology asked for | SetRegister is never given it (`mbim_operator_selection.go:63`) |
| `ProbeIsSafe`, `MCHost_ops` | `main.go:2335` the probe never writes an entry, "so it is safe" | it selects the SIM's phone book under a note's editor, whose AT+CPBW then takes the place of a contact |

The same models show other behaviours that a reader of the documents may not expect. They follow from
the definitions in a few steps, and no run is spent on them.

SMS poller, calls, backup:

* the overlap of `history_clearrace` the other way round: the manual cleanup selects ME under a poll that
  believes it lists SM, and a module message is filed under the card;
* a refused selection of ME lets the poll's cleanup erase the SIM; one refused at the listing lets the
  cleanup, whose own selection is granted, erase ME unread;
* the poll's cleanup erases all of ME, fragments and late arrivals included (`ClearErase`);
* a message whose PDU does not decode is a new inbox entry in every poll (`TextOf`);
* one unreadable identity during a call opens a second record and gives the first an end time;
* a record whose save failed is in the fingerprint of a backup and not in its snapshot; saved later, it
  counts as backed up until something else changes (`ChangesReachBackup` excepts just this);
* a crash between the first snapshot and the settings that name its token leaves a file that no
  rotation removes.

eSIM:

* two unlocks in a row may close one `opDone` twice, a panic (`panicked`), which also swallows the
  report of a switch;
* a cached overview stays stale after an answer lost when the card had done its work, after a load that
  was in flight when a switch patched the cache, and after `RefreshProfiles` and `GetEUICCChipInfo`,
  which store without a generation (`suspect` names the cause);
* a failed profile listing is cached as an eUICC without profiles, and an AID that failed is left out,
  until something invalidates the overview (`lacks`);
* a reset of the card during a switch counts as its success, with or without effect;
* a download or delete whose notification the card lists but does not return reports success (`withheld`);
  an error without an installation is assumed to leave no install notification; the space check before a
  download lets pass when it cannot read;
* the deferred close of a switch, after the card has reset itself, may close a channel that has since
  been given to another client; a close over AT ignores ERROR, so the channel leaks;
* a scan over the serial transport closes the channels 1 to 4 of everybody (`modem/commands.go:408`); a
  client that goes on with its number then reaches the channel of whoever is given it next;
* a Stop under an APDU replaces the channel mutexes at once (`apdu_coordinator.go:57`), so that two APDUs
  of one channel meet once the lease has expired too.

Modem, MBIM, backends:

* after a time-out answers are one command late until the line is idle for a moment; a send may be
  reported failed though it went out, or time out while still queued, and after a Stop a pooled channel
  may hold anybody's answer;
* a read error that a command swallows, or a panic in `readLoop`, leaves the loop without a reader until
  the watchdog trips; a panic in `runLoop` leaves `executeAT` waiting until somebody stops the manager;
* after the card is taken out IMSI and ICCID stay those of the old one;
* parts of an incomplete message are erased from the card and live only in memory; `CheckAllSMS` erases
  what arrived after its listing, and what it listed without finding the PDU line
  (`modem/manager.go:1967`);
* `SubscribeRDY` is closed by a polled "READY" too, not only by a restart (`modem/manager.go:1300`);
* MBIM commands registered after the loop has ended wait for their contexts, and `releaseUIMClient`,
  which has none, for ever; an evicted collector and two indications of one transaction number whose
  fragments alternate get mixed (the model assumes a module does not alternate those); indications
  beyond 16 are dropped and leave the snapshot old; a stuck write blocks Close;
* the late release of a USSD session that ended by its result ends the next one with an empty text, and
  a release that never comes refuses USSD until a restart; when result and release are both ready the
  choice is random;
* `ListSMS` over AT numbers from 0, which are not the storage's indexes; QMI `ReadSMS` falls back to the
  SIM while `DeleteSMS` erases the module's index;
* a request whose `includes_pcs_digit` contradicts its PLMN is read back differently; over AT a
  selection whose technology the module does not name is reported with GSM.

Host:

* a prompt that comes after its deadline leaves the module in its message editor; a CMGS report that is
  45 s late is taken for that of a later segment; "failed_or_partial" may have been sent;
* `NotifyModemReset` of a detach may meet the eSIM session of the handle opened since;
* a client's AT+CPBW through `/api/at` between a note's reading of the book and its write is overwritten;
* a new session that overlaps the end of an old script reads USB functions that still have audio and
  later "restores" those; a script that cannot restore stays in "stopping";
* the updaters of notifications and credentials take no lock and share one temporary file with those of
  devices; `UpdateDeviceInFile` can give two devices one id; a save that fails leaves the memory ahead
  of the file; there is no fsync before the rename;
* contradictory duplicates in the JSON history disable the history until they are mended.

## 5. What is proved

Each `...Proofs` module extends the module it is about, or the `MC` module whose parts it is about
(whose bounds stay constants there). No theorem fixes a number of callers, cards, messages, channels or
calls. What is assumed of the constants is only this, and TLC evaluates it in the runs:

| Assumption | Says |
|---|---|
| `ArbiterAssumption` | finite clients, positive limits, well-formed requests |
| `ReadyAssumption` | "no channel" is no caller |
| `PollerAssumption` | the names for "no card", "network" and "ME" are no card's; the switches are Boolean |
| `ManagerAssumption` | `Nobody` is no process, `Reload` is not a handler |
| `TransportsAssumption` (`EsimConfiguration`) | "no channel" and "no lease" are none |
| `LinkAssumption` | a pooled answer channel is not one that SendSMS makes; the kinds of request are the code's three; the watchdog's threshold is positive |
| `ServicesAssumption` (`ModemConfiguration`) | `CheckAllSMS` is none of the jobs that +CMTI starts |
| `MbimAssumption` | the module numbers its indications apart from transactions; `MaxTx` bounds the counter, so that its wrap at 2^32 is outside the theorems as it is outside the runs |
| `BackendAssumption` (`DevicesConfiguration`) | the number of sessions is a number; outgoing messages are messages |
| `HistoryAssumption`, `BackupAssumption` (`HistoryConfiguration`) | "no card", "no call" and "no directory" are none; indexes are positive and finitely many, `Fault` names only faults the model has; at least one backup is kept, and more fit into a directory |
| `HostAssumption`, `AudioAssumption`, `StoresAssumption` (`HostConfiguration`) | "nobody" and "no file" are none; the script's lease is shorter than the hub's (45 s and 50 s in the code) |

### APDUArbiterProofs

`TypeCorrect`, `ExclusionHolds`, `FenceHolds`, `QueueFairness` (`Spec => []P`, for `TypeOK`,
`CardExclusion`, `BarrierFence`, `QueueIsFair`). None of the last three is inductive. For the first two the invariant is
`Inv == TypeOK /\ PhaseInv /\ CardExclusion /\ BarrierFence`; `PhaseInv` says that a client that waits
is in the queue (so that its position exists and removing it gives a shorter queue), and that only
clients whose phase is "holding" are active or have a barrier up (so that a grant adds a client that
was not there, and forgetting a ticket forgets none that counts). The lemmas: what `RemoveTicket` and
`Append` do to a queue; that shrinking `active` keeps exclusion and fence; that a selected transport
may run (`SelectedMayRun`) and that a grantable ticket is compatible with all active ones
(`GrantedIsCompatible`); then one step lemma for each part of `Inv`, by cases on the actions.

For `QueueIsFair`, `FairInv` adds that a client is in the queue once (`QueueInv`: `Position` is where it
is, and removing a ticket moves only those behind it), that timers and fired callbacks belong to active
leases (`WatchdogInv`), and `NoLostWakeup` itself. The step for the last asks for each action what it
can make grantable: only removing a ticket, lowering a barrier and ending a lease can, and all of them
signal.

`Refinement`: `Spec => ImplementsCardAccess`. On top of `Inv` it shows
that `GrantLease` maps to `Grant`, `GrantBarrier` to `Raise` (a barrier ticket blocks at least one
class), `ReleaseLease` and `ReleaseExpired` to `Release` or a stutter, `ReleaseBarrier` to `Lower`, and
that all other actions leave the mapped state alone.

### SIMAuthReadyProofs

`GateHolds` (`ReadyIsTrue` and `OneProbe`, the safety half of `GateWorks`). `ProbeInv`: the channel in the gate is the one prober's, so closing it leaves
none behind; generations only grow, so a verdict whose generation is still the gate's was found on the
card that is there, unless a change of the card has yet to be reported.

### SMSPollerProofs

* `TypeCorrect`; `InboxDurable` (`InboxIsDurable`) and `CleanupAfterArchive` (`CleanupFollowsArchive`),
  by `ArchiveInv`: what has left `todo` is on disk while the poll archives, and the whole batch is from
  the cleanup's selection to its recheck. The cleanup erases more than was read (section 4); the theorem
  is about what was read.
* `AttributionHolds` (`AttributionKept`) and `PollNeverErasesSIM` (`SIMErasedByMistake`), without
  hypotheses, the user's cleanup and refused selections included; what these can spoil is named in the
  properties: texts that a listing took for SM's (`mistaken`), and an erase by a poll whose selection of ME
  was refused (`strayed`) or by the cleanup (`clearing = "erase"`). That nothing else does is
  `AttributionInv`: it ties the poll's identity to the card (`swapped` tells when they differ), its batch
  to the identity, and, unless a selection strayed, the module's selection to the program counter (`SelectionInv`).

### EsimProofs

Three invariants, for the manager, the transports and the notifications.

* `CachesAreCurrent` (`CacheIsCurrent`) and `SwitchesReported` (`SwitchReported`). `ManagerInv` says where
  a process may be when it has the lock (`FlowInv`); that a reader whose generation is current holds the
  card's state, or a part of it (`lacks`), and that a cache may be one change behind only while the write that made the change has
  yet to invalidate or patch (`CacheInv`, `ChipInv`); and that a token is one call's from its start until
  its report (`TokenInv`).
* `WiresExclude` (`WireExclusion`) and `ChannelsHaveOwners` (`ChannelsAccounted`). `TransportInv`: with the
  arbiter watching, a client that calls has the lease it asked for, and leases are compatible
  (`LeaseInv`, over `CardAccess`, which the arbiter is proved to implement); two calls on the wire have
  locked different mutexes (`MutexInv`); an open channel is its owner's or an orphan, and a client whose
  number is somebody else's is `bereft` (`ChannelInv`).
* `SuccessesAreNotified` (`SuccessIsNotified`) and `CleanupRemovesSent` (`RemovedWereSent`). `NoteInv`:
  numbers on the card are distinct and at most `seq`, so the largest after a download is the new one.

### DevicesProofs

* `MessagesWhole` (`MessagesAreWhole`), `NobodyIsForgotten` (`NobodyForgotten`), `ClientsKept`
  (`ClientsAccounted`). `DeviceInv`: a transaction number is one caller's (`CallInv`); the module sends
  one message of a number at a time (`WireInv`); a collector holds the beginning of the
  one message whose next fragment may still be read, whatever was evicted (`CollectInv`); results are whole (`ResultInv`); a QMI client has a caller or is lost (`ClientInv`).
* `SessionsSound` (`USSDSessionsSound`). `USSDInv`: what lies in the one-place channels is of the session
  that waits, or of one that returned early (`ChannelsInv`).
* `ErasedWasRead` (`ErasedBackendSMSWasRead`), for any number of clients at once. `ReadInv`: a client about
  to delete an index has read what is there, or was disturbed, that is, its index was filled anew, or its
  read fell over to the SIM; `SweepInv`: what a sweep of DeleteAllSMS found at its start and has passed is
  gone, but for outgoing messages over QMI.
* `SelectionReported` (`SelectionAsReported`). The lemmas follow one selection through the backend:
  `KeptFields` says what the device is given, `ToldFields` what it is read back as; that both have the
  digits of the request is `SelectionReported`'s step.

### ModemProofs

* `ErasedOnlyAstray` (`UnreadErasedOnlyAstray`), for any number of jobs and of CheckAllSMS: whoever is about to
  erase has read what the selected storage holds, or was disturbed (`ReadInv`).
* `USSDInOrder` (`USSDAnswersInOrder`), `SentIsSent` (`SentAsReported`), each with an invariant about what
  its part has seen so far.
* `IdentitySound` (`IdentityIsOneCards`), for any number of collections that overlap. What a collector has
  found is of cards since it began, the number of none before the IMSI's, unless another ended meanwhile (`IdentityInv`).
* `DeathIsNoticed` (`DeadLinkIsNoticed`), through panics of either loop: since nothing that comes from the
  module can reset the watchdog any more, its streak counts at least the time-outs since (`DeathInv`).
* `OrderKept` (`AnswersInOrder`), the hardest. That an answer goes to the command that is in hand when
  its line is read says nothing about whose answer it is. The invariant is layered: a number is
  one call's and is written once, in an order that never changes (`NumberInv`); what is in hand, on the
  wire and in `rxChan` is of calls that were written (`TraceParts`, `HandParts`); an answer channel is one
  call's, whether the request is queued, in hand, or answered (`BoxInv`). The core is `FlowInv`: every line
  and every command on its way has a number that bounds the place of the command it will end. The
  bound starts at `Base` (commands written, less those that timed out, plus one when none is in
  hand), grows by one over each line that may end a command (`Tally`), and never exceeds the place of the
  command that the line is about. A time-out lowers all of them by one, which is why an answer slips by one place for
  each. `GivenInv` follows when a line is consumed: what is given fits. All but the first two layers
  are asked until a Stop or a panic of the loop; after a Stop a pooled channel may hold anybody's answer (section 4), and the
  property excepts it.

Two results that the proofs needed and that are of use elsewhere: every nonempty set of naturals has a
least element (`LeastNumber`, from the library's well-founded order, in place of induction), and what
`InsertAt` does to a sequence.

### HistoryProofs

* `LogKept` (`LogIsSound`) and `HangupKept` (`HangupIsReal`), for any faults, cut answers included: the
  properties except the calls that such an answer left out (`cut`, `misjudged`). `CallInv` says where a call is, on the line, in an answer under way or among those
  tracked, and that this is one index (`PlaceInv`); that the answer of an observation in progress leaves
  out only calls that are over, began after it was given or were cut off (`ObservationInv`); and that a record closed
  for good, in memory or on disk, is of a call that is over and in no answer any more, or misjudged (`RowsInv`), so that
  no later record can be of the same call. The disk is behind the memory, never ahead (`DiskInv`).
* `BackupsKept` (`BackupsAreSound`). `BackupInv`: a backup in progress has published the newest file of
  its directory (`DraftInv`). That rotation keeps that file and leaves at most `Keep` of the owner's needs
  what counting off a finite set of numbers does (`RankCounts`): its elements have the places from 1 to
  their number, in their order.
* `ArchiveKept` (`ArchiveIsSound`), from the poller's `TypeCorrect` and `AttributionHolds`.

### HostProofs

The parts have prefixes there: `H!` for HostUSB, `A!` for HostAudio, `F!` for HubStores.

* `DetachesHaveCause` (`DetachHasCause`). An enumeration that is over does not come back, so a dead handle
  stays dead (`DeadStaysDead`); a request gives up only a dead handle, and closes it when it is no longer
  the current one (`GivingUpInv`). The port then follows the handle.
* `SendingIsRecorded` (`SentAsRecorded`), by what has gone out against what was acknowledged (`SendInv`).
* `SessionsAreOver` (`SessionsEnd`). The hub's age of a lease is at most the script's (`LeaseInv`), since
  an answer comes after the lease was written; and of the scripts that have noted what to restore, one
  at a time changes the USB functions (`RestoreInv`), unless one began before another was over.
* `InitializationTakesCare` (`InitializationIsCareful`): what was compared last holds until somebody
  exchanges, configures or calls the module (`CareInv`).
* `SavedStays` (`SavedIsDurable`): notes loaded are those of the file but where a save failed
  (`ProfileInv`); one updater at a time holds a copy that differs from the file only in its own section,
  as long as none ran beside another (`UpdateInv`); a transaction is marked when it has all (`ImportInv`).

## 6. What is only model-checked, and what is not modelled

Every invariant and action property of the passing runs is stated by a theorem. Liveness under fairness
is out of the prover's reach and stays with TLC: `WaitersServed`, `AgingPreventsStarvation`,
`EverybodyReturns` (the other half of `GateWorks`), `SIMMessagesArchived`, `ChangesReachBackup`,
`ModuleIsFound`. So does `EveryCallReturns` of ModemLink, that every call of the command loop comes back
unless a panic ended the loop; no run has it, and it holds of `MCModem` under `LiveSpec` with the constants of
`MCHost_ops.cfg` and `Kind = {"normal", "high"}`, without symmetry. The notes in the phone book have no
property that holds of them beyond one handler's order: `ProbeIsSafe` is refuted (section 4).

Left out of modelled components, on purpose: statistics and logging of the arbiter; the inbox's cap of
500; the safety snapshot before a restore; a removal that fails during rotation (it leaves more files to
the next one, like a crash there, which is modelled); the length, duration and wording fields of
records; the list of discovered eUICCs; the registry of APDU sessions; the start, calls, callbacks and
displayed status fields of the serial manager (its SIM check and RDY are modelled and fired, without a
property of their own); the snapshot that MBIM indications are folded into; requests of a backend that
are one query each, among them `GetServingSystem`.

Simplified: operator selections come one at a time; QMI's deletion by two tags in one storage is one
step. `RefreshDeviceInfo`, one of the two collectors of the identity, is exported and has no caller in this
repository. A PDU that does not parse is not skipped by CheckAllSMS: `decodePDU` reports it as a message of
its own ("[PDU 解析失败]"); what is passed over is a +CMGL header without its PDU line, and that is modelled.

Not modelled: codecs (SMS, WBXML, MBIM messages), parsers, data tables, PKI and rendering, which keep no
state; the log broadcaster, whose operations are atomic under one lock; the network service and probe,
which run macOS tools in sequence; the web and macOS clients, which are views of the local API.

## 7. Plan

Done: the arbiter with its abstract specification, proofs and refinement; gate, reassembler, poller,
call log, backup; eSIM manager, notifications and transports; serial modem manager; MBIM device;
backends; USB AT bridge, SMS sending, phone-book notes; audio session and initialization; files.

To do: an abstract request/answer service that `ModemLink` and `MbimDevice` implement; the process
supervision of the macOS client.

Theorems: the refinement of that abstract service.
