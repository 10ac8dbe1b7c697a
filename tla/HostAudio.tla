------------------------------ MODULE HostAudio ------------------------------
(***************************************************************************)
(* cmd/dj4ghub-macos, the module's USB audio.  Two parts that are checked  *)
(* one at a time.  A session: the handlers that hold audioMu, one at a     *)
(* time, and the scripts they leave on the module, each with its directory *)
(* and its lease, which end on their own.  And the initialization that     *)
(* turns ADB on in a module's persistent configuration, while modules are  *)
(* exchanged and other clients configure them.                             *)
(***************************************************************************)
EXTENDS Naturals

CONSTANTS
    None,
    MaxScripts,    \* bound: sessions prepared
    DeviceLease,   \* the script's 45 s and
    HostLease,     \* the hub's 50 s, in units of time
    Module,        \* modules that are plugged in, in turn
    MaxMeddling    \* bound: exchanges, changes by others and calls

\* What a configuration has to satisfy.
AudioAssumption ==
    /\ MaxScripts \in Nat /\ DeviceLease \in Nat /\ HostLease \in Nat
    /\ DeviceLease < HostLease

VARIABLES
    handler,       \* what holds audioMu: "idle", "wait" or "seen" (prepare), "stop"
    session,       \* app.audioSession: its script, or 0
    lastLease,     \* its age, up to HostLease
    unanswered,          \* history: a lease was written, but its answer lost
    made,          \* scripts launched
    script,        \* their states
    original,      \* the USB functions each is to restore
    lease, stopFile, \* the age of each one's lease; whether it is to stop
    functions,     \* the module's USB functions: "plain" or with "audio"
    overlapped,    \* history: a script was begun when another was not over
    call           \* a call was dialled or answered through the hub

session_ == <<handler, session, lastLease, unanswered, made, script, original, lease, stopFile, functions, overlapped, call>>

VARIABLES
    step,          \* initializeAudioADB's progress
    device,        \* the module that answers
    usbcfg,        \* the persistent usbcfg of each
    expected,      \* the identity read first
    found,         \* the configuration read first
    backup,        \* files: of whom, and what
    ringing,       \* a call comes in at the module
    since,         \* history: what happened since the last check of it
    meddling

init_ == <<step, device, usbcfg, expected, found, backup, ringing, since, meddling>>
vars == <<session_, init_>>

Script == 1..MaxScripts
Ended == {"none", "closed", "reboot", "gone"}

Init ==
    /\ handler = "idle" /\ session = 0 /\ lastLease = 0 /\ unanswered = FALSE /\ made = 0
    /\ script = [i \in Script |-> "none"] /\ original = [i \in Script |-> None]
    /\ lease = [i \in Script |-> 0] /\ stopFile = [i \in Script |-> FALSE]
    /\ functions = "plain" /\ overlapped = FALSE /\ call = FALSE
    /\ step = "idle" /\ device \in Module
    /\ usbcfg \in [Module -> {"factory", "adb"}]
    /\ expected = None /\ found = None /\ backup = {}
    /\ ringing = FALSE /\ since = {} /\ meddling = 0

-----------------------------------------------------------------------------
\* The script on the module

Become(i, s) == script' = [script EXCEPT ![i] = s]

\* It notes what to restore before it looks at anything else.
Begin(i) ==
    /\ script[i] = "launched" /\ Become(i, "drivers")
    /\ original' = [original EXCEPT ![i] = functions]
    /\ overlapped' = (overlapped \/ \E k \in Script \ {i} : script[k] \notin Ended)
    /\ UNCHANGED <<handler, session, lastLease, unanswered, made, lease, stopFile, functions, call, init_>>

HasCalibration(i) == script[i] \in {"calibrated", "ready", "stopping"}

\* Drivers, and the calibration unless there is one: exit 25.
Calibrate(i) ==
    /\ script[i] = "drivers"
    /\ Become(i, IF \E k \in Script : HasCalibration(k) THEN "restoring" ELSE "calibrated")
    /\ UNCHANGED <<handler, session, lastLease, unanswered, made, original, lease, stopFile, functions, overlapped, call, init_>>

\* The module enumerates with audio.  The file "stop" is not looked at before.
Enumerate(i) ==
    /\ script[i] = "calibrated" /\ Become(i, "ready")
    /\ functions' = "audio"
    /\ UNCHANGED <<handler, session, lastLease, unanswered, made, original, lease, stopFile, overlapped, call, init_>>

ScriptFails(i) ==
    /\ \/ script[i] = "drivers" /\ Become(i, "restoring")
       \/ script[i] \in {"calibrated", "ready"} /\ Become(i, "stopping")
    /\ UNCHANGED <<handler, session, lastLease, unanswered, made, original, lease, stopFile, functions, overlapped, call, init_>>

BugLapsed(i) == lease[i] >= HostLease
Lapsed(i) == lease[i] >= DeviceLease

LoopEnds(i) ==
    /\ script[i] = "ready" /\ (stopFile[i] \/ Lapsed(i))
    /\ Become(i, "stopping")
    /\ UNCHANGED <<handler, session, lastLease, unanswered, made, original, lease, stopFile, functions, overlapped, call, init_>>

\* Its children are stopped, or after 10 s each it leaves things as they are.
StopChildren(i) ==
    /\ script[i] = "stopping"
    /\ Become(i, "restoring") \/ Become(i, "reboot")
    /\ UNCHANGED <<handler, session, lastLease, unanswered, made, original, lease, stopFile, functions, overlapped, call, init_>>

Restored(i) == original[i]

Restore(i) ==
    /\ script[i] = "restoring" /\ Become(i, "closed")
    /\ functions' = Restored(i)
    /\ UNCHANGED <<handler, session, lastLease, unanswered, made, original, lease, stopFile, overlapped, call, init_>>

\* rebootModule, unless there is a session; a switch of the eSIM profile,
\* whatever there is and without audioMu; or the module is plugged in again.
Restart ==
    /\ \E i \in Script : script[i] \notin Ended
    /\ script' = [i \in Script |-> IF script[i] = "none" THEN "none" ELSE "gone"]
    /\ functions' = "plain" /\ call' = FALSE
    /\ UNCHANGED <<handler, session, lastLease, unanswered, made, original, lease, stopFile, overlapped, init_>>

\* The scripts look at their leases every second.
Tick ==
    /\ \A i \in Script : script[i] = "ready" => ~Lapsed(i)
    /\ \/ session # 0 /\ lastLease < HostLease
       \/ \E i \in Script : script[i] \notin Ended /\ lease[i] < HostLease
    /\ LET Older(a) == IF a < HostLease THEN a + 1 ELSE a
       IN /\ lastLease' = IF session = 0 THEN 0 ELSE Older(lastLease)
          /\ lease' = [i \in Script |-> IF script[i] \in Ended THEN 0 ELSE Older(lease[i])]
    /\ UNCHANGED <<handler, session, unanswered, made, script, original, stopFile, functions, overlapped, call, init_>>

-----------------------------------------------------------------------------
\* The handlers

Expired == session = 0 \/ lastLease >= HostLease

\* moduleAudioPrepare: no session, no call; files copied, the script launched.
Prepare ==
    /\ handler = "idle" /\ Expired /\ ~call /\ made < MaxScripts
    /\ made' = made + 1 /\ handler' = "wait"
    /\ Become(made', "launched") /\ lease' = [lease EXCEPT ![made'] = 0]
    /\ UNCHANGED <<session, lastLease, unanswered, original, stopFile, functions, overlapped, call, init_>>

\* It reads that the script is ready, and then writes the first lease if the
\* streams run, which does not look at the state again.
ReadyRead ==
    /\ handler = "wait" /\ script[made] = "ready" /\ handler' = "seen"
    /\ UNCHANGED <<session, lastLease, unanswered, made, script, original, lease, stopFile, functions, overlapped, call, init_>>

Prepared ==
    /\ handler = "seen" /\ script[made] \in {"ready", "stopping"}
    /\ handler' = "idle" /\ session' = made /\ lastLease' = 0 /\ unanswered' = FALSE
    /\ lease' = [lease EXCEPT ![made] = 0]
    /\ UNCHANGED <<made, script, original, stopFile, functions, overlapped, call, init_>>

\* After 20 s, or once the script has ended, or on an error: it is asked to
\* stop, if it can be.  What was the session before stays so.
NotPrepared ==
    /\ handler \in {"wait", "seen"} /\ handler' = "idle"
    /\ stopFile' \in {stopFile, [stopFile EXCEPT ![made] = script[made] # "gone"]}
    /\ UNCHANGED <<session, lastLease, unanswered, made, script, original, lease, functions, overlapped, call, init_>>

\* moduleAudioLease.
Lease ==
    /\ handler = "idle" /\ session # 0 /\ script[session] = "ready"
    /\ lease' = [lease EXCEPT ![session] = 0]
    /\ \/ lastLease' = 0 /\ unanswered' = FALSE
       \/ unanswered' = TRUE /\ UNCHANGED lastLease
    /\ UNCHANGED <<handler, session, made, script, original, stopFile, functions, overlapped, call, init_>>

\* moduleAudioStop.
Stop ==
    /\ handler = "idle" /\ session # 0 /\ script[session] # "gone"
    /\ stopFile' = [stopFile EXCEPT ![session] = TRUE] /\ handler' = "stop"
    /\ UNCHANGED <<session, lastLease, unanswered, made, script, original, lease, functions, overlapped, call, init_>>

Stopped ==
    /\ handler = "stop" /\ handler' = "idle"
    /\ IF script[session] = "closed"
       THEN session' = 0 /\ lastLease' = 0 /\ unanswered' = FALSE
       ELSE UNCHANGED <<session, lastLease, unanswered>>
    /\ UNCHANGED <<made, script, original, lease, stopFile, functions, overlapped, call, init_>>

\* callAction: to dial or answer, and to hang up.
CallAction ==
    /\ handler = "idle" /\ call' = ~call
    /\ UNCHANGED <<handler, session, lastLease, unanswered, made, script, original, lease, stopFile, functions, overlapped, init_>>

ScriptNext ==
    \E i \in Script :
        \/ Begin(i) \/ Calibrate(i) \/ Enumerate(i) \/ ScriptFails(i)
        \/ LoopEnds(i) \/ StopChildren(i) \/ Restore(i)

SessionNext ==
    \/ ScriptNext \/ Restart \/ Tick
    \/ Prepare \/ ReadyRead \/ Prepared \/ NotPrepared \/ Lease \/ Stop \/ Stopped \/ CallAction

-----------------------------------------------------------------------------
\* initializeAudioADB, under audioMu

Fails == step' = "failed" /\ UNCHANGED <<usbcfg, expected, found, backup, since>>

\* moduleAudioPrepare reads the identity, then the configuration.
Identify ==
    /\ step = "idle" /\ step' = "read" /\ expected' = device
    /\ UNCHANGED <<session_, device, usbcfg, found, backup, ringing, since, meddling>>

ReadConfig ==
    /\ step = "read"
    /\ \/ /\ found' = usbcfg[device] /\ step' = IF found' = "adb" THEN "done" ELSE "backup"
          /\ UNCHANGED <<usbcfg, expected, backup, since>>
       \/ Fails
    /\ UNCHANGED <<session_, device, ringing, meddling>>

\* The identity is compared, and the backup synced to disk.
BackUp ==
    /\ step = "backup"
    /\ \/ /\ device = expected /\ step' = "authorize"
          /\ backup' = backup \cup {<<expected, found>>}
          /\ UNCHANGED <<usbcfg, expected, found, since>>
       \/ Fails
    /\ UNCHANGED <<session_, device, ringing, meddling>>

BugGuarded == ~ringing
Guarded == device = expected /\ ~ringing

\* authorizeAudioADB, which ends with audioInitializationGuard.
Authorize ==
    /\ step = "authorize"
    /\ \/ /\ Guarded /\ step' = "reread" /\ since' = since \ {"exchanged", "called"}
          /\ UNCHANGED <<usbcfg, expected, found, backup>>
       \/ Fails
    /\ UNCHANGED <<session_, device, ringing, meddling>>

\* Another client may have changed the configuration since.
Reread ==
    /\ step = "reread"
    /\ \/ /\ usbcfg[device] = found /\ step' = "write" /\ since' = since \ {"altered"}
          /\ UNCHANGED <<usbcfg, expected, found, backup>>
       \/ Fails
    /\ UNCHANGED <<session_, device, ringing, meddling>>

WriteConfig ==
    /\ step = "write"
    /\ \/ /\ usbcfg' = [usbcfg EXCEPT ![device] = "adb"] /\ step' \in {"guard", "failed"}
          /\ UNCHANGED <<expected, found, backup, since>>
       \/ Fails
    /\ UNCHANGED <<session_, device, ringing, meddling>>

GuardAgain ==
    /\ step = "guard"
    /\ \/ /\ Guarded /\ step' = "restart" /\ since' = since \ {"exchanged", "called"}
          /\ UNCHANGED <<usbcfg, expected, found, backup>>
       \/ Fails
    /\ UNCHANGED <<session_, device, ringing, meddling>>

RestartModule ==
    /\ step = "restart" /\ step' = "await" /\ ringing' = FALSE
    /\ UNCHANGED <<session_, device, usbcfg, expected, found, backup, since, meddling>>

\* The restart is not repeated: what answers in the end has to be the same
\* module, with the configuration written.
Await ==
    /\ step = "await"
    /\ \/ device = expected /\ usbcfg[device] = "adb" /\ step' = "done"
          /\ UNCHANGED <<usbcfg, expected, found, backup, since>>
       \/ Fails
    /\ UNCHANGED <<session_, device, ringing, meddling>>

\* Others: modules are exchanged, configured and called.
Meddle ==
    /\ step \notin {"idle", "done", "failed"}
    /\ meddling < MaxMeddling /\ meddling' = meddling + 1
    /\ \/ /\ device' \in Module \ {device} /\ since' = since \cup {"exchanged"}
          /\ ringing' = FALSE /\ UNCHANGED usbcfg
       \/ /\ usbcfg' = [usbcfg EXCEPT ![device] = "altered"]
          /\ since' = since \cup {"altered"} /\ UNCHANGED <<device, ringing>>
       \/ /\ ringing' = TRUE /\ since' = since \cup {"called"} /\ UNCHANGED <<device, usbcfg>>
    /\ UNCHANGED <<session_, step, expected, found, backup>>

InitializationNext ==
    \/ Identify \/ ReadConfig \/ BackUp \/ Authorize \/ Reread
    \/ WriteConfig \/ GuardAgain \/ RestartModule \/ Await \/ Meddle

-----------------------------------------------------------------------------
Next == SessionNext \/ InitializationNext
Spec == Init /\ [][Next]_vars

\* When the hub takes its session for expired, and lets another be prepared
\* or the module be restarted, the session's script is no longer running:
\* its lease is shorter and was written first.  Unless the answer to a lease
\* was lost.
\* (session.sh, moduleAudioUpdate, moduleAudioPrepare)
ExpiredHasStopped ==
    session # 0 /\ Expired /\ ~unanswered => script[session] # "ready"

\* Once all scripts have ended the module's USB functions are what they were,
\* unless one was begun before another was over, or could not stop its
\* children.
\* (session.sh cleanup, moduleAudioStop)
USBRestored ==
    /\ \A i \in Script : script[i] \in Ended
    /\ \A i \in Script : script[i] # "reboot"
    /\ ~overlapped
    => functions = "plain"

\* What the hub takes for over is over on the module, and leaves no trace.
\* (moduleAudioPrepare, moduleAudioLease, moduleAudioStop, session.sh)
SessionsEnd == ExpiredHasStopped /\ USBRestored

\* A module's persistent configuration is written only if it is the one
\* identified and what is overwritten is in a backup of it, and it is only
\* restarted if it has no call, but for what happens between the last check
\* of that and the command itself.
\* (initializeAudioADB, audioInitializationGuard, authorizeAudioADB)
InitializationIsCareful ==
    [][/\ step = "write" /\ usbcfg' # usbcfg /\ "exchanged" \notin since =>
             /\ device = expected
             /\ "altered" \notin since => <<device, usbcfg[device]>> \in backup
       /\ step = "restart" /\ step' = "await" =>
             /\ "exchanged" \notin since => device = expected
             /\ "called" \notin since => ~ringing]_vars

\* The module does not enumerate with audio under a call.  "Serialize dialing
\* with USB audio preparation/re-enumeration."
\* (callAction, moduleAudioPrepare, session.sh)
CallsSerialized ==
    [][functions' = "audio" /\ functions = "plain" => ~call]_vars
=============================================================================
