------------------------------- MODULE MCHost -------------------------------
(* The parts of the hub's process on the host beside those of the serial    *)
(* modem, in one state space: `which` chooses the part that runs, and the   *)
(* others stand still.                                                      *)
EXTENDS MCModem

CONSTANTS
    MaxPlugs, MaxTrouble, Slot, Segments, MaxSends,
    MaxScripts, DeviceLease, HostLease, Module, MaxMeddling,
    NoFile, Card, Text, Updater, Device, Record, MaxChanges

VARIABLES
    usbModule, plugs, usbAT, on, closed, failed, port, cooling, mu, rpc, dev, failures,
    memory, book, editor, job, free, strayed, lostTo,
    sending, seg, gone, lateReport, misled, reported, logged, sends,
    handler, audioSession, lastLease, unanswered, made, script, original, lease, stopFile,
    functions, overlapped, phone,
    step, device, usbcfg, expected, savedCfg, backup, ringing, since, meddling,
    notesFile, legacy, broken, loaded, profileNotes, promised,
    config, tmp, inMemory, lock, at, copy, kept, raced,
    source, readable, rows, marker, work, changes

H == INSTANCE HostUSB WITH
    module <- usbModule, pc <- rpc, trouble <- failures, late <- lateReport, told <- reported
A == INSTANCE HostAudio WITH
    session <- audioSession, call <- phone, found <- savedCfg
F == INSTANCE HubStores

ASSUME HostConfiguration == H!HostAssumption /\ A!AudioAssumption /\ F!StoresAssumption

usb ==
    <<usbModule, plugs, usbAT, on, closed, failed, port, cooling, mu, rpc, dev, failures,
      memory, book, editor, job, free, strayed, lostTo,
      sending, seg, gone, lateReport, misled, reported, logged, sends>>

audio ==
    <<handler, audioSession, lastLease, unanswered, made, script, original, lease, stopFile,
      functions, overlapped, phone,
      step, device, usbcfg, expected, savedCfg, backup, ringing, since, meddling>>

stores ==
    <<notesFile, legacy, broken, loaded, profileNotes, promised,
      config, tmp, inMemory, lock, at, copy, kept, raced,
      source, readable, rows, marker, work, changes>>

modem == <<vars, services>>

HostParts == {"bridge", "notes", "messages", "session", "init", "profileNotes", "config", "import"}

\* The parts that stand still have one initial state.
HostInit ==
    /\ H!Init /\ A!Init /\ F!Init
    /\ which # "notes" => memory = "SM" /\ book = [m \in {"ME", "SM"} |-> [i \in Slot |-> None]]
    /\ which # "init" =>
         usbcfg = [m \in Module |-> "adb"] /\ device = CHOOSE m \in Module : TRUE
    /\ which # "profileNotes" => notesFile = NoFile /\ legacy = NoFile
    /\ which # "import" => source = {} /\ readable

Standing == which \in HostParts /\ Init /\ S!Init /\ selected = "ME"

HubInit == (MCInit \/ Standing) /\ HostInit

HostNext ==
    /\ \/ which = "bridge" /\ H!BridgeNext /\ UNCHANGED <<audio, stores>>
       \/ which = "notes" /\ H!NotesNext /\ UNCHANGED <<audio, stores>>
       \/ which = "messages" /\ H!SMSNext /\ UNCHANGED <<audio, stores>>
       \/ which = "session" /\ A!SessionNext /\ UNCHANGED <<usb, stores>>
       \/ which = "init" /\ A!InitializationNext /\ UNCHANGED <<usb, stores>>
       \/ which = "profileNotes" /\ F!NotesNext /\ UNCHANGED <<usb, audio>>
       \/ which = "config" /\ F!ConfigNext /\ UNCHANGED <<usb, audio>>
       \/ which = "import" /\ F!ImportNext /\ UNCHANGED <<usb, audio>>
    /\ UNCHANGED <<which, modem>>

HubNext ==
    \/ MCNext /\ UNCHANGED <<usb, audio, stores>>
    \/ HostNext

HubSpec == HubInit /\ [][HubNext]_<<which, modem, usb, audio, stores>>

\* HostUSB: a handle is given up only when its module is gone or failed it.
DetachHasCause == H!DetachHasCause

\* HostUSB: an SMS told or recorded as sent has gone out.
SentAsRecorded == H!SentAsRecorded

\* HostUSB: a probe of the phone book makes no note overwrite a contact.
ProbeIsSafe == H!ProbeIsSafe

\* HostAudio: what the hub takes for over is over on the module.
SessionsEnd == A!SessionsEnd

\* HostAudio: ADB is turned on only on the module identified and backed up.
InitializationIsCareful == A!InitializationIsCareful

\* HostAudio: the module does not enumerate with audio under a call.
CallsSerialized == A!CallsSerialized

\* HubStores: what a request was told is saved outlives the process.
SavedIsDurable == F!SavedIsDurable
=============================================================================
