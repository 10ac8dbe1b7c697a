------------------------------- MODULE HostUSB -------------------------------
(***************************************************************************)
(* cmd/dj4ghub-macos, its USB AT side.  Three parts that are checked one   *)
(* at a time: the bridge, a libusb handle that requests open, share and    *)
(* give up as the module comes and goes, and the commands on it; the       *)
(* profile notes in the module's phone book, behind AT+CPBS, a selection   *)
(* that every client of the module shares; and sending SMS with its entry  *)
(* in the history.                                                         *)
(***************************************************************************)
EXTENDS Naturals, Sequences, FiniteSets

CONSTANTS
    Caller, None,
    MaxPlugs,     \* bound: enumerations of a module
    MaxTrouble,   \* bound: commands that go wrong
    Slot,         \* indexes of the module's and of the card's phone book
    Segments,     \* bound: segments of an SMS
    MaxSends      \* bound: SMS

\* What a configuration has to satisfy.
HostAssumption == None \notin Caller \cup {"contact", "note", "sent", "failed", "unsaved"}

VARIABLES
    module, plugs, \* the enumeration that is plugged in, or 0; their number
    usbAT,        \* app.usbAT: a handle, or 0
    on, closed, failed, \* handles: their enumeration; those closed, those that failed
    port,         \* app.port: "absent" or "bridge"
    cooling,      \* usbATBackoffUntil is to come
    mu,           \* usbAT.mu: who has a command on the handle that is not closed
    pc, dev,      \* requests: control state, the handle they use
    trouble,
    memory,       \* AT+CPBS: "ME" or "SM"
    book,         \* phone books: "contact", "note" or None by index
    editor, job, free, \* who holds moduleNotesMu; its state, the index it found
    strayed,      \* history: who was at the phone book since the editor's AT+CPBS
    lostTo,       \* history: that, whenever a note took the place of a contact
    sending, seg, \* sendUSBATSMS: state, segments done
    gone,         \* history: segments of this SMS the network has
    late,         \* the report of a segment that timed out is to come
    misled,       \* history: it was taken for the one of a later segment
    told, logged, \* what the request was told, what the history says
    sends

bridge == <<module, plugs, usbAT, on, closed, failed, port, cooling, mu, pc, dev, trouble>>
notes == <<memory, book, editor, job, free, strayed, lostTo>>
sms == <<sending, seg, gone, late, misled, told, logged, sends>>
vars == <<bridge, notes, sms>>

Handle == 1..Len(on)

Init ==
    /\ module = 0 /\ plugs = 0 /\ usbAT = 0 /\ on = <<>> /\ closed = {} /\ failed = {}
    /\ port = "absent" /\ cooling = FALSE /\ mu = None /\ trouble = 0
    /\ pc = [c \in Caller |-> "idle"] /\ dev = [c \in Caller |-> 0]
    /\ memory \in {"ME", "SM"}
    /\ book \in [{"ME", "SM"} -> [Slot -> {"contact", None}]]
    /\ editor = None /\ job = "idle" /\ free = 0 /\ strayed = {} /\ lostTo = {}
    /\ sending = "idle" /\ seg = 0 /\ gone = 0 /\ late = FALSE /\ misled = FALSE /\ told = None /\ logged = None /\ sends = 0

-----------------------------------------------------------------------------
\* The module

Plug ==
    /\ module = 0 /\ plugs < MaxPlugs
    /\ plugs' = plugs + 1 /\ module' = plugs + 1
    /\ UNCHANGED <<usbAT, on, closed, failed, port, cooling, mu, pc, dev, trouble, notes, sms>>

Unplug ==
    /\ module # 0 /\ module' = 0
    /\ UNCHANGED <<plugs, usbAT, on, closed, failed, port, cooling, mu, pc, dev, trouble, notes, sms>>

-----------------------------------------------------------------------------
\* The bridge

Goto(c, p) == pc' = [pc EXCEPT ![c] = p]

\* A request, or the poller: ensureUSBAT looks for a module unless there is a
\* handle; status also looks whether the handle's module is still there.
Start(c) ==
    /\ pc[c] = "idle"
    /\ \/ usbAT # 0 /\ Goto(c, "use") /\ UNCHANGED dev
       \/ usbAT # 0 /\ module = 0 /\ Goto(c, "detach") /\ dev' = [dev EXCEPT ![c] = usbAT]
       \/ usbAT = 0 /\ Goto(c, IF module = 0 THEN "absent" ELSE "open") /\ UNCHANGED dev
    /\ UNCHANGED <<module, plugs, usbAT, on, closed, failed, port, cooling, mu, trouble, notes, sms>>

\* It found none; another request may have opened one since.
Absent(c) ==
    /\ pc[c] = "absent"
    /\ IF usbAT # 0 THEN Goto(c, "use") /\ UNCHANGED port
       ELSE Goto(c, "idle") /\ port' = "absent"
    /\ UNCHANGED <<module, plugs, usbAT, on, closed, failed, cooling, mu, dev, trouble, notes, sms>>

\* Only one handle can claim the interface.
Claimable == module # 0 /\ \A h \in Handle : on[h] = module => h \in closed

\* openDJIUSBAT, which probes with AT, under usbStateMu.
Open(c) ==
    /\ pc[c] = "open" /\ usbAT = 0 /\ ~cooling /\ Claimable
    /\ on' = Append(on, module) /\ usbAT' = Len(on')
    /\ port' = "bridge" /\ Goto(c, "use")
    /\ UNCHANGED <<module, plugs, closed, failed, cooling, mu, dev, trouble, notes, sms>>

OpenRefused(c) ==
    /\ pc[c] = "open"
    /\ Goto(c, IF usbAT # 0 THEN "use" ELSE "idle")
    /\ \/ (usbAT # 0 \/ cooling \/ ~Claimable) /\ UNCHANGED trouble
       \/ trouble < MaxTrouble /\ trouble' = trouble + 1
    /\ UNCHANGED <<module, plugs, usbAT, on, closed, failed, port, cooling, mu, dev, notes, sms>>

CoolDown ==
    /\ cooling /\ cooling' = FALSE
    /\ UNCHANGED <<module, plugs, usbAT, on, closed, failed, port, mu, pc, dev, trouble, notes, sms>>

\* currentUSBAT.
Use(c) ==
    /\ pc[c] = "use"
    /\ dev' = [dev EXCEPT ![c] = usbAT]
    /\ Goto(c, IF usbAT = 0 THEN "idle" ELSE "command")
    /\ UNCHANGED <<module, plugs, usbAT, on, closed, failed, port, cooling, mu, trouble, notes, sms>>

\* Command takes the handle's lock, drains what an earlier one left, writes.
Write(c) ==
    /\ pc[c] = "command"
    /\ IF dev[c] \in closed
       THEN Goto(c, "idle") /\ UNCHANGED <<mu, failed>>
       ELSE /\ mu = None
            /\ IF on[dev[c]] = module
               THEN mu' = c /\ Goto(c, "read") /\ UNCHANGED failed
               ELSE failed' = failed \cup {dev[c]} /\ Goto(c, "detach") /\ UNCHANGED mu
    /\ UNCHANGED <<module, plugs, usbAT, on, closed, port, cooling, dev, trouble, notes, sms>>

Read(c) ==
    /\ pc[c] = "read" /\ on[dev[c]] = module
    /\ mu' = None /\ Goto(c, "idle") /\ dev' = [dev EXCEPT ![c] = 0]
    /\ UNCHANGED <<module, plugs, usbAT, on, closed, failed, port, cooling, trouble, notes, sms>>

\* Without any data a time-out is an error that gives the handle up; with
\* part of the answer it is that part, without an error, and another libusb
\* error is none that gives it up: both are like Read.
TimedOut(c) ==
    /\ pc[c] = "read" /\ trouble < MaxTrouble
    /\ trouble' = trouble + 1 /\ mu' = None
    /\ failed' = failed \cup {dev[c]} /\ Goto(c, "detach")
    /\ UNCHANGED <<module, plugs, usbAT, on, closed, port, cooling, dev, notes, sms>>

NoDevice(c) ==
    /\ pc[c] = "read" /\ on[dev[c]] # module
    /\ mu' = None /\ failed' = failed \cup {dev[c]} /\ Goto(c, "detach")
    /\ UNCHANGED <<module, plugs, usbAT, on, closed, port, cooling, dev, trouble, notes, sms>>

BugExpected(c) == usbAT # 0
Expected(c) == usbAT = dev[c]

\* markUSBATDetachedForDevice: only if it is still the current handle.  Close
\* waits for the handle's command, and then tells the eSIM manager.
Detach(c) ==
    /\ pc[c] = "detach"
    /\ IF Expected(c)
       THEN /\ usbAT' = 0 /\ port' = "absent" /\ cooling' = TRUE
            /\ dev' = [dev EXCEPT ![c] = usbAT] /\ Goto(c, "close")
       ELSE /\ dev' = [dev EXCEPT ![c] = 0] /\ Goto(c, "idle")
            /\ UNCHANGED <<usbAT, port, cooling>>
    /\ UNCHANGED <<module, plugs, on, closed, failed, mu, trouble, notes, sms>>

BugReleased(c) == closed
Released(c) == closed \cup {dev[c]}

Close(c) ==
    /\ pc[c] = "close" /\ (mu # None => dev[mu] # dev[c])
    /\ closed' = Released(c) /\ dev' = [dev EXCEPT ![c] = 0] /\ Goto(c, "idle")
    /\ UNCHANGED <<module, plugs, usbAT, on, failed, port, cooling, mu, trouble, notes, sms>>

Request(c) ==
    \/ Start(c) \/ Absent(c) \/ Open(c) \/ OpenRefused(c) \/ Use(c) \/ Write(c)
    \/ Read(c) \/ TimedOut(c) \/ NoDevice(c) \/ Detach(c) \/ Close(c)

BridgeNext == Plug \/ Unplug \/ CoolDown \/ \E c \in Caller : Request(c)

-----------------------------------------------------------------------------
\* Profile notes in the module's phone book.  Each command can find others
\* between it and the one before: moduleNotesMu is only of these handlers.

NoteEnds == editor' = None /\ job' = "idle" /\ free' = 0 /\ strayed' = {}

\* runATOK: an error, an answer that is none of OK, or a refusal of its own.
Refused ==
    /\ editor # None /\ NoteEnds
    /\ UNCHANGED <<memory, book, lostTo, bridge, sms>>

\* readModuleESIMNotes: AT+CPBS="ME" ...
SelectME(c) ==
    /\ editor = None /\ editor' = c
    /\ memory' = "ME" /\ job' = "status" /\ strayed' = {}
    /\ UNCHANGED <<book, free, lostTo, bridge, sms>>

Empty(b) == \A i \in Slot : b[i] = None

\* ... AT+CPBS?, refused if it says another memory; of an empty one nothing
\* is read ...
CheckME ==
    /\ job = "status" /\ memory = "ME"
    /\ IF Empty(book["ME"]) THEN job' = "write" /\ free' = 1
       ELSE job' = "list" /\ UNCHANGED free
    /\ UNCHANGED <<memory, book, editor, strayed, lostTo, bridge, sms>>

\* ... AT+CPBR, what the memory then holds.  An own note is replaced or
\* erased, or else the first index that is free taken.  (A list ends here.)
ReadBook ==
    /\ job = "list"
    /\ \E i \in Slot :
         /\ free' = i
         /\ \/ book[memory][i] = "note" /\ job' \in {"write", "erase"}
            \/ /\ book[memory][i] = None /\ job' = "write"
               /\ \A k \in 1..i - 1 : book[memory][k] # None
    /\ UNCHANGED <<memory, book, editor, strayed, lostTo, bridge, sms>>

\* AT+CPBW, of the note or of nothing, into the memory that is selected now.
WriteBook ==
    /\ job \in {"write", "erase"}
    /\ book' = [book EXCEPT ![memory][free] = IF job = "write" THEN "note" ELSE None]
    /\ lostTo' = IF book[memory][free] = "contact" THEN lostTo \cup {strayed} ELSE lostTo
    /\ NoteEnds
    /\ UNCHANGED <<memory, bridge, sms>>

\* The others, of whom the notes' handlers know nothing.
By(who) == strayed' = IF editor = None THEN {} ELSE strayed \cup {who}

\* probeESIMPhonebook selects the card's phone book.
Probe ==
    /\ memory' = "SM" /\ By("probe")
    /\ UNCHANGED <<book, editor, job, free, lostTo, bridge, sms>>

\* The AT console can select, write and erase what it likes; a restart of
\* the module selects too.
Console ==
    /\ By("console")
    /\ \/ memory' \in {"ME", "SM"} /\ UNCHANGED book
       \/ \E i \in Slot, e \in {"contact", None} :
            book' = [book EXCEPT ![memory][i] = e] /\ UNCHANGED memory
    /\ UNCHANGED <<editor, job, free, lostTo, bridge, sms>>

NotesNext ==
    \/ Refused \/ CheckME \/ ReadBook \/ WriteBook \/ Probe \/ Console
    \/ \E c \in Caller : SelectME(c)

-----------------------------------------------------------------------------
\* SMS, under smsSendMu.

\* AT+CMGF=0, or an error before anything is sent.
Send ==
    /\ sending = "idle" /\ sends < MaxSends /\ sends' = sends + 1
    /\ sending' \in {"segment", "failed"}
    /\ seg' = 0 /\ gone' = 0 /\ told' = None /\ logged' = None /\ misled' = FALSE
    /\ UNCHANGED <<late, bridge, notes>>

BugAccepted == {"ok", "unknown"}
Accepted == {"ok"}

\* CommandWithPrompt: a segment can go out without an answer that says so,
\* and the rest is then not sent.  A report that comes 45 s late is read as
\* the one of what is sent at the time.
Segment ==
    /\ sending = "segment"
    /\ \E answer \in {"ok", "unknown", "error"} :
         /\ \/ /\ answer # "error" /\ gone' = gone + 1
               /\ late' = (late \/ answer = "unknown") /\ UNCHANGED misled
            \/ answer # "ok" /\ UNCHANGED <<gone, late, misled>>
            \/ answer = "ok" /\ late /\ late' = FALSE /\ misled' = TRUE /\ gone' \in {gone, gone + 1}
         /\ IF answer \in Accepted
            THEN seg' = seg + 1 /\ sending' = IF seg' = Segments THEN "sent" ELSE "segment"
            ELSE UNCHANGED seg /\ sending' = "failed"
    /\ UNCHANGED <<told, logged, sends, bridge, notes>>

\* drainLocked, or a command that takes it for its own.
LateDropped ==
    /\ late /\ late' = FALSE
    /\ UNCHANGED <<sending, seg, gone, misled, told, logged, sends, bridge, notes>>

\* appendHistory, whatever came of it; if that fails, the request is told
\* not to send again.
Log ==
    /\ sending \in {"sent", "failed"}
    /\ \/ logged' = sending /\ told' = sending
       \/ UNCHANGED logged /\ told' = "unsaved"
    /\ sending' = "idle"
    /\ UNCHANGED <<seg, gone, late, misled, sends, bridge, notes>>

SMSNext == Send \/ Segment \/ LateDropped \/ Log

-----------------------------------------------------------------------------
Next == BridgeNext \/ NotesNext \/ SMSNext

Spec == Init /\ [][Next]_vars

\* The back-off passes; the poller and the clients' status requests keep
\* coming, and a request goes on.
LiveSpec ==
    /\ Spec
    /\ WF_vars(CoolDown)
    /\ \A c \in Caller : WF_vars(Request(c))

-----------------------------------------------------------------------------

\* A handle is given up only when its module is gone or a command on it
\* failed: never for an error of the handle before it, which a slow request
\* may report after a new one was opened.  And what the port says is what
\* there is.
\* (markUSBATDetachedForDevice, resetUSBATIfGoneForDevice, ensureUSBAT)
DetachHasCause ==
    /\ \A h \in closed : h \in failed \/ on[h] # module
    /\ usbAT \notin closed
    /\ port = "bridge" <=> usbAT # 0

\* Once modules no longer come and go and commands no longer time out, a
\* module that is there has the bridge: a stale handle is noticed, given up
\* and replaced.
\* (ensureUSBAT, status, startSMSPoller)
ModuleIsFound == <>[](module # 0 => usbAT # 0 /\ on[usbAT] = module)

\* The probe of the phone book is safe: with nobody else at it, no note takes
\* the place of a contact because a probe ran meanwhile.
\* (probeESIMPhonebook, readModuleESIMNotes, saveModuleESIMNote)
ProbeIsSafe == {"probe"} \notin lostTo

\* An SMS reported, or recorded, as sent has gone out in full, unless a late
\* report was taken for one of it; and whatever part has gone out is recorded,
\* or the request told not to repeat it.
\* (sendSMS, sendUSBATSMS, CommandWithPrompt)
SentAsRecorded ==
    /\ "sent" \in {told, logged} => gone = Segments \/ misled
    /\ told # None /\ gone > 0 => logged # None \/ told = "unsaved"
=============================================================================
