------------------------------ MODULE ModemLink ------------------------------
(***************************************************************************)
(* The command loop of internal/modem/manager.go: callers hand requests,   *)
(* with an answer channel taken from a pool, to two queues; runLoop takes  *)
(* one at a time, writes it to the serial port and waits for its answer or *)
(* its time-out; readLoop turns what the module sends into lines.  The     *)
(* module answers in order, as late as it likes.  SendSMS sends a command  *)
(* and, at the prompt, its text; it uses a channel of its own.             *)
(* An ERROR answer counts as an answer: both end the command.              *)
(***************************************************************************)
EXTENDS Naturals, Sequences, FiniteSets

CONSTANTS
    Caller,
    Pooled,      \* answer channels of the pool
    Nothing,
    Kind,        \* kinds of request: "normal", "high", "sms" (high too)
    QueueCap,    \* capacity of cmdChan and cmdChanHigh
    Threshold,   \* atTimeoutWatchdogThreshold
    MaxCalls     \* bound: calls and trouble (URCs, lost answers, read and
                 \* write errors, stops) together

\* n numbers the call.  SendSMS makes a channel of its own, named by that
\* number.
Requests ==
    {r \in [n : Nat, kind : Kind, box : Pooled \cup Nat] :
        IF r.kind = "sms" THEN r.box = r.n ELSE r.box \in Pooled}

ASSUME LinkAssumption ==
    /\ Pooled \cap Nat = {} /\ Kind \subseteq {"normal", "high", "sms"} /\ Nothing \notin Requests
    /\ Threshold \in Nat \ {0}

VARIABLES
    stop,      \* m.stop is closed; running and healthy go with it
    by,        \* who stopped it: "nobody", "owner" or "itself"
    told,      \* disconnect notifications
    loop,      \* runLoop: at its "first" or "second" select, "ended" or "panicked"
    reader,    \* readLoop: "run", "failing" (has an error to report), "dead"
    queue,     \* cmdChanHigh and cmdChan
    hand,      \* the request in handleCommand
    asked,     \* it has yet to send its text (waitPrompt)
    streak,    \* atTimeoutStreak
    rx,        \* rxChan
    wire,      \* what was written and the module has not read
    prompting, \* the command whose text the module waits for
    inbox,     \* answers in the channels
    pc, call,  \* control state and call of each caller
    order,     \* history: calls in the order they were written
    late,      \* history: calls that timed out in handleCommand
    texts,     \* history: sends whose text the module took
    unheard,   \* history: normal calls that timed out since nothing could come
    calls, trouble

link == <<stop, by, told>>
loops == <<loop, hand, asked, streak>>
module == <<reader, rx, wire, prompting>>
callers == <<pc, call>>
hist == <<order, late, texts, unheard>>
bounds == <<calls, trouble>>
vars == <<link, loops, module, queue, inbox, callers, hist, bounds>>

Request(p, k, box) == [n |-> calls + 1, kind |-> k, box |-> box]
High(r) == r.kind # "normal"
Lane(r) == IF High(r) THEN "high" ELSE "normal"

Init ==
    /\ stop = FALSE /\ by = "nobody" /\ told = 0
    /\ loop = "first" /\ reader = "run"
    /\ queue = [l \in {"high", "normal"} |-> <<>>]
    /\ hand = Nothing /\ asked = FALSE /\ streak = 0
    /\ rx = <<>> /\ wire = <<>> /\ prompting = 0 /\ inbox = {}
    /\ pc = [p \in Caller |-> "idle"] /\ call = [p \in Caller |-> Nothing]
    /\ order = <<>> /\ late = {} /\ texts = {} /\ unheard = {}
    /\ calls = 0 /\ trouble = 0

BugDoneWithOK(g) == g.t \in {"cmgs", "ok"}

\* What SendSMS takes for success: "+CMGS:" in the answer.  The final OK is
\* not part of an answer.
Done(g) == g.t = "cmgs"

Trouble == calls + trouble < MaxCalls /\ trouble' = trouble + 1

-----------------------------------------------------------------------------
\* The callers: executeAT and SendSMSWithOptions

InUse == {call[q].box : q \in {q \in Caller : pc[q] # "idle"}}

\* CanExecuteAT, then an answer channel: of the pool, or a new one.
Check(p, k) ==
    /\ pc[p] = "idle" /\ ~stop /\ calls + trouble < MaxCalls
    /\ \E box \in IF k = "sms" THEN {calls + 1} ELSE Pooled \ InUse :
         call' = [call EXCEPT ![p] = Request(p, k, box)]
    /\ calls' = calls + 1
    /\ pc' = [pc EXCEPT ![p] = "send"]
    /\ UNCHANGED <<link, loops, module, queue, inbox, hist, trouble>>

Enqueue(p) ==
    /\ pc[p] = "send"
    /\ LET l == Lane(call[p]) IN
       /\ Len(queue[l]) < QueueCap
       /\ queue' = [queue EXCEPT ![l] = Append(@, call[p])]
    /\ pc' = [pc EXCEPT ![p] = "wait"]
    /\ UNCHANGED <<link, loops, module, inbox, call, hist, bounds>>

\* The deferred function drains the channel and puts it back.
Leave(p) ==
    /\ pc' = [pc EXCEPT ![p] = "idle"]
    /\ call' = [call EXCEPT ![p] = Nothing]
    /\ inbox' = {a \in inbox : a.box # call[p].box}

\* The queue stays full, or the manager stops (SendSMS does not look).
SendFails(p) ==
    /\ pc[p] = "send"
    /\ \/ Len(queue[Lane(call[p])]) = QueueCap
       \/ stop /\ call[p].kind # "sms"
    /\ Leave(p)
    /\ UNCHANGED <<link, loops, module, queue, hist, bounds>>

Receive(p) ==
    /\ pc[p] = "wait"
    /\ \E a \in inbox : a.box = call[p].box
    /\ Leave(p)
    /\ UNCHANGED <<link, loops, module, queue, hist, bounds>>

BugGiveUpDeaf(p) ==
    /\ pc[p] = "wait" /\ call[p].kind = "sms"
    /\ \A a \in inbox : a.box # call[p].box
    /\ Leave(p)
    /\ UNCHANGED <<link, loops, module, queue, hist, bounds>>

BugGiveUpOnTimer(p) ==
    /\ pc[p] = "wait"
    /\ \A a \in inbox : a.box # call[p].box
    /\ Leave(p)
    /\ UNCHANGED <<link, loops, module, queue, hist, bounds>>

\* Nothing has come: executeAT leaves when the manager stops, SendSMS when
\* its timer fires.
GiveUp(p) ==
    /\ pc[p] = "wait" /\ (stop \/ call[p].kind = "sms")
    /\ \A a \in inbox : a.box # call[p].box
    /\ Leave(p)
    /\ UNCHANGED <<link, loops, module, queue, hist, bounds>>

-----------------------------------------------------------------------------
\* Stop, and the ways the loop stops itself

Stop ==
    /\ Trouble /\ ~stop
    /\ stop' = TRUE /\ by' = "owner"
    /\ UNCHANGED <<told, loops, module, queue, inbox, callers, hist, calls>>

\* tripATTimeoutWatchdog, handleFatalSerialRuntimeErr: only while it runs.
FailUnlessStopped ==
    /\ stop' = TRUE
    /\ by' = IF stop THEN by ELSE "itself"
    /\ told' = IF stop THEN told ELSE told + 1

-----------------------------------------------------------------------------
\* runLoop

\* The first select: high priority, stop, or go on to the second.
Second ==
    /\ loop = "first" /\ hand = Nothing
    /\ ~stop /\ queue["high"] = <<>>
    /\ loop' = "second"
    /\ UNCHANGED <<link, hand, asked, streak, module, queue, inbox, callers, hist, bounds>>

SeesStop ==
    /\ hand = Nothing /\ stop /\ loop \in {"first", "second"}
    /\ loop' = "ended"
    /\ UNCHANGED <<link, hand, asked, streak, module, queue, inbox, callers, hist, bounds>>

Answer(r, d, t) == inbox' = inbox \cup {[box |-> r.box, d |-> d, t |-> t]}

\* handleCommand writes the command; a port that is closed or gone refuses.
Take(l) ==
    /\ hand = Nothing /\ queue[l] # <<>>
    /\ loop = "second" \/ (loop = "first" /\ l = "high")
    /\ queue' = [queue EXCEPT ![l] = Tail(@)]
    /\ loop' = "first"
    /\ LET r == Head(queue[l]) IN
       \/ /\ ~stop
          /\ hand' = r /\ asked' = (r.kind = "sms")
          /\ wire' = Append(wire, [n |-> r.n, t |-> r.kind])
          /\ order' = Append(order, r.n)
          /\ UNCHANGED <<link, inbox, trouble>>
       \/ /\ IF stop THEN UNCHANGED trouble ELSE Trouble
          /\ Answer(r, 0, "error")
          /\ FailUnlessStopped \/ UNCHANGED link
          /\ UNCHANGED <<hand, asked, wire, order>>
    /\ UNCHANGED <<streak, reader, rx, prompting, callers, late, texts, unheard, calls>>

\* Idle: an error stops the manager and ends the loop; of the other lines
\* only URCs are looked at.
Idle ==
    /\ loop = "second" /\ hand = Nothing /\ rx # <<>>
    /\ rx' = Tail(rx)
    /\ IF Head(rx).t = "error"
       THEN /\ loop' = "ended"
            /\ stop' = TRUE /\ told' = told + 1
            /\ by' = IF stop THEN by ELSE "itself"
       ELSE /\ loop' = "first"
            /\ UNCHANGED link
    /\ UNCHANGED <<hand, asked, streak, reader, wire, prompting>>
    /\ UNCHANGED <<queue, inbox, callers, hist, bounds>>

\* RespLoop: the next line ends the command, unless it is a URC or the
\* prompt at which the text is sent.
Line ==
    /\ hand # Nothing /\ rx # <<>>
    /\ rx' = Tail(rx)
    /\ LET m == Head(rx)
           text == m.t = "prompt" /\ asked IN
       /\ streak' = IF m.t \in {"urc", "error"} THEN streak ELSE 0
       /\ asked' = (asked /\ ~text)
       /\ wire' = IF text /\ ~stop THEN Append(wire, [n |-> hand.n, t |-> "text"]) ELSE wire
       /\ IF m.t = "urc" \/ text THEN UNCHANGED <<hand, inbox>>
          ELSE hand' = Nothing /\ Answer(hand, m.n, m.t)
       /\ IF m.t = "error" THEN FailUnlessStopped \/ UNCHANGED link ELSE UNCHANGED link
    /\ UNCHANGED <<loop, reader, prompting, queue, callers, hist, bounds>>

\* A panic while a URC is handled, in either place: recover ends the loop,
\* and that is all; the request in hand is never answered.
LoopPanics ==
    /\ hand # Nothing \/ loop = "second"
    /\ rx # <<>> /\ Head(rx).t = "urc"
    /\ rx' = Tail(rx)
    /\ loop' = "panicked" /\ hand' = Nothing /\ asked' = FALSE
    /\ UNCHANGED <<link, streak, reader, wire, prompting, queue, inbox, callers, hist, bounds>>

BugTrips(r) == ~High(r) /\ streak >= Threshold

\* recordATTimeout: commands of high priority do not count.
Trips(r) == ~High(r) /\ streak + 1 >= Threshold

\* The request's timer: ESC, an error for the caller, the watchdog.
TimeOut ==
    /\ hand # Nothing
    /\ wire' = IF stop THEN wire ELSE Append(wire, [n |-> hand.n, t |-> "esc"])
    /\ Answer(hand, 0, "timeout")
    /\ streak' = IF High(hand) THEN streak ELSE streak + 1
    /\ IF Trips(hand) THEN FailUnlessStopped ELSE UNCHANGED link
    /\ late' = late \cup {hand.n}
    /\ unheard' = IF reader = "dead" /\ rx = <<>> /\ ~High(hand)
                  THEN unheard \cup {hand.n} ELSE unheard
    /\ hand' = Nothing /\ asked' = FALSE
    /\ UNCHANGED <<loop, reader, rx, prompting, queue, callers, order, texts, bounds>>

-----------------------------------------------------------------------------
\* readLoop and the module

Heard(n, t) == rx' = Append(rx, [n |-> n, t |-> t])

\* The module reads what was written and answers, or (trouble) does not.  At
\* the prompt a command goes into the text, which then is no message; a text
\* without a prompt is nothing.  What it does once nobody reads is left out.
ModuleReads ==
    /\ reader = "run" /\ wire # <<>>
    /\ wire' = Tail(wire)
    /\ LET w == Head(wire) IN
       \/ /\ w.t \in {"normal", "high"} /\ prompting = 0
          /\ Heard(w.n, "ok")
          /\ UNCHANGED <<prompting, texts, trouble>>
       \/ /\ w.t = "sms" /\ prompting = 0
          /\ prompting' = w.n
          /\ Heard(w.n, "prompt")
          /\ UNCHANGED <<texts, trouble>>
       \/ /\ w.t = "esc"
          /\ prompting' = 0
          /\ UNCHANGED <<rx, texts, trouble>>
       \/ /\ w.t = "text" /\ prompting = w.n
          /\ prompting' = 0
          /\ texts' = texts \cup {w.n}
          /\ Heard(w.n, "cmgs")
          /\ UNCHANGED trouble
       \/ /\ w.t = "text" /\ prompting \notin {0, w.n}
          /\ prompting' = 0
          /\ Heard(prompting, "ok")
          /\ UNCHANGED <<texts, trouble>>
       \/ /\ w.t # "esc" /\ (prompting = 0) = (w.t = "text")
          /\ UNCHANGED <<rx, prompting, texts, trouble>>
       \/ /\ w.t # "esc" /\ Trouble
          /\ UNCHANGED <<rx, prompting, texts>>
    /\ UNCHANGED <<link, loops, reader, queue, inbox, callers, order, late, unheard, calls>>

URC ==
    /\ Trouble /\ reader = "run"
    /\ Heard(0, "urc")
    /\ UNCHANGED <<link, loops, reader, wire, prompting, queue, inbox, callers, hist, calls>>

\* A read error; readLoop looks at stop before it reports it.
ReadFails ==
    /\ reader = "run"
    /\ IF stop THEN reader' = "dead" /\ UNCHANGED trouble
       ELSE reader' = "failing" /\ Trouble
    /\ UNCHANGED <<link, loops, rx, wire, prompting, queue, inbox, callers, hist, calls>>

ReportError ==
    /\ reader = "failing"
    /\ reader' = "dead"
    /\ rx' = Append(rx, [n |-> 0, t |-> "error"])
    /\ UNCHANGED <<link, loops, wire, prompting, queue, inbox, callers, hist, bounds>>

\* A panic of readLoop is recovered as well, and nobody hears of it.
ReaderPanics ==
    /\ Trouble /\ reader = "run"
    /\ reader' = "dead"
    /\ UNCHANGED <<link, loops, rx, wire, prompting, queue, inbox, callers, hist, calls>>

Next ==
    \/ \E p \in Caller :
         \/ \E k \in Kind : Check(p, k)
         \/ Enqueue(p) \/ SendFails(p) \/ Receive(p) \/ GiveUp(p)
    \/ \E l \in {"high", "normal"} : Take(l)
    \/ Stop \/ Second \/ SeesStop \/ Idle \/ Line \/ TimeOut \/ LoopPanics
    \/ ModuleReads \/ URC \/ ReadFails \/ ReportError \/ ReaderPanics

Spec == Init /\ [][Next]_vars

\* runLoop and the callers are goroutines that go on running, with timers
\* that fire.  Nothing is asked of the module and of readLoop.
Fairness ==
    /\ WF_vars(Second) /\ WF_vars(SeesStop) /\ WF_vars(Idle)
    /\ WF_vars(Line) /\ WF_vars(TimeOut)
    /\ \A l \in {"high", "normal"} : WF_vars(Take(l))
    /\ \A p \in Caller :
         WF_vars(Enqueue(p) \/ SendFails(p)) /\ WF_vars(Receive(p)) /\ WF_vars(GiveUp(p))

-----------------------------------------------------------------------------

\* A command that was never written has place 0.
Place(n) ==
    IF \E i \in DOMAIN order : order[i] = n THEN CHOOSE i \in DOMAIN order : order[i] = n ELSE 0

\* The answers callers are about to be given; d is the call they answer.
Given ==
    {[n |-> call[x[1]].n, kind |-> call[x[1]].kind, d |-> x[2].d, t |-> x[2].t] :
        x \in {y \in Caller \X inbox :
            pc[y[1]] = "wait" /\ y[2].box = call[y[1]].box /\ y[2].d # 0}}

\* A caller is given the answer to its own command.  It is given that
\* of an earlier command only as far back as commands before its own have
\* timed out: a late answer ends the next command, whose own answer then
\* comes late, until the line is idle for a moment.  After a stop a pooled
\* channel may hold anybody's answer.
\* (handleCommand, executeAT's deferred drain)
AnswersInOrder ==
    \A g \in Given :
        LET lateBefore == {n \in late : Place(n) < Place(g.n)} IN
        stop \/ Place(g.n) - Place(g.d) \in 0..Cardinality(lateBefore)

\* A send that is reported as done was done - this one, or the one whose
\* answer it was given (AnswersInOrder): "+CMGS:" comes only after a text.
\* The converse fails: a send that timed out, or met the late prompt of an
\* earlier one, may have gone out.
\* (handleCommand's prompt and ESC, SendSMSWithOptions)
SentAsReported ==
    \A g \in Given : g.kind = "sms" /\ Done(g) =>
        g.d \in texts

\* Once nothing can come from the module any more - readLoop is gone, without
\* a word if it panicked or the error met a command, and what it had read is
\* used up - no more than Threshold commands of normal priority time out
\* before the manager stops; and unless its owner was first, it has told it.
\* (recordATTimeout, resetATTimeoutWatchdog, tripATTimeoutWatchdog)
DeadLinkIsNoticed ==
    Cardinality(unheard) >= Threshold => stop /\ (by = "itself" => told > 0)

\* "CanExecuteAT 返回当前管理器是否已启动，可接受 AT 命令。": a manager that is not
\* stopped takes commands.  A recovered panic ends runLoop alone.
\* (CanExecuteAT, runLoop)
AcceptsWhatItRuns == ~stop => loop \in {"first", "second"}

\* Every call comes back, whatever the module does and wherever a stop or a
\* dead port finds it: in its own send, in a queue nobody reads any more, or in
\* the loop's hand.  Not so once a panic has ended the loop and nobody stops
\* the manager: executeAT has no timer of its own.
\* (executeAT, runLoop, handleCommand)
EveryCallReturns ==
    \A p \in Caller : (pc[p] # "idle") ~> (pc[p] = "idle" \/ (loop = "panicked" /\ ~stop))
=============================================================================
