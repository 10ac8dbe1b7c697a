----------------------------- MODULE SIMAuthReady -----------------------------
(***************************************************************************)
(* The readiness gate of internal/apduarbiter/simauth_ready.go: callers    *)
(* that need SIM authentication wait until one of them has probed the card *)
(* successfully; concurrent callers share one probe, and an invalidation   *)
(* (a profile switch, a modem reset) voids the verdict of every probe that *)
(* began before it.  a.mu is taken and dropped within one action; the      *)
(* probe runs without it.                                                  *)
(***************************************************************************)
EXTENDS Naturals, FiniteSets

CONSTANTS
    Caller,         \* callers of WaitSIMAuthReady
    MaxGeneration,  \* bound: invalidations in a behaviour
    Nil             \* no wait channel

(* What a configuration has to satisfy. *)
ASSUME ReadyAssumption == MaxGeneration \in Nat /\ Nil \notin Caller

VARIABLES
    ready,       \* simAuthReady.ready
    probing,     \* simAuthReady.probing
    generation,  \* simAuthReady.generation
    waitC,       \* simAuthReady.waitC, named by the caller that made it
    pc,          \* where each caller is
    on,          \* the wait channel each sleeper took
    woken,       \* sleepers whose channel has been closed
    begun,       \* the generation each prober read before its probe
    verdict,     \* what each running probe has found
    card,        \* external: can the card authenticate?
    owed         \* external: the card changed and no invalidation came yet

gate == <<ready, probing, generation, waitC>>

world == <<card, owed>>

vars == <<gate, pc, on, woken, begun, verdict, world>>

Init ==
    /\ ready = FALSE
    /\ probing = FALSE
    /\ generation = 0
    /\ waitC = Nil
    /\ pc = [w \in Caller |-> "idle"]
    /\ on = [w \in Caller |-> Nil]
    /\ woken = {}
    /\ begun = [w \in Caller |-> 0]
    /\ verdict = [w \in Caller |-> "none"]
    /\ card \in {"up", "down"}
    /\ owed = FALSE

Goto(w, label) == pc' = [pc EXCEPT ![w] = label]

Call(w) ==
    /\ pc[w] = "idle"
    /\ Goto(w, "entry")
    /\ UNCHANGED <<gate, on, woken, begun, verdict, world>>

ReturnReady(w) ==
    /\ pc[w] = "entry"
    /\ ready
    /\ Goto(w, "idle")
    /\ UNCHANGED <<gate, on, woken, begun, verdict, world>>

(* A probe is running: wait for its channel to close. *)
Join(w) ==
    /\ pc[w] = "entry"
    /\ ~ready
    /\ probing
    /\ on' = [on EXCEPT ![w] = waitC]
    /\ Goto(w, "asleep")
    /\ UNCHANGED <<gate, woken, begun, verdict, world>>

Wake(w) ==
    /\ pc[w] = "asleep"
    /\ w \in woken
    /\ woken' = woken \ {w}
    /\ on' = [on EXCEPT ![w] = Nil]
    /\ Goto(w, "entry")
    /\ UNCHANGED <<gate, begun, verdict, world>>

(* The caller's context is done, on entry or while it sleeps. *)
Cancel(w) ==
    /\ pc[w] \in {"entry", "asleep"}
    /\ woken' = woken \ {w}
    /\ on' = [on EXCEPT ![w] = Nil]
    /\ Goto(w, "idle")
    /\ UNCHANGED <<gate, begun, verdict, world>>

StartProbe(w) ==
    /\ pc[w] = "entry"
    /\ ~ready
    /\ ~probing
    /\ probing' = TRUE
    /\ waitC' = w
    /\ begun' = [begun EXCEPT ![w] = generation]
    /\ verdict' = [verdict EXCEPT ![w] = "none"]
    /\ Goto(w, "probing")
    /\ UNCHANGED <<ready, generation, on, woken, world>>

(* The probe looks at the card (external: the caller's probe function). *)
Observe(w) ==
    /\ pc[w] = "probing"
    /\ verdict[w] = "none"
    /\ verdict' = [verdict EXCEPT ![w] = IF card = "up" THEN "ok" ELSE "failed"]
    /\ UNCHANGED <<gate, pc, on, woken, begun, world>>

(* The probe gives up: its context is done. *)
ProbeCancelled(w) ==
    /\ pc[w] = "probing"
    /\ verdict[w] = "none"
    /\ verdict' = [verdict EXCEPT ![w] = "cancelled"]
    /\ UNCHANGED <<gate, pc, on, woken, begun, world>>

Stale(w) == generation # begun[w]

CloseChannel(w) ==
    IF waitC = w
    THEN /\ woken' = woken \cup {v \in Caller : pc[v] = "asleep" /\ on[v] = w}
         /\ waitC' = Nil
    ELSE UNCHANGED <<woken, waitC>>

(* What the prober remembered of its probe goes out of scope. *)
AfterProbe(w) ==
    /\ Goto(w, IF verdict[w] = "ok" /\ Stale(w) THEN "entry" ELSE "idle")
    /\ begun' = [begun EXCEPT ![w] = 0]
    /\ verdict' = [verdict EXCEPT ![w] = "none"]

BugFinishIgnoresGeneration(w) ==
    /\ pc[w] = "probing"
    /\ verdict[w] # "none"
    /\ ready' = (verdict[w] = "ok")
    /\ CloseChannel(w)
    /\ probing' = FALSE
    /\ AfterProbe(w)
    /\ UNCHANGED <<generation, on, world>>

(* The prober records a verdict that is not stale, wakes the others, and   *)
(* returns; a success that has become stale sends it round the loop.       *)
FinishProbe(w) ==
    /\ pc[w] = "probing"
    /\ verdict[w] # "none"
    /\ ready' = IF Stale(w) THEN ready ELSE verdict[w] = "ok"
    /\ CloseChannel(w)
    /\ probing' = FALSE
    /\ AfterProbe(w)
    /\ UNCHANGED <<generation, on, world>>

(* External: the profile is switched or the modem resets.  The program     *)
(* learns of it and calls InvalidateSIMAuthReady, some time later.         *)
CardChanges ==
    /\ generation < MaxGeneration
    /\ ~owed
    /\ card' \in {"up", "down"} \ {card}
    /\ owed' = TRUE
    /\ UNCHANGED <<gate, pc, on, woken, begun, verdict>>

InvalidateSIMAuthReady ==
    /\ generation < MaxGeneration
    /\ generation' = generation + 1
    /\ ready' = FALSE
    /\ owed' = FALSE
    /\ UNCHANGED <<probing, waitC, pc, on, woken, begun, verdict, card>>

Next ==
    \/ \E w \in Caller :
        \/ Call(w)
        \/ ReturnReady(w)
        \/ Join(w)
        \/ Wake(w)
        \/ Cancel(w)
        \/ StartProbe(w)
        \/ Observe(w)
        \/ ProbeCancelled(w)
        \/ FinishProbe(w)
    \/ CardChanges
    \/ InvalidateSIMAuthReady

Spec == Init /\ [][Next]_vars

(* Probes end (their context is bounded), the program hears of a change of  *)
(* the card, and the mutex goes to whoever waits for it.  Callers need not *)
(* give up, nor call.                                                      *)
LiveSpec ==
    /\ Spec
    /\ WF_vars(InvalidateSIMAuthReady /\ owed)
    /\ \A w \in Caller :
          /\ WF_vars(ReturnReady(w) \/ Join(w) \/ StartProbe(w))
          /\ WF_vars(Wake(w))
          /\ WF_vars(Observe(w))
          /\ WF_vars(FinishProbe(w))
-----------------------------------------------------------------------------
(* The gate's fields and the callers' places have their types, and there   *)
(* is a channel to wait on exactly while a probe is running.               *)
TypeOK ==
    /\ ready \in BOOLEAN /\ probing \in BOOLEAN
    /\ generation \in 0 .. MaxGeneration
    /\ waitC \in Caller \cup {Nil} /\ (waitC # Nil <=> probing)
    /\ pc \in [Caller -> {"idle", "entry", "asleep", "probing"}]
    /\ on \in [Caller -> Caller \cup {Nil}]
    /\ woken \subseteq Caller
    /\ begun \in [Caller -> 0 .. MaxGeneration]
    /\ verdict \in [Caller -> {"none", "ok", "failed", "cancelled"}]
    /\ card \in {"up", "down"} /\ owed \in BOOLEAN

(* The gate never lies: once the program has heard of the last change of   *)
(* the card, an open gate means the card can authenticate, whatever the    *)
(* probe that overlapped the change found before it.                       *)
ReadyIsTrue == ready /\ ~owed => card = "up"

(* Concurrent callers are coalesced: at most one probe talks to the card,  *)
(* and the flag says whether one does.                                     *)
OneProbe ==
    /\ Cardinality({w \in Caller : pc[w] = "probing"}) <= 1
    /\ probing <=> \E w \in Caller : pc[w] = "probing"

(* Once the card stays able to authenticate, and callers stop giving up in *)
(* the middle of the probes they run for all, every caller comes through.  *)
EverybodyReturns ==
    <>[](card = "up") /\ <>[][\A w \in Caller : ~ProbeCancelled(w)]_vars =>
        \A w \in Caller : (pc[w] \in {"entry", "asleep"}) ~> (pc[w] = "idle")

(* The gate coalesces its callers, never lies and lets them through.       *)
GateWorks == [](TypeOK /\ ReadyIsTrue /\ OneProbe) /\ EverybodyReturns
=============================================================================
