-------------------------- MODULE SIMAuthReadyProofs --------------------------
(***************************************************************************)
(* Proofs about the readiness gate, for any callers and any number of      *)
(* invalidations.                                                          *)
(***************************************************************************)
EXTENDS SIMAuthReady, FiniteSetTheorems, TLAPS

(* Who probes is named by the channel in the gate; a verdict that is not   *)
(* stale is about the card that is there, unless its change has yet to be  *)
(* reported.                                                               *)
ProbeInv ==
    /\ \A w \in Caller : pc[w] = "probing" => waitC = w
    /\ waitC # Nil => pc[waitC] = "probing"
    /\ \A w \in Caller : pc[w] = "probing" => begun[w] <= generation
    /\ \A w \in Caller :
          pc[w] = "probing" /\ verdict[w] = "ok" /\ ~Stale(w) /\ ~owed => card = "up"

GateInv == TypeOK /\ ReadyIsTrue /\ ProbeInv

(* Steps that leave the gate, its probers and the card alone.              *)
LEMMA CallerStep ==
    ASSUME GateInv, NEW w \in Caller,
           Call(w) \/ ReturnReady(w) \/ Join(w) \/ Wake(w) \/ Cancel(w)
    PROVE  GateInv'
<1>1. /\ UNCHANGED <<gate, begun, verdict, world>> /\ pc[w] # "probing"
      /\ \E label \in {"idle", "entry", "asleep"} : pc' = [pc EXCEPT ![w] = label]
  BY DEF Call, ReturnReady, Join, Wake, Cancel, Goto
<1>2. PICK label \in {"idle", "entry", "asleep"} : pc' = [pc EXCEPT ![w] = label]
  BY <1>1
<1>3. /\ pc \in [Caller -> {"idle", "entry", "asleep", "probing"}]
      /\ on \in [Caller -> Caller \cup {Nil}] /\ woken \subseteq Caller
      /\ waitC \in Caller \cup {Nil}
  BY DEF GateInv, TypeOK
<1>4. on' \in [Caller -> Caller \cup {Nil}] /\ woken' \subseteq Caller
  BY <1>3 DEF Call, ReturnReady, Join, Wake, Cancel
<1>5. pc' \in [Caller -> {"idle", "entry", "asleep", "probing"}]
  BY <1>2, <1>3
<1>6. TypeOK'
  BY <1>1, <1>4, <1>5 DEF GateInv, TypeOK, gate, world
<1>7. \A v \in Caller : pc'[v] = "probing" <=> pc[v] = "probing"
  BY <1>1, <1>2, <1>3
<1>8. ProbeInv'
  <2>1. waitC # Nil => pc'[waitC] = "probing"
    BY <1>3, <1>7 DEF GateInv, ProbeInv
  <2>2. QED
    BY <1>1, <1>7, <2>1 DEF GateInv, ProbeInv, Stale, gate, world
<1>9. QED
  BY <1>1, <1>6, <1>8 DEF GateInv, ReadyIsTrue, gate, world

(* A probe begins, looks at the card, or gives up.                         *)
LEMMA ProbeStep ==
    ASSUME GateInv, NEW w \in Caller,
           StartProbe(w) \/ Observe(w) \/ ProbeCancelled(w)
    PROVE  GateInv'
<1>t. TypeOK /\ ReadyIsTrue /\ Nil \notin Caller /\ generation \in Nat
  BY ReadyAssumption DEF GateInv, TypeOK
<1>1. CASE StartProbe(w)
  <2>1. /\ ~probing /\ probing' = TRUE /\ waitC' = w
        /\ begun' = [begun EXCEPT ![w] = generation]
        /\ verdict' = [verdict EXCEPT ![w] = "none"]
        /\ pc' = [pc EXCEPT ![w] = "probing"]
        /\ UNCHANGED <<ready, generation, on, woken, card, owed>>
    BY <1>1 DEF StartProbe, Goto, world
  <2>2. \A v \in Caller : pc[v] # "probing"
    BY <1>t, <2>1 DEF GateInv, ProbeInv, TypeOK
  <2>3. begun' \in [Caller -> 0 .. MaxGeneration] /\ begun'[w] = generation
    BY <1>t, <2>1 DEF TypeOK
  <2>4. /\ verdict' \in [Caller -> {"none", "ok", "failed", "cancelled"}] /\ verdict'[w] = "none"
        /\ pc' \in [Caller -> {"idle", "entry", "asleep", "probing"}] /\ pc'[w] = "probing"
    BY <1>t, <2>1 DEF TypeOK
  <2>5. TypeOK'
    BY <1>t, <2>1, <2>3, <2>4 DEF TypeOK
  <2>6. \A v \in Caller : pc'[v] = "probing" => v = w
    BY <1>t, <2>1, <2>2 DEF TypeOK
  <2>7. ProbeInv'
    BY <1>t, <2>1, <2>3, <2>4, <2>6 DEF ProbeInv
  <2>8. QED
    BY <1>t, <2>1, <2>5, <2>7 DEF GateInv, ReadyIsTrue
<1>2. CASE Observe(w) \/ ProbeCancelled(w)
  <2>1. /\ pc[w] = "probing" /\ UNCHANGED <<gate, pc, on, woken, begun, world>>
        /\ \E found \in {"ok", "failed", "cancelled"} :
             verdict' = [verdict EXCEPT ![w] = found] /\ (found = "ok" => card = "up")
    BY <1>2 DEF Observe, ProbeCancelled
  <2>2. PICK found \in {"ok", "failed", "cancelled"} :
          verdict' = [verdict EXCEPT ![w] = found] /\ (found = "ok" => card = "up")
    BY <2>1
  <2>3. /\ verdict' \in [Caller -> {"none", "ok", "failed", "cancelled"}]
        /\ verdict'[w] = found /\ \A v \in Caller : v # w => verdict'[v] = verdict[v]
    BY <1>t, <2>2 DEF TypeOK
  <2>4. TypeOK'
    BY <1>t, <2>1, <2>3 DEF TypeOK, gate, world
  <2>5. ProbeInv'
    BY <2>1, <2>2, <2>3 DEF GateInv, ProbeInv, Stale, gate, world
  <2>6. QED
    BY <1>t, <2>1, <2>4, <2>5 DEF GateInv, ReadyIsTrue, gate, world
<1>3. QED
  BY <1>1, <1>2

(* A probe ends: it closes its own channel, and its verdict counts if no   *)
(* invalidation came since it began.                                       *)
LEMMA FinishStep ==
    ASSUME GateInv, NEW w \in Caller, FinishProbe(w)
    PROVE  GateInv'
<1>1. /\ pc[w] = "probing" /\ probing' = FALSE
      /\ ready' = IF Stale(w) THEN ready ELSE verdict[w] = "ok"
      /\ \E label \in {"entry", "idle"} : pc' = [pc EXCEPT ![w] = label]
      /\ begun' = [begun EXCEPT ![w] = 0] /\ verdict' = [verdict EXCEPT ![w] = "none"]
      /\ UNCHANGED <<generation, on, card, owed>>
  BY DEF FinishProbe, AfterProbe, Goto, world
<1>2. PICK label \in {"entry", "idle"} : pc' = [pc EXCEPT ![w] = label]
  BY <1>1
<1>t. TypeOK /\ ReadyIsTrue /\ Nil \notin Caller
  BY ReadyAssumption DEF GateInv
<1>3. waitC = w /\ \A v \in Caller : pc[v] = "probing" => v = w
  BY <1>1 DEF GateInv, ProbeInv
<1>4. waitC' = Nil /\ woken' \subseteq Caller
  BY <1>t, <1>3 DEF FinishProbe, CloseChannel, TypeOK
<1>5. /\ pc' \in [Caller -> {"idle", "entry", "asleep", "probing"}]
      /\ \A v \in Caller : pc'[v] # "probing"
  BY <1>t, <1>2, <1>3 DEF TypeOK
<1>6. begun' \in [Caller -> 0 .. MaxGeneration]
  <2>1. 0 \in 0 .. MaxGeneration
    BY ReadyAssumption
  <2>2. QED
    BY <1>t, <1>1, <2>1 DEF TypeOK
<1>7. verdict' \in [Caller -> {"none", "ok", "failed", "cancelled"}]
  BY <1>t, <1>1 DEF TypeOK
<1>8. ready' \in BOOLEAN
  BY <1>t, <1>1 DEF TypeOK
<1>9. TypeOK'
  BY <1>t, <1>1, <1>4, <1>5, <1>6, <1>7, <1>8 DEF TypeOK
<1>10. ReadyIsTrue'
  <2>1. CASE Stale(w)
    BY <1>t, <1>1, <2>1 DEF ReadyIsTrue
  <2>2. CASE ~Stale(w)
    BY <1>1, <2>2 DEF GateInv, ProbeInv, ReadyIsTrue
  <2>3. QED
    BY <2>1, <2>2
<1>11. ProbeInv'
  BY <1>4, <1>5 DEF ProbeInv
<1>12. QED
  BY <1>9, <1>10, <1>11 DEF GateInv

(* The card changes, or the program hears of it.                           *)
LEMMA WorldStep ==
    ASSUME GateInv, CardChanges \/ InvalidateSIMAuthReady
    PROVE  GateInv'
<1>t. /\ TypeOK /\ ProbeInv /\ generation \in Nat /\ MaxGeneration \in Nat
      /\ \A w \in Caller : begun[w] \in Nat
  BY ReadyAssumption DEF GateInv, TypeOK
<1>1. CASE CardChanges
  <2>1. card' \in {"up", "down"} /\ owed' = TRUE /\ UNCHANGED <<gate, pc, on, woken, begun, verdict>>
    BY <1>1 DEF CardChanges
  <2>2. QED
    BY <1>t, <2>1 DEF GateInv, TypeOK, ReadyIsTrue, ProbeInv, gate
<1>2. CASE InvalidateSIMAuthReady
  <2>1. /\ generation < MaxGeneration /\ generation' = generation + 1 /\ ready' = FALSE /\ owed' = FALSE
        /\ UNCHANGED <<probing, waitC, pc, on, woken, begun, verdict, card>>
    BY <1>2 DEF InvalidateSIMAuthReady
  <2>2. generation' \in 0 .. MaxGeneration
    BY <1>t, <2>1
  <2>3. TypeOK'
    BY <1>t, <2>1, <2>2 DEF TypeOK
  <2>4. \A w \in Caller : pc[w] = "probing" => begun[w] <= generation' /\ begun[w] # generation'
    BY <1>t, <2>1 DEF ProbeInv
  <2>5. ProbeInv'
    BY <1>t, <2>1, <2>4 DEF ProbeInv, Stale
  <2>6. QED
    BY <2>1, <2>3, <2>5 DEF GateInv, ReadyIsTrue
<1>3. QED
  BY <1>1, <1>2

(* The gate coalesces its callers and never lies, whatever is invalidated  *)
(* during whichever probe.                                                 *)
THEOREM GateHolds == Spec => [](TypeOK /\ ReadyIsTrue /\ OneProbe)
<1>1. Init => GateInv
  <2>1. ASSUME Init
        PROVE  GateInv
    <3>1. 0 \in 0 .. MaxGeneration
      BY ReadyAssumption
    <3>2. TypeOK
      BY <2>1, <3>1 DEF Init, TypeOK
    <3>3. ReadyIsTrue /\ ProbeInv
      BY <2>1 DEF Init, ReadyIsTrue, ProbeInv
    <3>4. QED
      BY <3>2, <3>3 DEF GateInv
  <2>2. QED
    BY <2>1
<1>2. GateInv /\ [Next]_vars => GateInv'
  <2>1. ASSUME GateInv, UNCHANGED vars
        PROVE  GateInv'
    BY <2>1 DEF vars, gate, world, GateInv, TypeOK, ReadyIsTrue, ProbeInv, Stale
  <2>2. ASSUME GateInv, Next
        PROVE  GateInv'
    BY <2>2, CallerStep, ProbeStep, FinishStep, WorldStep, Zenon DEF Next
  <2>3. QED
    BY <2>1, <2>2
<1>3. GateInv => TypeOK /\ ReadyIsTrue /\ OneProbe
  <2>1. ASSUME GateInv
        PROVE  OneProbe
    <3>1. CASE waitC = Nil
      <4>1. {w \in Caller : pc[w] = "probing"} = {}
        BY <2>1, <3>1, ReadyAssumption DEF GateInv, ProbeInv
      <4>2. Cardinality({w \in Caller : pc[w] = "probing"}) = 0
        BY <4>1, FS_EmptySet
      <4>3. QED
        BY <2>1, <3>1, <4>1, <4>2 DEF GateInv, TypeOK, OneProbe
    <3>2. CASE waitC # Nil
      <4>1. waitC \in Caller /\ probing /\ pc[waitC] = "probing"
        BY <2>1, <3>2 DEF GateInv, TypeOK, ProbeInv
      <4>2. {w \in Caller : pc[w] = "probing"} = {waitC}
        BY <2>1, <4>1, ReadyAssumption DEF GateInv, ProbeInv
      <4>3. Cardinality({w \in Caller : pc[w] = "probing"}) = 1
        BY <4>2, FS_Singleton
      <4>4. QED
        BY <4>1, <4>3 DEF OneProbe
    <3>3. QED
      BY <3>1, <3>2
  <2>2. QED
    BY <2>1 DEF GateInv
<1>4. QED
  BY <1>1, <1>2, <1>3, PTL DEF Spec
=============================================================================
