----------------------------- MODULE EsimProofs -----------------------------
(***************************************************************************)
(* Proofs about the three parts of the eSIM stack that MCEsim puts beside  *)
(* each other, for any clients, channels, profiles and bounds.  T is the   *)
(* transports, N the notifications; the manager's names are bare.          *)
(***************************************************************************)
EXTENDS MCEsim, SequenceTheorems, WellFoundedInduction, TLAPS

-----------------------------------------------------------------------------
(***************************************************************************)
(* The manager.  Its caches are current because a generation comes between *)
(* what a reader has read and what has been changed since, and where there *)
(* is no generation `suspect` says so; a switch reports because its token  *)
(* is its own from the start of the call to the end.                       *)
(***************************************************************************)
Waiting   == {"try", "listen", "wait", "refresh", "load", "follow", "scan", "store"}
AtSwitch  == {"barrier", "enable", "accepted", "presumed", "refused"}
AtBarrier == {"enable", "accepted", "presumed", "refused"}
AtWrite   == {"body", "finish", "unlock"} \cup AtSwitch
Places    == {"idle", "lock", "probe", "announce", "replace"} \cup Waiting \cup AtWrite
Locals    == [ch : Nat, gen : Nat, seen : Nat, chip : {0, 1}, tok : Nat, miss : Missing]
Reports   == {"begun", "accepted", "failed", "after"}

ManagerType ==
    /\ card \in Nat /\ chip \in {0, 1} /\ gen \in Nat /\ opDone \in Nat /\ made \in Nat
    /\ token \in Seq(Reports)
    /\ pc \in [Process -> Places]
    /\ op \in [Process -> Ops]
    /\ loc \in [Process -> Locals]

(* Where a process may be: with the lock, in a write, in the goroutine.    *)
FlowInv ==
    /\ \A p \in Process : pc[p] \in AtWrite \cup {"probe"} => opMu = p
    /\ \A p \in Process : pc[p] \in AtWrite \cup {"lock", "announce", "replace"} => op[p] \notin Loads
    /\ \A p \in Process : pc[p] \in AtSwitch => op[p] \in {"switch", "disable"}
    /\ op[Reload] = "get"
    /\ pc[Reload] # "idle" => reloading

(* Writes that have changed the card and not yet told the cache.           *)
Invalidating(p) == pc[p] = "finish" \/ (pc[p] = "accepted" /\ op[p] = "disable")
Patching(p)     == pc[p] = "accepted" /\ op[p] = "switch"

(* The overview shows one of these versions, or leaves something out.      *)
Shows(versions) == cache \in {Nobody} \cup versions \/ lacks # "nothing"

(* What a process has read and may still store is current.                 *)
CacheInv ==
    /\ \A p \in Process : loc[p].gen <= gen
    /\ suspect = {} =>
         /\ (\A p \in Process : ~Invalidating(p) /\ ~Patching(p)) => Shows({card})
         /\ (\E p \in Process : Patching(p)) => Shows({card - 1, card})
         /\ (\A p \in Process : ~Invalidating(p)) =>
               \A p \in Holding(Loads) : loc[p].gen = gen => loc[p].seen = card
         /\ \A p \in Holding({"profiles"}) : loc[p].seen = card
ChipInv ==
    /\ \A p \in Holding(Loads) : loc[p].gen = gen => loc[p].chip = chip
    /\ "chipinfo" \notin suspect =>
         /\ chipCache \in {Nobody, chip}
         /\ \A p \in Holding({"chipinfo"}) : loc[p].chip = chip

TokenInv ==
    /\ \A p \in Process : loc[p].tok \in 0 .. Len(token)
    /\ \A p \in Process : loc[p].tok # 0 => pc[p] \in AtSwitch \cup {"unlock", "announce", "replace"}
    /\ \A p, q \in Process : p # q /\ loc[p].tok # 0 => loc[p].tok # loc[q].tok
    /\ \A p \in Process : pc[p] \in AtSwitch => loc[p].tok # 0 /\ token[loc[p].tok] = "begun"
    /\ \A p \in Process : pc[p] \in AtBarrier => barrier = p
    /\ barrier # Nobody => barrier \in Process /\ pc[barrier] \in AtBarrier
    /\ \A t \in 1 .. Len(token) : token[t] = "begun" =>
         panicked # {} \/ \E p \in Process : loc[p].tok = t

ManagerInv == ManagerType /\ FlowInv /\ CacheInv /\ ChipInv /\ TokenInv

(* A step of a process moves that process; at most it starts the goroutine. *)
LEMMA OthersStay ==
    ASSUME ManagerType, FlowInv, NEW p \in Process, Step(p), NEW q \in Process, q # p
    PROVE  /\ op'[q] = op[q] /\ loc'[q] = loc[q]
           /\ pc'[q] = pc[q] \/ (q = Reload /\ pc[q] = "idle" /\ pc'[q] = "load")
<1> USE DEF ManagerType, Goto, Return, Leave
<1>1. CASE Lock(p) \/ Try(p) \/ ProbeEnds(p) \/ Listen(p) \/ Unlock(p) \/ ReadOld(p)
  BY <1>1 DEF Lock, Try, ProbeEnds, Listen, Unlock, ReadOld
<1>2. CASE WaitTimesOut(p) \/ ReplaceAndClose(p) \/ Follow(p) \/ ScanFails(p)
           \/ StoreOverview(p) \/ StoreProfiles(p) \/ StoreChipInfo(p)
  BY <1>2 DEF WaitTimesOut, ReplaceAndClose, Follow, ScanFails, StoreOverview, StoreProfiles, StoreChipInfo
<1>3. CASE Refresh(p) \/ LoadOverview(p) \/ Scan(p)
  BY <1>3 DEF Refresh, LoadOverview, Scan
<1>4. CASE ReturnEarly(p) \/ WriteCard(p) \/ WriteUnanswered(p) \/ DownloadFails(p)
           \/ SwitchBegins(p) \/ BarrierGranted(p) \/ BarrierRefused(p)
  BY <1>4 DEF ReturnEarly, WriteCard, WriteUnanswered, DownloadFails, SwitchBegins, BarrierGranted, BarrierRefused
<1>5. CASE Enable(p) \/ EnableRefused(p) \/ SwitchAccepted(p)
  BY <1>5 DEF Enable, EnableRefused, SwitchAccepted
<1>6. CASE Finish(p) \/ DisableAccepted(p)
  <2>1. UNCHANGED <<op, loc>> /\ TriggerAndGoto(p, "unlock")
    BY <1>6 DEF Finish, DisableAccepted
  <2>2. reloading \/ (pc[Reload] = "idle")
    BY DEF FlowInv
  <2>3. QED
    BY <2>1, <2>2 DEF TriggerAndGoto, FlowInv
<1>7. QED
  BY <1>1, <1>2, <1>3, <1>4, <1>5, <1>6 DEF Step

Events == CardExchanged \/ UIMIndication \/ SuppressionEnds \/ \E t \in DOMAIN token : AfterSwitch(t)

(* An event moves no process, and at most starts the goroutine.            *)
LEMMA EventsMoveNothing ==
    ASSUME ManagerType, FlowInv, Events
    PROVE  /\ op' = op /\ loc' = loc /\ opMu' = opMu
           /\ pc' = pc \/ (pc[Reload] = "idle" /\ pc' = [pc EXCEPT ![Reload] = "load"])
           /\ (reloading => reloading') /\ (pc'[Reload] # "idle" => reloading')
<1>1. CASE SuppressionEnds \/ \E t \in DOMAIN token : AfterSwitch(t)
  BY <1>1 DEF SuppressionEnds, AfterSwitch, loads, FlowInv
<1>2. CASE CardExchanged \/ UIMIndication
  <2>1. /\ UNCHANGED <<op, loc, opMu>>
        /\ UNCHANGED <<pc, reloading>> \/ TriggerAndGoto(Reload, IF reloading THEN pc[Reload] ELSE "load")
    BY <1>2 DEF CardExchanged, UIMIndication
  <2>2. CASE UNCHANGED <<pc, reloading>>
    BY <2>1, <2>2 DEF FlowInv
  <2>3. CASE TriggerAndGoto(Reload, IF reloading THEN pc[Reload] ELSE "load")
    <3>1. CASE reloading
      BY <2>1, <2>3, <3>1 DEF TriggerAndGoto, ManagerType, Process
    <3>2. CASE ~reloading
      BY <2>1, <2>3, <3>2 DEF TriggerAndGoto, ManagerType, FlowInv, Process
    <3>3. QED
      BY <3>1, <3>2
  <2>4. QED
    BY <2>1, <2>2, <2>3
<1>3. QED
  BY <1>1, <1>2 DEF Events

(* Next, one disjunct per actor.                                           *)
LEMMA ManagerCases ==
    ASSUME [Next]_vars
    PROVE  \/ \E p \in Process : Step(p)
           \/ \E p \in Proc, o \in Ops : Begin(p, o)
           \/ Events
           \/ UNCHANGED vars
BY DEF Next, Events

(* Every step keeps the types.                                             *)
LEMMA ManagerTypeStep ==
    ASSUME ManagerAssumption, ManagerType, FlowInv, TokenInv, [Next]_vars
    PROVE  ManagerType'
<1> USE DEF world, locks, stash, loads, hist, Goto
<1>1. Fresh \in Locals /\ "get" \in Ops
  BY DEF Fresh, Locals, Ops, Loads, Missing
<1>0. /\ "idle" \in Places /\ "lock" \in Places /\ "probe" \in Places /\ "announce" \in Places
      /\ "replace" \in Places /\ "try" \in Places /\ "listen" \in Places /\ "wait" \in Places
      /\ "refresh" \in Places /\ "load" \in Places /\ "follow" \in Places /\ "scan" \in Places
      /\ "store" \in Places /\ "body" \in Places /\ "finish" \in Places /\ "unlock" \in Places
      /\ "barrier" \in Places /\ "enable" \in Places /\ "accepted" \in Places /\ "refused" \in Places
      /\ "presumed" \in Places
  BY DEF Places, Waiting, AtWrite, AtSwitch
<1>2. ASSUME NEW p \in Process, WaitTimesOut(p) \/ Follow(p) \/ ScanFails(p)
             \/ StoreOverview(p) \/ StoreProfiles(p) \/ StoreChipInfo(p)
      PROVE  ManagerType'
  BY <1>0, <1>1, <1>2 DEF ManagerType, Return, Leave,
        WaitTimesOut, Follow, ScanFails, StoreOverview, StoreProfiles, StoreChipInfo
<1>3. ASSUME NEW p \in Process, ReplaceAndClose(p)
      PROVE  ManagerType'
  <2>1. token' \in Seq(Reports)
    <3>1. token' # token => /\ loc[p].tok \in 1 .. Len(token)
                            /\ token' = [token EXCEPT ![loc[p].tok] = "failed"]
      BY <1>3 DEF ReplaceAndClose, TokenInv, ManagerType, Locals
    <3>2. "failed" \in Reports
      BY DEF Reports
    <3>3. QED
      BY <3>1, <3>2, ExceptSeq DEF ManagerType
  <2>2. QED
    BY <1>0, <1>1, <1>3, <2>1 DEF ReplaceAndClose, Return, ManagerType
<1>4. ASSUME NEW p \in Process, Lock(p) \/ Try(p) \/ ProbeEnds(p) \/ Unlock(p)
             \/ ReturnEarly(p) \/ BarrierGranted(p) \/ BarrierRefused(p) \/ EnableRefused(p)
      PROVE  ManagerType'
  BY <1>0, <1>4 DEF ManagerType,
        Lock, Try, ProbeEnds, Unlock, ReturnEarly, BarrierGranted, BarrierRefused, EnableRefused
<1>5. ASSUME NEW p \in Process, Listen(p) \/ ReadOld(p) \/ Scan(p) \/ LoadOverview(p)
      PROVE  ManagerType'
  <2>1. loc' \in [Process -> Locals]
    <3>1. CASE Listen(p) \/ ReadOld(p)
      <4>1. loc' = [loc EXCEPT ![p].ch = opDone]
        BY <3>1 DEF Listen, ReadOld
      <4>2. QED
        BY <4>1 DEF ManagerType, Locals
    <3>2. CASE Scan(p)
      <4>1. PICK miss \in Missing : loc' = [loc EXCEPT ![p].seen = card, ![p].chip = chip, ![p].miss = miss]
        BY <3>2 DEF Scan, Missing
      <4>2. QED
        BY <4>1 DEF ManagerType, Locals
    <3>3. CASE LoadOverview(p)
      <4>1. loc' = [loc EXCEPT ![p] = Fresh] \/ loc' = [loc EXCEPT ![p].gen = gen]
        BY <3>3 DEF LoadOverview, Leave, Return
      <4>2. CASE loc' = [loc EXCEPT ![p] = Fresh]
        BY <1>1, <4>2 DEF ManagerType
      <4>3. CASE loc' = [loc EXCEPT ![p].gen = gen]
        BY <4>3 DEF ManagerType, Locals
      <4>4. QED
        BY <4>1, <4>2, <4>3
    <3>4. QED
      BY <1>5, <3>1, <3>2, <3>3
  <2>2. op' \in [Process -> Ops]
    BY <1>0, <1>1, <1>5 DEF Listen, ReadOld, Scan, LoadOverview, ManagerType, Leave, Return
  <2>3. pc' \in [Process -> Places]
    BY <1>0, <1>1, <1>5 DEF Listen, ReadOld, Scan, LoadOverview, ManagerType, Leave, Return
  <2>4. QED
    BY <1>5, <2>1, <2>2, <2>3 DEF Listen, ReadOld, Scan, LoadOverview, ManagerType
<1>6. ASSUME NEW p \in Process, Refresh(p) \/ WriteCard(p) \/ WriteUnanswered(p)
                                \/ DownloadFails(p) \/ Enable(p)
      PROVE  ManagerType'
  <2>1. card' \in Nat /\ gen' \in Nat
    BY <1>6 DEF Refresh, WriteCard, WriteUnanswered, DownloadFails, Enable, Changed, Invalidate, ManagerType
  <2>2. pc' \in [Process -> Places]
    BY <1>0, <1>6 DEF Refresh, WriteCard, WriteUnanswered, DownloadFails, Enable, ManagerType
  <2>3. QED
    BY <1>6, <2>1, <2>2 DEF Refresh, WriteCard, WriteUnanswered, DownloadFails, Enable, ManagerType
<1>7. ASSUME NEW p \in Process, Finish(p)
      PROVE  ManagerType'
  <2>1. "unlock" \in Places /\ "load" \in Places
    BY <1>0
  <2>2. pc' \in [Process -> Places]
    BY <1>7, <2>1 DEF Finish, TriggerAndGoto, ManagerType
  <2>3. QED
    BY <1>7, <2>2 DEF Finish, Invalidate, ManagerType
<1>8. ASSUME NEW p \in Process, SwitchBegins(p)
      PROVE  ManagerType'
  <2>1. token' \in Seq(Reports) /\ Len(token') \in Nat
    BY <1>8, AppendProperties DEF SwitchBegins, ManagerType, Reports
  <2>2. loc' \in [Process -> Locals]
    <3>1. loc' = [loc EXCEPT ![p].tok = Len(token')]
      BY <1>8 DEF SwitchBegins
    <3>2. QED
      BY <2>1, <3>1 DEF ManagerType, Locals
  <2>3. pc' \in [Process -> Places]
    BY <1>0, <1>8 DEF SwitchBegins, ManagerType
  <2>4. QED
    BY <1>8, <2>1, <2>2, <2>3 DEF SwitchBegins, ManagerType
<1>9. ASSUME NEW p \in Process, SwitchAccepted(p) \/ DisableAccepted(p)
      PROVE  ManagerType'
  <2>1. loc[p].tok \in 1 .. Len(token)
    BY <1>9 DEF SwitchAccepted, DisableAccepted, TokenInv, AtSwitch, ManagerType, Locals
  <2>2. token' \in Seq(Reports)
    <3>1. token' = [token EXCEPT ![loc[p].tok] = "accepted"] /\ "accepted" \in Reports
      BY <1>9 DEF SwitchAccepted, DisableAccepted, Reports
    <3>2. QED
      BY <2>1, <3>1, ExceptSeq DEF ManagerType
  <2>3. pc' \in [Process -> Places]
    <3>1. "unlock" \in Places /\ "load" \in Places
      BY <1>0
    <3>2. \/ pc' = [pc EXCEPT ![p] = "unlock"]
          \/ pc' = [pc EXCEPT ![p] = "unlock", ![Reload] = IF reloading THEN @ ELSE "load"]
      BY <1>9 DEF SwitchAccepted, DisableAccepted, TriggerAndGoto
    <3>3. QED
      BY <3>1, <3>2 DEF ManagerType
  <2>4. QED
    BY <1>9, <2>2, <2>3 DEF SwitchAccepted, DisableAccepted, Invalidate, ManagerType
<1>10. ASSUME NEW p \in Proc, NEW o \in Ops, Begin(p, o)
       PROVE  ManagerType'
  <2>1. p \in Process
    BY DEF Process
  <2>2. loc' \in [Process -> Locals]
    BY <1>10 DEF Begin, ManagerType, Locals
  <2>3. pc' \in [Process -> Places]
    BY <1>0, <1>10, <2>1 DEF Begin, ManagerType
  <2>4. QED
    BY <1>10, <2>1, <2>2, <2>3 DEF Begin, ManagerType
<1>11. ASSUME Events
       PROVE  ManagerType'
  <2>1. op' = op /\ loc' = loc /\ pc' \in [Process -> Places]
    BY <1>0, <1>11, EventsMoveNothing DEF ManagerType
  <2>2. CASE CardExchanged \/ UIMIndication \/ SuppressionEnds
    BY <2>1, <2>2 DEF CardExchanged, UIMIndication, SuppressionEnds, Invalidate, ManagerType
  <2>3. CASE \E t \in DOMAIN token : AfterSwitch(t)
    <3>1. PICK t \in DOMAIN token : AfterSwitch(t)
      BY <2>3
    <3>2. t \in 1 .. Len(token) /\ "after" \in Reports
      BY DEF ManagerType, Reports
    <3>3. token' \in Seq(Reports)
      BY <3>1, <3>2, ExceptSeq DEF AfterSwitch, ManagerType
    <3>4. QED
      BY <2>1, <3>1, <3>3 DEF AfterSwitch, ManagerType
  <2>4. QED
    BY <1>11, <2>2, <2>3 DEF Events
<1>12. ASSUME UNCHANGED vars
       PROVE  ManagerType'
  BY <1>12 DEF vars, ManagerType
<1>13. QED
  BY <1>2, <1>3, <1>4, <1>5, <1>6, <1>7, <1>8, <1>9, <1>10, <1>11, <1>12, ManagerCases DEF Step

(* Every step keeps where a process may be.                                *)
LEMMA FlowStep ==
    ASSUME ManagerAssumption, ManagerType, FlowInv, [Next]_vars
    PROVE  FlowInv'
<1> USE DEF world, locks, stash, loads, hist, Goto
<1> DEFINE Flow(p) == /\ pc[p] \in AtWrite \cup {"probe"} => opMu = p
                      /\ pc[p] \in AtWrite \cup {"lock", "announce", "replace"} => op[p] \notin Loads
                      /\ pc[p] \in AtSwitch => op[p] \in {"switch", "disable"}
<1>1. ASSUME NEW p \in Process, Step(p)
      PROVE  FlowInv'
  <2>1. /\ opMu' = opMu \/ opMu = p \/ (opMu = Nobody /\ opMu' = p)
        /\ Flow(p)'
        /\ pc'[Reload] # "idle" => reloading'
        /\ p = Reload => op'[p] = "get"
    <3>0. DOMAIN pc = Process /\ DOMAIN op = Process /\ Reload \in Process
      BY DEF ManagerType, Process
    <3> USE <3>0 DEF AtWrite, AtSwitch, Loads
    <3>1. CASE Lock(p) \/ Try(p) \/ ProbeEnds(p) \/ Listen(p)
      BY <3>1 DEF Lock, Try, ProbeEnds, Listen, FlowInv
    <3>2. CASE Unlock(p) \/ ReadOld(p) \/ ReturnEarly(p) \/ Refresh(p) \/ Scan(p)
      BY <3>2 DEF Unlock, ReadOld, ReturnEarly, Refresh, Scan, FlowInv
    <3>3. CASE WaitTimesOut(p) \/ Follow(p) \/ ScanFails(p) \/ LoadOverview(p)
               \/ StoreOverview(p) \/ StoreProfiles(p) \/ StoreChipInfo(p)
      BY <3>3 DEF WaitTimesOut, Follow, ScanFails, LoadOverview, StoreOverview, StoreProfiles, StoreChipInfo,
                  Leave, Return, FlowInv
    <3>4. CASE ReplaceAndClose(p)
      BY <3>4 DEF ReplaceAndClose, Return, FlowInv
    <3>5. CASE WriteCard(p) \/ WriteUnanswered(p) \/ DownloadFails(p)
      BY <3>5 DEF WriteCard, WriteUnanswered, DownloadFails, FlowInv
    <3>6. CASE SwitchBegins(p) \/ BarrierGranted(p) \/ BarrierRefused(p)
               \/ Enable(p) \/ EnableRefused(p) \/ SwitchAccepted(p)
      BY <3>6 DEF SwitchBegins, BarrierGranted, BarrierRefused, Enable, EnableRefused, SwitchAccepted, FlowInv
    <3>7. CASE Finish(p) \/ DisableAccepted(p)
      <4>1. UNCHANGED <<op, opMu>> /\ TriggerAndGoto(p, "unlock") /\ pc[p] \in AtWrite
        BY <3>7 DEF Finish, DisableAccepted
      <4>2. p # Reload
        BY <4>1 DEF FlowInv
      <4>3. QED
        BY <4>1, <4>2 DEF TriggerAndGoto, FlowInv
    <3>8. QED
      BY <1>1, <3>1, <3>2, <3>3, <3>4, <3>5, <3>6, <3>7 DEF Step
  <2>2. \A q \in Process \ {p} : Flow(q)'
    BY <1>1, <2>1, OthersStay, ManagerAssumption
    DEF FlowInv, ManagerAssumption, AtWrite, AtSwitch
  <2>3. op'[Reload] = "get"
    BY <1>1, <2>1, OthersStay DEF FlowInv, Process
  <2>4. QED
    BY <2>1, <2>2, <2>3 DEF FlowInv
<1>2. ASSUME NEW p \in Proc, NEW o \in Ops, Begin(p, o)
      PROVE  FlowInv'
  <2>1. p \in Process /\ p # Reload
    BY ManagerAssumption DEF ManagerAssumption, Process
  <2>2. /\ pc'[p] \in {"lock", "try", "load", "refresh"} /\ op'[p] = o
        /\ pc'[p] = "lock" => o \in Writes
        /\ \A q \in Process \ {p} : pc'[q] = pc[q] /\ op'[q] = op[q]
        /\ UNCHANGED <<opMu, reloading>>
    BY <1>2, <2>1 DEF Begin, ManagerType
  <2>3. Reload \in Process
    BY DEF Process
  <2>4. QED
    BY <2>1, <2>2, <2>3 DEF FlowInv, AtWrite, AtSwitch, Writes, Loads
<1>3. ASSUME Events
      PROVE  FlowInv'
  <2>1. /\ op' = op /\ opMu' = opMu
        /\ \A q \in Process : pc'[q] = pc[q] \/ pc'[q] = "load"
        /\ pc'[Reload] # "idle" => reloading'
    BY <1>3, EventsMoveNothing DEF ManagerType
  <2>2. QED
    BY <2>1 DEF FlowInv, AtWrite, AtSwitch
<1>4. ASSUME UNCHANGED vars
      PROVE  FlowInv'
  BY <1>4 DEF vars, FlowInv
<1>5. QED
  BY <1>1, <1>2, <1>3, <1>4, ManagerCases

Stores(p)  == StoreOverview(p) \/ StoreProfiles(p) \/ StoreChipInfo(p)
Changes(p) == WriteCard(p) \/ WriteUnanswered(p) \/ Enable(p)

(* What may happen to the card and to what is cached about it.             *)
LEMMA StashCases ==
    ASSUME [Next]_vars
    PROVE  \/ Invalidate
           \/ \E p \in Process : Refresh(p) \/ Changes(p) \/ Stores(p) \/ SwitchAccepted(p)
           \/ /\ UNCHANGED <<card, chip, gen, chipCache, suspect>>
              /\ cache' = Nobody \/ UNCHANGED <<cache, lacks>>
<1> USE DEF world, locks, stash, loads, hist, NoOverview
<1>1. ASSUME NEW p \in Process, Lock(p) \/ Try(p) \/ ProbeEnds(p) \/ Listen(p) \/ WaitTimesOut(p)
                                \/ Unlock(p) \/ ReadOld(p) \/ ReplaceAndClose(p)
                                \/ LoadOverview(p) \/ Follow(p) \/ Scan(p) \/ ScanFails(p)
                                \/ ReturnEarly(p) \/ SwitchBegins(p) \/ BarrierGranted(p)
                                \/ BarrierRefused(p) \/ EnableRefused(p)
      PROVE  /\ UNCHANGED <<card, chip, gen, chipCache, suspect>>
             /\ cache' = Nobody \/ UNCHANGED <<cache, lacks>>
  BY <1>1 DEF Lock, Try, ProbeEnds, Listen, WaitTimesOut, Unlock, ReadOld, ReplaceAndClose, LoadOverview,
              Follow, Scan, ScanFails, ReturnEarly, SwitchBegins, BarrierGranted, BarrierRefused, EnableRefused
<1>2. ASSUME NEW p \in Process, DownloadFails(p) \/ Finish(p) \/ DisableAccepted(p)
      PROVE  Invalidate
  BY <1>2 DEF DownloadFails, Finish, DisableAccepted
<1>3. ASSUME \/ \E p \in Proc, o \in Ops : Begin(p, o)
             \/ SuppressionEnds \/ (\E t \in DOMAIN token : AfterSwitch(t)) \/ UNCHANGED vars
      PROVE  /\ UNCHANGED <<card, chip, gen, chipCache, suspect>>
             /\ cache' = Nobody \/ UNCHANGED <<cache, lacks>>
  BY <1>3 DEF Begin, SuppressionEnds, AfterSwitch, vars
<1>4. ASSUME CardExchanged \/ UIMIndication
      PROVE  Invalidate
  BY <1>4 DEF CardExchanged, UIMIndication
<1>5. QED
  BY <1>1, <1>2, <1>3, <1>4, ManagerCases DEF Step, Events, Stores, Changes

(* A reader keeps what it has read until it stores it.                     *)
LEMMA HoldersStay ==
    ASSUME ManagerAssumption, ManagerType, FlowInv, [Next]_vars, NEW q \in Process, pc'[q] = "store"
    PROVE  Scan(q) \/ (pc[q] = "store" /\ op'[q] = op[q] /\ loc'[q] = loc[q])
<1>0. DOMAIN pc = Process
  BY DEF ManagerType
<1>1. ASSUME Step(q), ~Scan(q)
      PROVE  pc'[q] # "store"
  <2> USE <1>0 DEF Goto, Leave, Return
  <2>1. CASE Lock(q) \/ Try(q) \/ ProbeEnds(q) \/ Listen(q) \/ Unlock(q) \/ ReadOld(q) \/ Refresh(q)
    BY <2>1 DEF Lock, Try, ProbeEnds, Listen, Unlock, ReadOld, Refresh
  <2>2. CASE WaitTimesOut(q) \/ ReplaceAndClose(q) \/ Follow(q) \/ ScanFails(q) \/ Stores(q) \/ LoadOverview(q)
    BY <2>2 DEF Stores, WaitTimesOut, ReplaceAndClose, Follow, ScanFails, StoreOverview, StoreProfiles,
                StoreChipInfo, LoadOverview
  <2>3. CASE ReturnEarly(q) \/ WriteCard(q) \/ WriteUnanswered(q) \/ DownloadFails(q)
             \/ SwitchBegins(q) \/ BarrierGranted(q) \/ BarrierRefused(q)
    BY <2>3 DEF ReturnEarly, WriteCard, WriteUnanswered, DownloadFails, SwitchBegins, BarrierGranted, BarrierRefused
  <2>4. CASE Enable(q) \/ EnableRefused(q) \/ SwitchAccepted(q)
    BY <2>4 DEF Enable, EnableRefused, SwitchAccepted
  <2>5. CASE Finish(q) \/ DisableAccepted(q)
    <3>1. TriggerAndGoto(q, "unlock") /\ pc[q] \in AtWrite
      BY <2>5 DEF Finish, DisableAccepted, AtWrite, AtSwitch
    <3>2. q # Reload
      BY <3>1 DEF FlowInv, Loads
    <3>3. QED
      BY <3>1, <3>2 DEF TriggerAndGoto
  <2>6. QED
    BY <1>1, <2>1, <2>2, <2>3, <2>4, <2>5 DEF Step, Stores
<1>2. ASSUME NEW p \in Process, Step(p), p # q
      PROVE  pc[q] = "store" /\ op'[q] = op[q] /\ loc'[q] = loc[q]
  BY <1>2, OthersStay
<1>3. ASSUME NEW p \in Proc, NEW o \in Ops, Begin(p, o)
      PROVE  pc[q] = "store" /\ op'[q] = op[q] /\ loc'[q] = loc[q]
  <2>1. q # p
    BY <1>0, <1>3 DEF Begin, Goto
  <2>2. QED
    BY <1>0, <1>3, <2>1 DEF Begin, Goto, ManagerType
<1>4. ASSUME Events
      PROVE  pc[q] = "store" /\ op'[q] = op[q] /\ loc'[q] = loc[q]
  <2>1. \A r \in Process : pc'[r] = pc[r] \/ pc'[r] = "load"
    BY <1>0, <1>4, EventsMoveNothing
  <2>2. QED
    BY <1>4, <2>1, EventsMoveNothing
<1>5. ASSUME UNCHANGED vars
      PROVE  pc[q] = "store" /\ op'[q] = op[q] /\ loc'[q] = loc[q]
  BY <1>5 DEF vars
<1>6. QED
  BY <1>1, <1>2, <1>3, <1>4, <1>5, ManagerCases

(* Every step keeps the chip information current or suspect.               *)
LEMMA ChipStep ==
    ASSUME ManagerAssumption, ManagerType, FlowInv, ChipInv, \A p \in Process : loc[p].gen <= gen,
           [Next]_vars
    PROVE  ChipInv'
<1> DEFINE Held(o) == \A q \in Process : pc[q] = "store" /\ op[q] = o => loc[q].chip = chip
           Read == \A q \in Process : pc[q] = "store" /\ op[q] \in Loads /\ loc[q].gen = gen => loc[q].chip = chip
           Cached == chipCache \in {Nobody, chip}
<1>0. ChipInv <=> Read /\ ("chipinfo" \notin suspect => Cached /\ Held("chipinfo"))
  BY DEF ChipInv, Holding
<1>1. ChipInv' <=> Read' /\ ("chipinfo" \notin suspect' => Cached' /\ Held("chipinfo")')
  BY DEF ChipInv, Holding
<1>2. \A q \in Process : pc'[q] = "store" =>
         Scan(q) \/ (pc[q] = "store" /\ op'[q] = op[q] /\ loc'[q] = loc[q])
  BY HoldersStay
<1>3. ASSUME NEW q \in Process, Scan(q)
      PROVE  UNCHANGED <<card, chip, gen, chipCache, suspect>> /\ loc'[q].chip = chip /\ loc'[q].seen = card
  BY <1>3 DEF Scan, ManagerType, Locals, world, stash, hist
<1>4. gen \in Nat /\ \A q \in Process : loc[q].gen \in Nat
  BY DEF ManagerType, Locals
<1> HIDE DEF Held, Read, Cached
<1>5. ASSUME Invalidate
      PROVE  ChipInv'
  <2>1. gen' = gen + 1 /\ chipCache' = Nobody /\ suspect' = Unguarded
    BY <1>5 DEF Invalidate
  <2>2. \A q \in Process : ~Scan(q)
    BY <1>3, <1>4, <2>1
  <2>3. Read' /\ Cached'
    BY <1>2, <1>4, <2>1, <2>2 DEF Read, Cached
  <2>4. "chipinfo" \notin suspect' => Held("chipinfo")'
    BY <1>2, <2>1, <2>2 DEF Held, Unguarded, Holding
  <2>5. QED
    BY <1>1, <2>3, <2>4
<1>6. ASSUME NEW p \in Process, Refresh(p)
      PROVE  ChipInv'
  <2>1. /\ chipCache' = chipCache /\ chip' = chip
        /\ "chipinfo" \in suspect => "chipinfo" \in suspect'
        /\ gen' = gen \/ gen' = gen + 1
    BY <1>6 DEF Refresh, world
  <2>2. Read'
    BY <1>0, <1>2, <1>3, <1>4, <2>1 DEF Read
  <2>3. "chipinfo" \notin suspect' => Cached' /\ Held("chipinfo")'
    BY <1>0, <1>2, <1>3, <2>1 DEF Cached, Held
  <2>4. QED
    BY <1>1, <2>2, <2>3
<1>7. ASSUME NEW p \in Process, Changes(p)
      PROVE  ChipInv'
  <2>1. UNCHANGED <<chip, chipCache, gen>> /\ suspect \subseteq suspect'
    BY <1>7 DEF Changes, WriteCard, WriteUnanswered, Enable, Changed, stash
  <2>2. QED
    BY <1>0, <1>1, <1>2, <1>3, <2>1 DEF Read, Cached, Held
<1>8. ASSUME NEW p \in Process, Stores(p)
      PROVE  ChipInv'
  <2>1. UNCHANGED <<chip, gen, suspect>>
    BY <1>8 DEF Stores, StoreOverview, StoreProfiles, StoreChipInfo, world, hist
  <2>2. \/ chipCache' = chipCache
        \/ chipCache' = ProductOf(p) /\ pc[p] = "store" /\ op[p] \in Loads /\ loc[p].gen = gen
        \/ chipCache' = ProductOf(p) /\ pc[p] = "store" /\ op[p] = "chipinfo"
    BY <1>8 DEF Stores, StoreOverview, StoreProfiles, StoreChipInfo
  <2>3. "chipinfo" \notin suspect' => Cached'
    BY <1>0, <2>1, <2>2 DEF Read, Cached, Held, ProductOf
  <2>4. Read' /\ ("chipinfo" \notin suspect' => Held("chipinfo")')
    BY <1>0, <1>2, <1>3, <2>1 DEF Read, Held
  <2>5. QED
    BY <1>1, <2>3, <2>4
<1>9. ASSUME UNCHANGED <<chip, gen, chipCache>>, suspect \subseteq suspect'
      PROVE  ChipInv'
  BY <1>0, <1>1, <1>2, <1>3, <1>9 DEF Read, Cached, Held
<1>10. ASSUME NEW p \in Process, SwitchAccepted(p)
       PROVE  UNCHANGED <<chip, gen, chipCache>> /\ suspect \subseteq suspect'
  BY <1>10 DEF SwitchAccepted
<1>11. QED
  BY <1>5, <1>6, <1>7, <1>8, <1>9, <1>10, StashCases

(* A write that has changed the card goes on to tell the cache.            *)
LEMMA PendingStep ==
    ASSUME ManagerAssumption, ManagerType, FlowInv, [Next]_vars, NEW q \in Process
    PROVE  /\ Invalidating(q) => Invalidating(q)' \/ Invalidate
           /\ Patching(q) => Patching(q)' \/ SwitchAccepted(q)
           /\ Patching(q)' => Patching(q) \/ Enable(q)
<1> DEFINE Same == pc'[q] = pc[q] /\ op'[q] = op[q]
<1>0. DOMAIN pc = Process /\ DOMAIN op = Process
  BY DEF ManagerType
<1>1. CASE Same
  BY <1>1 DEF Invalidating, Patching
<1>2. ASSUME Step(q)
      PROVE  /\ pc[q] \notin {"finish", "accepted"} \/ Invalidate \/ SwitchAccepted(q)
             /\ pc'[q] = "accepted" => Enable(q)
             /\ SwitchAccepted(q) => ~Invalidating(q)
             /\ Invalidate /\ pc[q] = "accepted" => op[q] = "disable"
  <2> USE <1>0 DEF Goto, Leave, Return
  <2>1. ASSUME Lock(q) \/ Try(q) \/ ProbeEnds(q) \/ Listen(q) \/ Unlock(q) \/ ReadOld(q) \/ Refresh(q) \/ Scan(q)
        PROVE  pc[q] \notin {"finish", "accepted"} /\ pc'[q] # "accepted"
    BY <2>1 DEF Lock, Try, ProbeEnds, Listen, Unlock, ReadOld, Refresh, Scan
  <2>2. ASSUME WaitTimesOut(q) \/ ReplaceAndClose(q) \/ Follow(q) \/ ScanFails(q) \/ Stores(q) \/ LoadOverview(q)
        PROVE  pc[q] \notin {"finish", "accepted"} /\ pc'[q] # "accepted"
    BY <2>2 DEF Stores, WaitTimesOut, ReplaceAndClose, Follow, ScanFails, StoreOverview, StoreProfiles,
                StoreChipInfo, LoadOverview
  <2>3. ASSUME ReturnEarly(q) \/ WriteCard(q) \/ WriteUnanswered(q) \/ DownloadFails(q)
             \/ SwitchBegins(q) \/ BarrierGranted(q) \/ BarrierRefused(q) \/ EnableRefused(q)
        PROVE  pc[q] \notin {"finish", "accepted"} /\ pc'[q] # "accepted"
    BY <2>3 DEF ReturnEarly, WriteCard, WriteUnanswered, DownloadFails, SwitchBegins, BarrierGranted,
                BarrierRefused, EnableRefused
  <2>4. ASSUME Enable(q)
        PROVE  pc[q] = "enable" /\ gen' = gen
    BY <2>4 DEF Enable, stash
  <2>5. ASSUME SwitchAccepted(q)
        PROVE  pc[q] \in {"accepted", "presumed"} /\ op[q] = "switch" /\ pc'[q] = "unlock" /\ gen' = gen
    BY <2>5 DEF SwitchAccepted
  <2>6. ASSUME Finish(q) \/ DisableAccepted(q)
        PROVE  /\ Invalidate /\ pc'[q] # "accepted"
               /\ pc[q] = "finish" \/ (pc[q] \in {"accepted", "presumed"} /\ op[q] = "disable")
    BY <2>6 DEF Finish, DisableAccepted, TriggerAndGoto
  <2>7. Invalidate => gen' # gen
    BY DEF Invalidate, ManagerType
  <2>8. QED
    BY <1>2, <2>1, <2>2, <2>3, <2>4, <2>5, <2>6, <2>7 DEF Step, Stores, Invalidating
<1>3. CASE Step(q)
  BY <1>2, <1>3 DEF Invalidating, Patching, FlowInv, AtSwitch
<1>4. CASE pc[q] = "idle" /\ pc'[q] \notin {"finish", "accepted"}
  BY <1>4 DEF Invalidating, Patching
<1>5. ASSUME NEW p \in Process, Step(p), p # q
      PROVE  Same \/ (pc[q] = "idle" /\ pc'[q] \notin {"finish", "accepted"})
  BY <1>5, OthersStay
<1>6. ASSUME NEW p \in Proc, NEW o \in Ops, Begin(p, o)
      PROVE  Same \/ (pc[q] = "idle" /\ pc'[q] \notin {"finish", "accepted"})
  BY <1>0, <1>6 DEF Begin, Goto
<1>7. ASSUME Events \/ UNCHANGED vars
      PROVE  Same \/ (pc[q] = "idle" /\ pc'[q] \notin {"finish", "accepted"})
  <2>1. CASE Events
    BY <1>0, <2>1, EventsMoveNothing
  <2>2. CASE UNCHANGED vars
    BY <2>2 DEF vars
  <2>3. QED
    BY <1>7, <2>1, <2>2
<1>8. QED
  BY <1>1, <1>3, <1>4, <1>5, <1>6, <1>7, ManagerCases

(* No reader is ahead of the generation.                                   *)
LEMMA GenerationStep ==
    ASSUME ManagerAssumption, ManagerType, FlowInv, \A p \in Process : loc[p].gen <= gen, [Next]_vars
    PROVE  \A p \in Process : loc'[p].gen <= gen'
<1> USE DEF world, locks, stash, loads, hist
<1>0. DOMAIN loc = Process /\ gen \in Nat /\ \A p \in Process : loc[p] \in Locals /\ loc[p].gen \in Nat
  BY DEF ManagerType, Locals
<1>1. gen' = gen \/ gen' = gen + 1
  <2>1. \A p \in Process : Refresh(p) => gen' = gen \/ gen' = gen + 1
    BY DEF Refresh
  <2>2. \A p \in Process : Changes(p) \/ Stores(p) \/ SwitchAccepted(p) => gen' = gen
    BY DEF Changes, WriteCard, WriteUnanswered, Enable, Stores, StoreOverview, StoreProfiles, StoreChipInfo, SwitchAccepted
  <2>3. QED
    BY <2>1, <2>2, StashCases DEF Invalidate
<1>2. SUFFICES ASSUME NEW q \in Process, loc'[q] # loc[q]
               PROVE  loc'[q].gen \in {0, gen, loc[q].gen}
  BY <1>0, <1>1
<1>3. Fresh.gen = 0
  BY DEF Fresh
<1>4. ASSUME Step(q)
      PROVE  loc'[q].gen \in {0, gen, loc[q].gen}
  <2>1. \/ loc' = [loc EXCEPT ![q] = Fresh]
        \/ \E v : loc' = [loc EXCEPT ![q].ch = v] \/ loc' = [loc EXCEPT ![q].gen = gen]
                  \/ loc' = [loc EXCEPT ![q].tok = v]
        \/ \E v : loc' = [loc EXCEPT ![q].seen = card, ![q].chip = chip, ![q].miss = v]
        \/ loc' = loc
    <3>1. CASE Lock(q) \/ Try(q) \/ ProbeEnds(q) \/ Unlock(q) \/ Refresh(q) \/ ReturnEarly(q) \/ Changes(q)
               \/ DownloadFails(q) \/ Finish(q)
      BY <3>1 DEF Lock, Try, ProbeEnds, Unlock, Refresh, ReturnEarly, Changes, WriteCard, WriteUnanswered,
                  Enable, DownloadFails, Finish
    <3>2. CASE Listen(q) \/ ReadOld(q)
      BY <3>2 DEF Listen, ReadOld
    <3>3. CASE WaitTimesOut(q) \/ ReplaceAndClose(q) \/ Follow(q) \/ ScanFails(q) \/ Stores(q)
      BY <3>3 DEF Stores, WaitTimesOut, ReplaceAndClose, Follow, ScanFails, StoreOverview, StoreProfiles,
                  StoreChipInfo, Leave, Return
    <3>4. CASE LoadOverview(q) \/ Scan(q)
      BY <3>4 DEF LoadOverview, Scan, Leave, Return
    <3>5. CASE SwitchBegins(q) \/ BarrierGranted(q) \/ BarrierRefused(q) \/ EnableRefused(q)
               \/ SwitchAccepted(q) \/ DisableAccepted(q)
      BY <3>5 DEF SwitchBegins, BarrierGranted, BarrierRefused, EnableRefused, SwitchAccepted, DisableAccepted
    <3>6. QED
      BY <1>4, <3>1, <3>2, <3>3, <3>4, <3>5 DEF Step, Stores, Changes
  <2>2. QED
    BY <1>0, <1>3, <2>1 DEF Locals
<1>5. ASSUME NEW p \in Process, Step(p), p # q
      PROVE  FALSE
  BY <1>2, <1>5, OthersStay
<1>6. ASSUME NEW p \in Proc, NEW o \in Ops, Begin(p, o)
      PROVE  loc'[q].gen \in {0, gen, loc[q].gen}
  <2>1. loc' = [loc EXCEPT ![p].tok = 0]
    BY <1>6 DEF Begin
  <2>2. QED
    BY <1>0, <2>1 DEF Locals
<1>7. ASSUME Events \/ UNCHANGED vars
      PROVE  FALSE
  BY <1>2, <1>7, EventsMoveNothing DEF vars
<1>8. QED
  BY <1>4, <1>5, <1>6, <1>7, ManagerCases

(* Every step keeps the overview current, suspect, or about to be told.    *)
LEMMA CacheStep ==
    ASSUME ManagerAssumption, ManagerType, FlowInv, CacheInv, [Next]_vars
    PROVE  CacheInv'
<1> DEFINE Told    == \A p \in Process : ~Invalidating(p) /\ ~Patching(p)
           Patched == \E p \in Process : Patching(p)
           Kept    == \A p \in Process : ~Invalidating(p)
           Read    == \A q \in Process : pc[q] = "store" /\ op[q] \in Loads /\ loc[q].gen = gen => loc[q].seen = card
           Found   == \A q \in Process : pc[q] = "store" /\ op[q] = "profiles" => loc[q].seen = card
           Current == /\ Told => Shows({card})
                      /\ Patched => Shows({card - 1, card})
                      /\ Kept => Read
                      /\ Found
           Bounded == \A p \in Process : loc[p].gen <= gen
<1>0. CacheInv <=> Bounded /\ (suspect = {} => Current)
  BY DEF CacheInv, Holding, Shows
<1>1. CacheInv' <=> Bounded' /\ (suspect' = {} => Current')
  BY DEF CacheInv, Holding, Shows
<1>2. Bounded'
  BY <1>0, GenerationStep
<1>3. \A q \in Process : pc'[q] = "store" =>
         Scan(q) \/ (pc[q] = "store" /\ op'[q] = op[q] /\ loc'[q] = loc[q])
  BY HoldersStay
<1>4. ASSUME NEW q \in Process, Scan(q)
      PROVE  UNCHANGED <<card, chip, gen, cache, lacks, chipCache, suspect>> /\ loc'[q].seen = card
  BY <1>4 DEF Scan, ManagerType, Locals, world, stash, hist
<1>5. card \in Nat /\ gen \in Nat /\ \A q \in Process : loc[q].gen \in Nat
  BY DEF ManagerType, Locals
<1>6. \A q \in Process : /\ Invalidating(q) => Invalidating(q)' \/ Invalidate
                         /\ Patching(q) => Patching(q)' \/ SwitchAccepted(q)
                         /\ Patching(q)' => Patching(q) \/ Enable(q)
  BY PendingStep
<1>7. \A p, q \in Process : pc[p] \in AtWrite /\ pc[q] \in AtWrite => p = q
  BY DEF FlowInv
<1>8. \A q \in Process : (Invalidating(q) \/ Patching(q)) => pc[q] \in AtWrite
  BY DEF Invalidating, Patching, AtWrite, AtSwitch
<1>9. Invalidate => gen' # gen
  BY <1>5 DEF Invalidate
<1>10. suspect = {} => Current
  BY <1>0
<1> HIDE DEF Bounded
<1>11. ASSUME Invalidate, suspect' = {}
       PROVE  Current'
  <2>1. gen' = gen + 1 /\ cache' = Nobody /\ Unguarded = {}
    BY <1>11 DEF Invalidate
  <2>2. \A q \in Process : pc[q] = "store" => op[q] # "profiles"
    BY <2>1 DEF Unguarded, Holding
  <2>3. \A q \in Process : loc[q].gen <= gen
    BY <1>0 DEF Bounded
  <2>4. \A q \in Process : pc'[q] = "store" => (pc[q] = "store" /\ op'[q] = op[q] /\ loc'[q] = loc[q])
    BY <1>3, <1>4, <1>9, <1>11
  <2>5. Read' /\ Found'
    BY <1>5, <2>1, <2>2, <2>3, <2>4
  <2>6. QED
    BY <2>1, <2>5 DEF Shows
<1>12. ASSUME NEW p \in Process, Refresh(p), gen' # gen, suspect' = {}
       PROVE  Current'
  <2>1. gen' = gen + 1 /\ cache' = Nobody /\ Unguarded = {} /\ card' = card
    BY <1>12 DEF Refresh, world
  <2>2. \A q \in Process : pc[q] = "store" => op[q] # "profiles"
    BY <2>1 DEF Unguarded, Holding
  <2>3. \A q \in Process : loc[q].gen <= gen
    BY <1>0 DEF Bounded
  <2>4. \A q \in Process : pc'[q] = "store" => (pc[q] = "store" /\ op'[q] = op[q] /\ loc'[q] = loc[q])
    BY <1>3, <1>4, <1>12
  <2>5. Read' /\ Found'
    BY <1>5, <2>1, <2>2, <2>3, <2>4
  <2>6. QED
    BY <2>1, <2>5 DEF Shows
<1>13. ASSUME UNCHANGED <<card, gen, suspect>>, cache' = Nobody \/ UNCHANGED <<cache, lacks>>, suspect' = {},
              \A p \in Process : ~Enable(p) /\ ~SwitchAccepted(p)
       PROVE  Current'
  <2>1. (Told' => Told) /\ (Patched' => Patched) /\ (Kept' => Kept)
    BY <1>6, <1>9, <1>13
  <2>2. (Read => Read') /\ (Found => Found')
    BY <1>3, <1>4, <1>13
  <2>3. QED
    BY <1>10, <1>13, <2>1, <2>2 DEF Shows
<1>14. ASSUME NEW p \in Process, WriteCard(p), suspect' = {}
       PROVE  Current'
  <2>1. /\ UNCHANGED <<cache, gen, op, loc>> /\ suspect = {} /\ Unguarded = {}
        /\ pc[p] = "body" /\ pc' = [pc EXCEPT ![p] = "finish"]
    BY <1>14 DEF WriteCard, Changed, stash, Goto
  <2>2. Invalidating(p)' /\ \A q \in Process : ~Patching(q)'
    BY <1>7, <2>1 DEF Invalidating, Patching, ManagerType, AtWrite, AtSwitch
  <2>3. Found'
    BY <2>1 DEF Unguarded, Holding, ManagerType
  <2>4. QED
    BY <2>2, <2>3
<1>15. ASSUME NEW p \in Process, WriteUnanswered(p)
       PROVE  suspect' # {}
  BY <1>15 DEF WriteUnanswered, Changed
<1>16. ASSUME NEW p \in Process, Enable(p), suspect' = {}
       PROVE  Current'
  <2>1. UNCHANGED <<cache, lacks, gen, op, loc>> /\ pc[p] = "enable" /\ op[p] \in {"switch", "disable"}
    BY <1>16 DEF Enable, stash, FlowInv, AtSwitch
  <2>2. \A q \in Process : ~Invalidating(q) /\ ~Patching(q)
    BY <1>7, <1>8, <2>1 DEF Invalidating, Patching, AtWrite, AtSwitch
  <2>3. CASE UNCHANGED <<card, suspect>> /\ (Goto(p, "refused") \/ Goto(p, "presumed"))
    <3>1. \A q \in Process : ~Patching(q)'
      BY <2>1, <2>2, <2>3 DEF Patching, Goto, ManagerType
    <3>2. Told /\ Kept /\ ~Patched'
      BY <2>2, <3>1
    <3>3. Current /\ cache' = cache /\ card' = card
      BY <1>10, <1>16, <2>1, <2>3
    <3>4. Read' /\ Found'
      BY <1>3, <1>4, <2>1, <2>3, <3>2, <3>3
    <3>5. QED
      BY <2>1, <3>2, <3>3, <3>4 DEF Shows
  <2>4. CASE Goto(p, "accepted") /\ Changed(IF op[p] = "switch" /\ Holding(Loads) # {} THEN {"patched"} ELSE {})
    <3>1. /\ card' = card + 1 /\ suspect = {} /\ Unguarded = {}
          /\ op[p] = "switch" => Holding(Loads) = {}
          /\ pc' = [pc EXCEPT ![p] = "accepted"]
      BY <1>16, <2>4 DEF Changed, Goto
    <3>2. \A q \in Process : pc[q] = "store" => op[q] # "profiles" /\ (op[p] = "switch" => op[q] \notin Loads)
      BY <3>1 DEF Unguarded, Holding
    <3>3. Found' /\ (op[p] = "switch" => Read')
      BY <2>1, <3>1, <3>2 DEF ManagerType
    <3>4. Shows({card})
      BY <1>10, <2>2, <3>1
    <3>5. Shows({card - 1, card})'
      BY <1>5, <2>1, <3>1, <3>4 DEF Shows
    <3>6. ~Told' /\ (op[p] = "disable" => ~Kept')
      BY <2>1, <3>1 DEF Invalidating, Patching, ManagerType
    <3>7. QED
      BY <2>1, <3>3, <3>5, <3>6
  <2>5. QED
    BY <1>16, <2>3, <2>4 DEF Enable, Changed
<1>17. ASSUME NEW p \in Process, Stores(p), suspect' = {}
       PROVE  Current'
  <2>1. UNCHANGED <<card, gen, suspect>> /\ pc[p] = "store"
    BY <1>17 DEF Stores, StoreOverview, StoreProfiles, StoreChipInfo, world, hist
  <2>2. \/ UNCHANGED <<cache, lacks>>
        \/ cache' = loc[p].seen /\ (op[p] = "profiles" \/ (op[p] \in Loads /\ loc[p].gen = gen))
    BY <1>17 DEF Stores, StoreOverview, StoreProfiles, StoreChipInfo
  <2>3. \A q \in Process : ~Enable(q) /\ ~SwitchAccepted(q)
    <3>1. suspect' = suspect /\ reloading' = (reloading /\ p # Reload) /\ pc' = [pc EXCEPT ![p] = "idle"]
      BY <1>17, <2>1 DEF Stores, StoreOverview, StoreProfiles, StoreChipInfo, Leave, Return, Goto
    <3>2. \A q \in Process : q # p => pc'[q] = pc[q]
      BY <3>1 DEF ManagerType
    <3>3. \A q \in Process : Enable(q) => pc[q] = "enable" /\ pc'[q] # "enable"
      BY DEF Enable, Goto, ManagerType
    <3>4. \A q \in Process : SwitchAccepted(q) => pc[q] \in {"accepted", "presumed"} /\ pc'[q] = "unlock"
      BY DEF SwitchAccepted, Goto, ManagerType
    <3>5. QED
      BY <2>1, <3>2, <3>3, <3>4
  <2>4. (Told' => Told) /\ (Patched' => Patched) /\ (Kept' => Kept)
    BY <1>6, <1>9, <2>1, <2>3
  <2>5. (Read => Read') /\ (Found => Found')
    BY <1>3, <1>4, <2>1
  <2>6. Told => Kept
    OBVIOUS
  <2>7. Patched => Kept
    <3>1. SUFFICES ASSUME NEW a \in Process, Patching(a), NEW b \in Process, Invalidating(b)
                   PROVE  FALSE
      OBVIOUS
    <3>2. a = b
      BY <1>7, <1>8, <3>1
    <3>3. QED
      BY <3>1, <3>2 DEF Patching, Invalidating
  <2>8. Kept => UNCHANGED <<cache, lacks>> \/ cache' = card
    BY <1>10, <1>17, <2>1, <2>2
  <2>9. QED
    BY <1>10, <1>17, <2>1, <2>4, <2>5, <2>6, <2>7, <2>8 DEF Shows
<1>18. ASSUME NEW p \in Process, SwitchAccepted(p), suspect' = {}
       PROVE  Current'
  <2>1. /\ UNCHANGED <<card, gen, suspect, op, loc>> /\ pc[p] = "accepted" /\ op[p] = "switch"
        /\ pc' = [pc EXCEPT ![p] = "unlock"]
        /\ lacks' = lacks
        /\ IF cache # card - 1 THEN cache' = cache ELSE cache' = card \/ (lacks # "nothing" /\ cache' = cache)
    BY <1>18 DEF SwitchAccepted, Patch, Goto
  <2>2. Patching(p) /\ \A q \in Process : ~Patching(q)'
    BY <1>7, <2>1 DEF Patching, ManagerType, AtWrite, AtSwitch
  <2>3. Kept
    BY <1>7, <1>8, <2>1 DEF Invalidating, AtWrite, AtSwitch
  <2>4. Current
    BY <1>10, <1>18, <2>1
  <2>5. Shows({card})'
    BY <2>1, <2>2, <2>4 DEF Shows
  <2>6. Read' /\ Found'
    BY <1>3, <1>4, <2>1, <2>3, <2>4
  <2>7. QED
    BY <2>2, <2>5, <2>6
<1>19. ASSUME NEW p \in Process, Refresh(p), gen' = gen
       PROVE  /\ UNCHANGED <<card, gen, suspect, cache, lacks>>
              /\ \A q \in Process : ~Enable(q) /\ ~SwitchAccepted(q)
  <2>1. UNCHANGED <<card, gen, suspect, cache, lacks>> /\ pc' = [pc EXCEPT ![p] = "load"] /\ pc[p] = "refresh"
    BY <1>5, <1>19 DEF Refresh, Goto, world
  <2>2. \A q \in Process : q # p => pc'[q] = pc[q]
    BY <2>1 DEF ManagerType
  <2>3. \A q \in Process : Enable(q) => pc[q] = "enable" /\ pc'[q] # "enable"
    BY DEF Enable, Goto, ManagerType
  <2>4. \A q \in Process : SwitchAccepted(q) => pc[q] \in {"accepted", "presumed"} /\ pc'[q] = "unlock"
    BY DEF SwitchAccepted, Goto, ManagerType
  <2>5. QED
    BY <2>1, <2>2, <2>3, <2>4
<1>20. suspect' = {} => Current'
  BY <1>11, <1>12, <1>13, <1>14, <1>15, <1>16, <1>17, <1>18, <1>19, StashCases DEF Changes
<1>21. QED
  BY <1>1, <1>2, <1>20

AtEnd == {"unlock", "announce", "replace"}

(* A step that leaves tokens and barrier alone.                            *)
LEMMA TokensStay ==
    ASSUME ManagerAssumption, ManagerType, FlowInv, TokenInv, [Next]_vars,
           \A p \in Process : ~SwitchBegins(p) /\ ~BarrierGranted(p) /\ ~EnableRefused(p)
                              /\ ~SwitchAccepted(p) /\ ~DisableAccepted(p) /\ ~ReplaceAndClose(p),
           \A t \in DOMAIN token : ~AfterSwitch(t)
    PROVE  TokenInv'
<1> USE DEF world, locks, stash, loads, hist, Goto
<1>0. /\ DOMAIN pc = Process /\ DOMAIN loc = Process /\ Fresh.tok = 0 /\ Reload \in Process
      /\ \A p \in Process : loc[p] \in Locals
  BY DEF ManagerType, Fresh, Process
<1>1. UNCHANGED <<token, barrier, panicked>>
  <2>1. ASSUME NEW p \in Process, Step(p)
        PROVE  UNCHANGED <<token, barrier, panicked>>
    <3>1. CASE Lock(p) \/ Try(p) \/ ProbeEnds(p) \/ Listen(p) \/ Unlock(p) \/ ReadOld(p) \/ Refresh(p) \/ Scan(p)
      BY <3>1 DEF Lock, Try, ProbeEnds, Listen, Unlock, ReadOld, Refresh, Scan
    <3>2. CASE WaitTimesOut(p) \/ Follow(p) \/ ScanFails(p) \/ Stores(p) \/ LoadOverview(p)
      BY <3>2 DEF Stores, WaitTimesOut, Follow, ScanFails, StoreOverview, StoreProfiles,
                StoreChipInfo, LoadOverview
    <3>3. CASE ReturnEarly(p) \/ Changes(p) \/ DownloadFails(p) \/ Finish(p) \/ BarrierRefused(p)
      BY <3>3 DEF ReturnEarly, Changes, WriteCard, WriteUnanswered, Enable, DownloadFails, Finish, BarrierRefused
    <3>4. QED
      BY <2>1, <3>1, <3>2, <3>3 DEF Step, Stores, Changes
  <2>2. ASSUME \/ \E p \in Proc, o \in Ops : Begin(p, o)
               \/ CardExchanged \/ UIMIndication \/ SuppressionEnds \/ UNCHANGED vars
        PROVE  UNCHANGED <<token, barrier, panicked>>
    BY <2>2 DEF Begin, CardExchanged, UIMIndication, SuppressionEnds, vars
  <2>3. QED
    BY <2>1, <2>2, ManagerCases DEF Events
<1> DEFINE Keeps(q) == /\ loc'[q].tok = loc[q].tok
                       /\ pc[q] \in AtSwitch \cup AtEnd => pc'[q] \in AtSwitch \cup AtEnd
                       /\ pc'[q] \in AtSwitch => pc[q] \in AtSwitch
                       /\ pc[q] \in AtBarrier <=> pc'[q] \in AtBarrier
<1>2. ASSUME NEW p \in Process, Step(p)
      PROVE  Keeps(p)
  <2> USE <1>0 DEF AtSwitch, AtBarrier, AtEnd
  <2>1. CASE Lock(p) \/ Try(p) \/ ProbeEnds(p) \/ Refresh(p) \/ Unlock(p)
    BY <2>1 DEF Lock, Try, ProbeEnds, Refresh, Unlock
  <2>2. CASE Listen(p) \/ ReadOld(p) \/ Scan(p)
    BY <2>2 DEF Listen, ReadOld, Scan, Locals
  <2>3. CASE WaitTimesOut(p) \/ Follow(p) \/ ScanFails(p) \/ Stores(p)
    <3>1. /\ pc' = [pc EXCEPT ![p] = "idle"] /\ loc' = [loc EXCEPT ![p] = Fresh]
          /\ pc[p] \in {"wait", "follow", "scan", "store"}
      BY <2>3 DEF Stores, WaitTimesOut, Follow, ScanFails, StoreOverview, StoreProfiles,
                StoreChipInfo, Leave, Return
    <3>2. loc[p].tok = 0
      BY <3>1 DEF TokenInv
    <3>3. QED
      BY <3>1, <3>2
  <2>4. CASE LoadOverview(p)
    <3>1. loc[p].tok = 0 /\ pc[p] = "load"
      BY <2>4 DEF TokenInv, LoadOverview
    <3>2. \/ pc' = [pc EXCEPT ![p] = "idle"] /\ loc' = [loc EXCEPT ![p] = Fresh]
          \/ pc'[p] \in {"follow", "try"} /\ loc' = [loc EXCEPT ![p].gen = gen]
      BY <2>4 DEF LoadOverview, Leave, Return
    <3>3. QED
      BY <3>1, <3>2 DEF Locals
  <2>5. CASE ReturnEarly(p) \/ WriteCard(p) \/ WriteUnanswered(p) \/ DownloadFails(p) \/ BarrierRefused(p)
    BY <2>5 DEF ReturnEarly, WriteCard, WriteUnanswered, DownloadFails, BarrierRefused
  <2>6. CASE Enable(p)
    BY <2>6 DEF Enable
  <2>7. CASE Finish(p)
    <3>1. pc[p] = "finish" /\ TriggerAndGoto(p, "unlock") /\ loc' = loc
      BY <2>7 DEF Finish
    <3>2. p # Reload
      BY <3>1 DEF FlowInv, Loads, AtWrite
    <3>3. QED
      BY <3>1, <3>2 DEF TriggerAndGoto
  <2>8. QED
    BY <1>2, <2>1, <2>2, <2>3, <2>4, <2>5, <2>6, <2>7 DEF Step, Stores
<1>3. ASSUME NEW p \in Process, Step(p), NEW q \in Process, q # p
      PROVE  Keeps(q)
  BY <1>3, OthersStay DEF AtSwitch, AtBarrier, AtEnd
<1>4. ASSUME NEW p \in Proc, NEW o \in Ops, Begin(p, o), NEW q \in Process
      PROVE  Keeps(q)
  <2>1. /\ pc[p] = "idle" /\ loc' = [loc EXCEPT ![p].tok = 0]
        /\ \E l \in {"lock", "try", "load", "refresh"} : pc' = [pc EXCEPT ![p] = l]
    BY <1>4 DEF Begin
  <2>2. loc[p].tok = 0 /\ p \in Process
    BY <2>1 DEF TokenInv, AtSwitch, Process
  <2>3. QED
    BY <1>0, <2>1, <2>2 DEF AtSwitch, AtBarrier, AtEnd, Locals
<1>5. ASSUME Events, NEW q \in Process
      PROVE  Keeps(q)
  BY <1>0, <1>5, EventsMoveNothing DEF AtSwitch, AtBarrier, AtEnd
<1>6. ASSUME UNCHANGED vars, NEW q \in Process
      PROVE  Keeps(q)
  BY <1>6 DEF vars
<1>7. \A q \in Process : Keeps(q)
  BY <1>2, <1>3, <1>4, <1>5, <1>6, ManagerCases
<1>8. QED
  BY <1>1, <1>7 DEF TokenInv, AtEnd

(* Every step keeps a switch token the business of one call.               *)
LEMMA TokenStep ==
    ASSUME ManagerAssumption, ManagerType, FlowInv, TokenInv, [Next]_vars
    PROVE  TokenInv'
<1> USE DEF Goto, AtSwitch, AtBarrier
<1>0. /\ DOMAIN pc = Process /\ DOMAIN loc = Process /\ Nobody \notin Process
      /\ \A p \in Process : loc[p] \in Locals /\ loc[p].tok \in Nat
      /\ token \in Seq(Reports) /\ Len(token) \in Nat /\ DOMAIN token = 1 .. Len(token)
  BY DEF ManagerType, ManagerAssumption, Locals
<1>1. ASSUME NEW p \in Process, SwitchBegins(p)
      PROVE  TokenInv'
  <2>1. /\ pc[p] = "body" /\ pc' = [pc EXCEPT ![p] = "barrier"]
        /\ token' = Append(token, "begun") /\ loc' = [loc EXCEPT ![p].tok = Len(token')]
        /\ UNCHANGED <<barrier, panicked>>
    BY <1>1 DEF SwitchBegins, hist
  <2>2. /\ Len(token') = Len(token) + 1 /\ \A i \in 1 .. Len(token) : token'[i] = token[i]
        /\ token'[Len(token) + 1] = "begun"
    BY <1>0, <2>1, AppendProperties DEF Reports
  <2>3. /\ loc'[p].tok = Len(token) + 1
        /\ \A q \in Process \ {p} : loc'[q] = loc[q] /\ pc'[q] = pc[q]
    BY <1>0, <2>1, <2>2 DEF Locals
  <2>4. loc[p].tok = 0
    BY <2>1 DEF TokenInv
  <2>5. \A q \in Process : loc'[q].tok \in 0 .. Len(token')
    BY <1>0, <2>2, <2>3 DEF TokenInv
  <2>6. \A t \in 1 .. Len(token') : token'[t] = "begun" =>
           panicked' # {} \/ \E q \in Process : loc'[q].tok = t
    <3>1. SUFFICES ASSUME NEW t \in 1 .. Len(token'), token'[t] = "begun", panicked' = {}
                   PROVE  \E q \in Process : loc'[q].tok = t
      OBVIOUS
    <3>2. CASE t = Len(token) + 1
      BY <2>3, <3>2
    <3>3. CASE t # Len(token) + 1
      <4>1. t \in 1 .. Len(token)
        BY <1>0, <2>2, <3>1, <3>3
      <4>2. PICK q \in Process : loc[q].tok = t
        BY <2>1, <2>2, <3>1, <4>1 DEF TokenInv
      <4>3. q # p
        BY <2>4, <4>1, <4>2
      <4>4. QED
        BY <2>3, <4>2, <4>3
    <3>4. QED
      BY <3>2, <3>3
  <2>7. \A a, b \in Process : a # b /\ loc'[a].tok # 0 => loc'[a].tok # loc'[b].tok
    BY <1>0, <2>3 DEF TokenInv
  <2>8. \A q \in Process : pc'[q] \in AtSwitch => loc'[q].tok # 0 /\ token'[loc'[q].tok] = "begun"
    BY <1>0, <2>1, <2>2, <2>3 DEF TokenInv
  <2>9. QED
    BY <1>0, <2>1, <2>3, <2>5, <2>6, <2>7, <2>8 DEF TokenInv
<1>2. ASSUME NEW p \in Process, BarrierGranted(p)
      PROVE  TokenInv'
  BY <1>0, <1>2 DEF BarrierGranted, TokenInv, hist
<1>3. ASSUME NEW p \in Process, EnableRefused(p)
      PROVE  TokenInv'
  BY <1>0, <1>3 DEF EnableRefused, TokenInv, hist
<1>4. ASSUME NEW p \in Process, SwitchAccepted(p) \/ DisableAccepted(p)
      PROVE  TokenInv'
  <2>1. pc[p] \in {"accepted", "presumed"} /\ p # Reload /\ loc[p].tok \in 1 .. Len(token)
    BY <1>0, <1>4 DEF SwitchAccepted, DisableAccepted, FlowInv, Loads, AtWrite, TokenInv
  <2>2. /\ barrier' = Nobody /\ UNCHANGED <<loc, panicked>>
        /\ token' = [token EXCEPT ![loc[p].tok] = "accepted"]
        /\ pc'[p] = "unlock"
    BY <1>0, <1>4, <2>1 DEF SwitchAccepted, DisableAccepted, TriggerAndGoto, hist
  <2>3. /\ Len(token') = Len(token)
        /\ \A i \in 1 .. Len(token) : token'[i] = IF i = loc[p].tok THEN "accepted" ELSE token[i]
    BY <1>0, <2>1, <2>2, ExceptSeq DEF Reports
  <2>4. \A q \in Process \ {p} : pc'[q] = pc[q] \/ (pc[q] = "idle" /\ pc'[q] = "load")
    BY <1>4, OthersStay DEF Step
  <2>5. barrier = p /\ \A q \in Process \ {p} : pc[q] \notin AtBarrier
    BY <2>1 DEF TokenInv
  <2>6. QED
    BY <1>0, <2>1, <2>2, <2>3, <2>4, <2>5 DEF TokenInv
<1>5. ASSUME NEW p \in Process, ReplaceAndClose(p)
      PROVE  TokenInv'
  <2>1. /\ pc[p] = "replace" /\ pc' = [pc EXCEPT ![p] = "idle"] /\ loc' = [loc EXCEPT ![p] = Fresh]
        /\ barrier' = barrier /\ panicked \subseteq panicked'
        /\ token' = token \/ (loc[p].tok # 0 /\ token' = [token EXCEPT ![loc[p].tok] = "failed"])
        /\ panicked' # {} \/ loc[p].tok = 0 \/ token[loc[p].tok] # "begun" \/ token'= [token EXCEPT ![loc[p].tok] = "failed"]
    BY <1>5 DEF ReplaceAndClose, Return
  <2>2. Fresh.tok = 0
    BY DEF Fresh
  <2>3. loc[p].tok # 0 => loc[p].tok \in 1 .. Len(token)
    BY <1>0 DEF TokenInv
  <2>4. /\ Len(token') = Len(token)
        /\ \A i \in 1 .. Len(token) : token'[i] = token[i] \/ (i = loc[p].tok /\ token'[i] = "failed")
        /\ panicked' # {} \/ loc[p].tok = 0 \/ token'[loc[p].tok] # "begun"
    BY <1>0, <2>1, <2>3, ExceptSeq DEF Reports
  <2>5. \A q \in Process \ {p} : loc'[q] = loc[q] /\ pc'[q] = pc[q]
    BY <1>0, <2>1
  <2>6. \A t \in 1 .. Len(token') : token'[t] = "begun" =>
           panicked' # {} \/ \E q \in Process : loc'[q].tok = t
    BY <1>0, <2>1, <2>2, <2>4, <2>5 DEF TokenInv
  <2>7. \A q \in Process : pc'[q] \in AtSwitch => loc'[q].tok # 0 /\ token'[loc'[q].tok] = "begun"
    <3>1. SUFFICES ASSUME NEW q \in Process, pc'[q] \in AtSwitch
                   PROVE  loc'[q].tok # 0 /\ token'[loc'[q].tok] = "begun"
      OBVIOUS
    <3>2. q # p /\ pc[q] \in AtSwitch /\ loc'[q] = loc[q]
      BY <1>0, <2>1, <2>5, <3>1
    <3>3. loc[q].tok # 0 /\ token[loc[q].tok] = "begun" /\ loc[q].tok \in 1 .. Len(token) /\ loc[q].tok # loc[p].tok
      BY <1>0, <3>2 DEF TokenInv
    <3>4. QED
      BY <2>4, <3>2, <3>3
  <2>8. QED
    BY <1>0, <2>1, <2>2, <2>4, <2>5, <2>6, <2>7 DEF TokenInv
<1>6. ASSUME NEW t \in DOMAIN token, AfterSwitch(t)
      PROVE  TokenInv'
  <2>1. /\ token[t] = "accepted" /\ token' = [token EXCEPT ![t] = "after"]
        /\ UNCHANGED <<barrier, pc, loc, panicked>>
    BY <1>6 DEF AfterSwitch, hist
  <2>2. /\ Len(token') = Len(token)
        /\ \A i \in 1 .. Len(token) : token'[i] = IF i = t THEN "after" ELSE token[i]
    BY <1>0, <2>1, ExceptSeq DEF Reports
  <2>3. QED
    BY <1>0, <2>1, <2>2 DEF TokenInv
<1>7. QED
  BY <1>1, <1>2, <1>3, <1>4, <1>5, <1>6, TokensStay

(* The parts together are inductive.                                       *)
LEMMA ManagerInvariance == Spec => []ManagerInv
<1>1. Init => ManagerInv
  <2>1. SUFFICES ASSUME Init
                 PROVE  ManagerInv
    OBVIOUS
  <2>2. ManagerType
    BY <2>1 DEF Init, ManagerType, Places, Fresh, Locals, Ops, Loads, Missing
  <2>3. FlowInv
    BY <2>1 DEF Init, FlowInv, AtWrite, AtSwitch, Process
  <2>4. CacheInv /\ ChipInv
    BY <2>1 DEF Init, CacheInv, ChipInv, Holding, Patching, Invalidating, Fresh, Shows
  <2>5. Len(token) = 0
    BY <2>1 DEF Init
  <2>6. TokenInv
    BY <2>1, <2>5 DEF Init, TokenInv, AtSwitch, AtBarrier, Fresh
  <2>7. QED
    BY <2>2, <2>3, <2>4, <2>6 DEF ManagerInv
<1>2. ManagerInv /\ [Next]_vars => ManagerInv'
  <2>1. CacheInv => \A p \in Process : loc[p].gen <= gen
    BY DEF CacheInv
  <2>2. QED
    BY <2>1, ManagerTypeStep, FlowStep, CacheStep, ChipStep, TokenStep, ManagerAssumption DEF ManagerInv
<1>3. QED
  BY <1>1, <1>2, PTL DEF Spec

(* Unless one of the named causes has made it suspect, what the manager    *)
(* answers from its caches when no write runs is what the card holds; an   *)
(* overview may only leave something out.                                  *)
THEOREM CachesAreCurrent == Spec => []CacheIsCurrent
<1>1. ManagerInv => CacheIsCurrent
  <2>1. SUFFICES ASSUME ManagerInv, opMu = Nobody, suspect = {}
                 PROVE  Shows({card}) /\ chipCache \in {Nobody, chip}
    BY DEF CacheIsCurrent, Shows
  <2>2. \A p \in Process : ~Invalidating(p) /\ ~Patching(p)
    BY <2>1, ManagerAssumption DEF ManagerInv, FlowInv, ManagerAssumption, AtWrite, AtSwitch, Invalidating, Patching
  <2>3. QED
    BY <2>1, <2>2 DEF ManagerInv, CacheInv, ChipInv
<1>2. QED
  BY <1>1, ManagerInvariance, PTL

(* Every switch token handed out is answered by the time the call returns, *)
(* and no call returns with the barrier up.                                *)
THEOREM SwitchesReported == Spec => []SwitchReported
<1>1. ManagerInv => SwitchReported
  <2>1. SUFFICES ASSUME ManagerInv
                 PROVE  SwitchReported
    OBVIOUS
  <2>2. DOMAIN token = 1 .. Len(token)
    BY <2>1 DEF ManagerInv, ManagerType
  <2>3. ASSUME NEW p \in Process, loc[p].tok # 0
        PROVE  p \in Proc /\ pc[p] # "idle"
    BY <2>1, <2>3 DEF ManagerInv, FlowInv, TokenInv, Process, AtSwitch, AtWrite, Loads
  <2>4. \A t \in DOMAIN token : token[t] = "begun" =>
           panicked # {} \/ \E p \in Proc : pc[p] # "idle" /\ loc[p].tok = t
    <3>1. SUFFICES ASSUME NEW t \in 1 .. Len(token), token[t] = "begun", panicked = {}
                   PROVE  \E p \in Proc : pc[p] # "idle" /\ loc[p].tok = t
      BY <2>2
    <3>2. PICK p \in Process : loc[p].tok = t
      BY <2>1, <3>1 DEF ManagerInv, TokenInv
    <3>3. QED
      BY <2>3, <3>1, <3>2
  <2>5. barrier # Nobody =>
           opMu = barrier /\ token[loc[barrier].tok] = "begun" /\ pc[barrier] # "unlock"
    BY <2>1 DEF ManagerInv, FlowInv, TokenInv, AtSwitch, AtBarrier, AtWrite
  <2>6. QED
    BY <2>4, <2>5 DEF SwitchReported
<1>2. QED
  BY <1>1, ManagerInvariance, PTL

-----------------------------------------------------------
(***************************************************************************)
(* Transports.                                                             *)
(***************************************************************************)
TransportType ==
    /\ lease \in [Client -> T!Leases \cup {NoLease}]
    /\ open \in [Channel -> SUBSET Client]
    /\ epoch \in Nat /\ conn \in Nat /\ started \in Nat /\ expired \in Nat
    /\ tpc \in [Client -> {"idle", "lease", "mutex", "wire"}]
    /\ top \in [Client -> {"open", "apdu", "close", "clear"}]
    /\ my \in [Client -> Channel \cup {NoChannel}]
    /\ mu \in [Client -> Nat]
    /\ orphans \subseteq Channel

Calling(p) == tpc[p] \in {"mutex", "wire"}

(* A call has the lease it asked for until it returns, unless the watchdog *)
(* has taken one; leases held together can live together.                  *)
LeaseInv ==
    /\ arbiter /\ expired = 0 =>
         \A p \in Client : lease[p] = IF Calling(p) THEN T!LeaseFor(p) ELSE NoLease
    /\ \A p, q \in Client : p # q /\ lease[p] # NoLease /\ lease[q] # NoLease =>
         T!Compatible(lease[p], lease[q])

(* Calls on the wire have locked different mutexes; only a Stop of the QMI *)
(* backend replaces them.                                                  *)
MutexInv ==
    /\ kind # "qmi" => epoch = 0
    /\ \A p \in Client : mu[p] <= epoch
    /\ \A p, q \in Client : p # q /\ T!OnWire(p) /\ T!OnWire(q) =>
         <<mu[p], T!MutexOf(p)>> # <<mu[q], T!MutexOf(q)>>

(* An open channel is its owner's alone unless it was closed behind the    *)
(* owner's back; a client opens a channel, or clears, only when it has none. *)
ChannelInv ==
    /\ \A p \in Client : tpc[p] # "idle" /\ top[p] \in {"open", "clear"} => my[p] = NoChannel
    /\ \A c \in Channel : \A p \in open[c] : my[p] = c \/ c \in orphans
    /\ \A p \in Client \ bereft : my[p] # NoChannel => open[my[p]] = {p}

TransportInv == TransportType /\ LeaseInv /\ MutexInv /\ ChannelInv

(* Nobody has begun.                                                       *)
LEMMA TransportInit == T!Init => TransportInv
<1>1. SUFFICES ASSUME T!Init
               PROVE  TransportInv
  OBVIOUS
<1>2. TransportType
  BY <1>1 DEF T!Init, T!A!Init, TransportType
<1>3. LeaseInv
  BY <1>1 DEF T!Init, T!A!Init, LeaseInv, Calling
<1>4. MutexInv
  BY <1>1 DEF T!Init, MutexInv, T!OnWire
<1>5. ChannelInv
  BY <1>1 DEF T!Init, ChannelInv
<1>6. QED
  BY <1>2, <1>3, <1>4, <1>5 DEF TransportInv

(* A lease a client asks for is one the arbiter knows.                     *)
LEMMA LeaseForType ==
    ASSUME TransportType, NEW p \in Client
    PROVE  T!LeaseFor(p) \in T!Leases
BY DEF TransportType, T!LeaseFor, T!Leases, T!Class, T!Scope

(* Every call ends in Finish: what it held is given back.                  *)
LEMMA FinishGivesBack ==
    ASSUME TransportType, NEW p \in Client, T!Finish(p)
    PROVE  /\ lease' = [lease EXCEPT ![p] = NoLease]
           /\ tpc' = [tpc EXCEPT ![p] = "idle"]
           /\ top' = [top EXCEPT ![p] = "open"]
           /\ mu' = [mu EXCEPT ![p] = 0]
BY DEF T!Finish, T!A!Release, TransportType

Returns(p) ==
    \/ T!GiveUp(p) \/ T!NoUIM(p) \/ T!Opened(p) \/ T!OpenFails(p)
    \/ T!Transmitted(p) \/ T!Closed(p) \/ T!CloseFails(p) \/ T!Cleared(p)

(* However an operation returns, it gives back what it holds.              *)
LEMMA ReturnsFinishes ==
    ASSUME NEW p \in Client, Returns(p)
    PROVE  /\ T!Finish(p)
           /\ UNCHANGED <<kind, arbiter, epoch, conn, started, expired>>
           /\ tpc[p] # "idle"
BY DEF Returns, T!GiveUp, T!NoUIM, T!Opened, T!OpenFails, T!Transmitted, T!Closed, T!CloseFails,
       T!Cleared, T!history, T!OnWire, T!Answered

Troubles == T!StopLocks \/ T!StopClient \/ T!Start \/ T!CardReset

(* Next, one disjunct per client step, and the troubles.                   *)
LEMMA TransportCases ==
    ASSUME [T!Next]_(T!vars)
    PROVE  \/ \E p \in Client : \/ \E o \in {"open", "apdu", "close", "clear"} : T!Begin(p, o)
                                \/ T!Acquire(p) \/ T!Send(p) \/ Returns(p) \/ T!Expire(p)
           \/ Troubles
           \/ UNCHANGED T!vars
BY DEF T!Next, Returns, Troubles

(* Every step keeps the types.                                             *)
LEMMA TransportTypeStep ==
    ASSUME TransportType, [T!Next]_(T!vars)
    PROVE  TransportType'
<1> USE DEF T!station, T!history
<1>1. ASSUME NEW p \in Client, NEW o \in {"open", "apdu", "close", "clear"}, T!Begin(p, o)
      PROVE  TransportType'
  BY <1>1 DEF T!Begin, TransportType
<1>2. ASSUME NEW p \in Client, T!Acquire(p)
      PROVE  TransportType'
  BY <1>2, LeaseForType DEF T!Acquire, T!A!Grant, TransportType
<1>3. ASSUME NEW p \in Client, T!Send(p)
      PROVE  TransportType'
  BY <1>3 DEF T!Send, TransportType
<1>4. ASSUME NEW p \in Client, T!Expire(p)
      PROVE  TransportType'
  BY <1>4 DEF T!Expire, T!A!Release, TransportType
<1>5. ASSUME NEW p \in Client, Returns(p)
      PROVE  TransportType'
  <2>1. /\ lease' = [lease EXCEPT ![p] = NoLease]
        /\ tpc' = [tpc EXCEPT ![p] = "idle"]
        /\ top' = [top EXCEPT ![p] = "open"]
        /\ mu' = [mu EXCEPT ![p] = 0]
        /\ UNCHANGED <<epoch, conn, started, expired>>
    BY <1>5, ReturnsFinishes, FinishGivesBack
  <2>2. my' \in [Client -> Channel \cup {NoChannel}] /\ orphans' \subseteq Channel
    BY <1>5 DEF Returns, T!GiveUp, T!NoUIM, T!Opened, T!OpenFails, T!Transmitted, T!Closed,
                T!CloseFails, T!Cleared, T!Drop, TransportType
  <2>3. open' \in [Channel -> SUBSET Client]
    BY <1>5 DEF Returns, T!GiveUp, T!NoUIM, T!Opened, T!OpenFails, T!Transmitted, T!Closed,
                T!CloseFails, T!Cleared, T!CloseOnCard, TransportType
  <2>4. QED
    BY <2>1, <2>2, <2>3 DEF TransportType
<1>6. ASSUME Troubles
      PROVE  TransportType'
  BY <1>6 DEF Troubles, T!StopLocks, T!StopClient, T!Start, T!CardReset, TransportType
<1>7. ASSUME UNCHANGED T!vars
      PROVE  TransportType'
  BY <1>7 DEF T!vars, TransportType
<1>8. QED
  BY <1>1, <1>2, <1>3, <1>4, <1>5, <1>6, <1>7, TransportCases

(* Every step keeps a client on the wire under a lease, or one that        *)
(* expired.                                                                *)
LEMMA LeaseStep ==
    ASSUME T!TransportsAssumption, TransportType, LeaseInv, [T!Next]_(T!vars)
    PROVE  LeaseInv'
<1> USE DEF T!station, T!history
<1>1. ASSUME NEW p \in Client, NEW o \in {"open", "apdu", "close", "clear"}, T!Begin(p, o)
      PROVE  LeaseInv'
  <2>1. /\ UNCHANGED <<kind, arbiter, lease, my, expired>> /\ tpc[p] = "idle"
        /\ tpc' = [tpc EXCEPT ![p] = "lease"] /\ top' = [top EXCEPT ![p] = o]
    BY <1>1 DEF T!Begin
  <2>2. ASSUME NEW q \in Client, Calling(q)'
        PROVE  Calling(q) /\ T!LeaseFor(q)' = T!LeaseFor(q)
    BY <2>1, <2>2 DEF Calling, T!LeaseFor, TransportType
  <2>3. \A q \in Client : Calling(q) => Calling(q)'
    BY <2>1 DEF Calling, TransportType
  <2>4. QED
    BY <2>1, <2>2, <2>3 DEF LeaseInv, T!Compatible
<1>2. ASSUME NEW p \in Client, T!Acquire(p)
      PROVE  LeaseInv'
  <2>1. /\ UNCHANGED <<kind, arbiter, top, my, expired>>
        /\ tpc' = [tpc EXCEPT ![p] = "mutex"]
    BY <1>2 DEF T!Acquire
  <2>2. \A q \in Client : T!LeaseFor(q)' = T!LeaseFor(q)
    BY <2>1 DEF T!LeaseFor
  <2>3. CASE arbiter
    <3>1. /\ lease' = [lease EXCEPT ![p] = T!LeaseFor(p)]
          /\ \A d \in Client : lease[d] # NoLease => T!Compatible(T!LeaseFor(p), lease[d])
      BY <1>2, <2>3 DEF T!Acquire, T!A!Grant, T!A!Holders
    <3>2. \A q \in Client \ {p} : Calling(q)' <=> Calling(q)
      BY <2>1 DEF Calling, TransportType
    <3>3. Calling(p)'
      BY <2>1 DEF Calling, TransportType
    <3>4. QED
      BY <2>1, <2>2, <3>1, <3>2, <3>3 DEF LeaseInv, T!Compatible, TransportType
  <2>4. CASE ~arbiter
    <3>1. lease' = lease /\ ~arbiter'
      BY <1>2, <2>4 DEF T!Acquire
    <3>2. QED
      BY <3>1 DEF LeaseInv, T!Compatible
  <2>5. QED
    BY <2>3, <2>4
<1>3. ASSUME NEW p \in Client, T!Send(p)
      PROVE  LeaseInv'
  <2>1. /\ UNCHANGED <<kind, arbiter, lease, top, my, expired>> /\ tpc[p] = "mutex"
        /\ tpc' = [tpc EXCEPT ![p] = "wire"]
    BY <1>3 DEF T!Send
  <2>2. \A q \in Client : (Calling(q)' <=> Calling(q)) /\ T!LeaseFor(q)' = T!LeaseFor(q)
    BY <2>1 DEF Calling, T!LeaseFor, TransportType
  <2>3. QED
    BY <2>1, <2>2 DEF LeaseInv, T!Compatible
<1>4. ASSUME NEW p \in Client, T!Expire(p)
      PROVE  LeaseInv'
  <2>1. lease' = [lease EXCEPT ![p] = NoLease] /\ expired' # 0
    BY <1>4 DEF T!Expire, T!A!Release, TransportType
  <2>2. QED
    BY <2>1 DEF LeaseInv, T!Compatible, TransportType
<1>5. ASSUME NEW p \in Client, Returns(p)
      PROVE  LeaseInv'
  <2>1. /\ lease' = [lease EXCEPT ![p] = NoLease]
        /\ tpc' = [tpc EXCEPT ![p] = "idle"]
        /\ top' = [top EXCEPT ![p] = "open"]
        /\ UNCHANGED <<kind, arbiter, expired>>
    BY <1>5, ReturnsFinishes, FinishGivesBack
  <2>2. my' = my \/ \E c : my' = [my EXCEPT ![p] = c]
    BY <1>5 DEF Returns, T!GiveUp, T!NoUIM, T!Opened, T!OpenFails, T!Transmitted, T!Closed,
                T!CloseFails, T!Cleared, T!Drop
  <2>3. \A q \in Client \ {p} : (Calling(q)' <=> Calling(q)) /\ T!LeaseFor(q)' = T!LeaseFor(q)
    BY <2>1, <2>2 DEF Calling, T!LeaseFor, TransportType
  <2>4. ~Calling(p)'
    BY <2>1 DEF Calling, TransportType
  <2>5. QED
    BY <2>1, <2>3, <2>4 DEF LeaseInv, T!Compatible, TransportType
<1>6. ASSUME Troubles \/ UNCHANGED T!vars
      PROVE  UNCHANGED <<kind, arbiter, lease, tpc, top, my, expired>>
  BY <1>6 DEF Troubles, T!StopLocks, T!StopClient, T!Start, T!CardReset, T!vars
<1>7. ASSUME UNCHANGED <<kind, arbiter, lease, tpc, top, my, expired>>
      PROVE  LeaseInv'
  BY <1>7 DEF LeaseInv, Calling, T!LeaseFor, T!Compatible
<1>8. QED
  BY <1>1, <1>2, <1>3, <1>4, <1>5, <1>6, <1>7, TransportCases

(* Every step keeps a channel mutex with one owner in its epoch.           *)
LEMMA MutexStep ==
    ASSUME TransportType, MutexInv, [T!Next]_(T!vars)
    PROVE  MutexInv'
<1> USE DEF T!station, T!history
<1>1. ASSUME NEW p \in Client, NEW o \in {"open", "apdu", "close", "clear"}, T!Begin(p, o)
      PROVE  MutexInv'
  <2>1. /\ UNCHANGED <<kind, epoch, my, mu>>
        /\ tpc' = [tpc EXCEPT ![p] = "lease"] /\ top' = [top EXCEPT ![p] = o]
    BY <1>1 DEF T!Begin
  <2>2. ASSUME NEW q \in Client, T!OnWire(q)'
        PROVE  T!OnWire(q) /\ T!MutexOf(q)' = T!MutexOf(q)
    BY <2>1, <2>2 DEF T!OnWire, T!MutexOf, TransportType
  <2>3. QED
    BY <2>1, <2>2 DEF MutexInv
<1>2. ASSUME NEW p \in Client, T!Acquire(p)
      PROVE  MutexInv'
  <2>1. /\ UNCHANGED <<kind, epoch, my, top>>
        /\ tpc' = [tpc EXCEPT ![p] = "mutex"] /\ mu' = [mu EXCEPT ![p] = epoch]
    BY <1>2 DEF T!Acquire
  <2>2. ASSUME NEW q \in Client, T!OnWire(q)'
        PROVE  T!OnWire(q) /\ T!MutexOf(q)' = T!MutexOf(q) /\ mu'[q] = mu[q]
    BY <2>1, <2>2 DEF T!OnWire, T!MutexOf, TransportType
  <2>3. \A q \in Client : mu'[q] <= epoch'
    BY <2>1 DEF MutexInv, TransportType
  <2>4. QED
    BY <2>1, <2>2, <2>3 DEF MutexInv
<1>3. ASSUME NEW p \in Client, T!Send(p)
      PROVE  MutexInv'
  <2>1. /\ UNCHANGED <<kind, epoch, my, top, mu>>
        /\ tpc' = [tpc EXCEPT ![p] = "wire"]
        /\ \A q \in Client \ {p} : T!OnWire(q) => <<mu[q], T!MutexOf(q)>> # <<mu[p], T!MutexOf(p)>>
    BY <1>3 DEF T!Send
  <2>2. \A q \in Client : T!MutexOf(q)' = T!MutexOf(q)
    BY <2>1 DEF T!MutexOf
  <2>3. \A q \in Client \ {p} : T!OnWire(q)' <=> T!OnWire(q)
    BY <2>1 DEF T!OnWire, TransportType
  <2>4. QED
    BY <2>1, <2>2, <2>3 DEF MutexInv
<1>4. ASSUME NEW p \in Client, Returns(p)
      PROVE  MutexInv'
  <2>1. /\ tpc' = [tpc EXCEPT ![p] = "idle"]
        /\ top' = [top EXCEPT ![p] = "open"]
        /\ mu' = [mu EXCEPT ![p] = 0]
        /\ UNCHANGED <<kind, epoch>>
    BY <1>4, ReturnsFinishes, FinishGivesBack
  <2>2. my' = my \/ \E c : my' = [my EXCEPT ![p] = c]
    BY <1>4 DEF Returns, T!GiveUp, T!NoUIM, T!Opened, T!OpenFails, T!Transmitted, T!Closed,
                T!CloseFails, T!Cleared, T!Drop
  <2>3. ASSUME NEW q \in Client, T!OnWire(q)'
        PROVE  T!OnWire(q) /\ T!MutexOf(q)' = T!MutexOf(q) /\ mu'[q] = mu[q]
    BY <2>1, <2>2, <2>3 DEF T!OnWire, T!MutexOf, TransportType
  <2>4. \A q \in Client : mu'[q] <= epoch'
    BY <2>1 DEF MutexInv, TransportType
  <2>5. QED
    BY <2>1, <2>3, <2>4 DEF MutexInv
<1>5. ASSUME T!StopLocks
      PROVE  MutexInv'
  BY <1>5 DEF T!StopLocks, MutexInv, T!OnWire, T!MutexOf, TransportType
<1>6. ASSUME \/ \E p \in Client : T!Expire(p)
             \/ T!StopClient \/ T!Start \/ T!CardReset \/ UNCHANGED T!vars
      PROVE  UNCHANGED <<kind, epoch, tpc, top, my, mu>>
  BY <1>6 DEF T!Expire, T!StopClient, T!Start, T!CardReset, T!vars
<1>7. ASSUME UNCHANGED <<kind, epoch, tpc, top, my, mu>>
      PROVE  MutexInv'
  BY <1>7 DEF MutexInv, T!OnWire, T!MutexOf
<1>8. QED
  BY <1>1, <1>2, <1>3, <1>4, <1>5, <1>6, <1>7, TransportCases DEF Troubles

(* Every step keeps open channels with their owners or the orphans.        *)
LEMMA ChannelStep ==
    ASSUME T!TransportsAssumption, TransportType, ChannelInv, [T!Next]_(T!vars)
    PROVE  ChannelInv'
<1> USE DEF T!station, T!history, T!OnWire, T!Answered
<1>0. NoChannel \notin Channel
  BY DEF T!TransportsAssumption
<1>1. ASSUME NEW p \in Client, NEW o \in {"open", "apdu", "close", "clear"}, T!Begin(p, o)
      PROVE  ChannelInv'
  BY <1>1 DEF T!Begin, ChannelInv, TransportType
<1>2. ASSUME NEW p \in Client, T!Acquire(p) \/ T!Send(p) \/ T!Expire(p)
      PROVE  ChannelInv'
  <2>1. /\ UNCHANGED <<open, top, my, orphans, bereft>>
        /\ \A q \in Client : tpc'[q] # "idle" => tpc[q] # "idle"
    BY <1>2 DEF T!Acquire, T!Send, T!Expire, TransportType
  <2>2. QED
    BY <2>1 DEF ChannelInv
<1>3. ASSUME NEW p \in Client, Returns(p)
      PROVE  ChannelInv'
  <2>1. /\ tpc' = [tpc EXCEPT ![p] = "idle"]
        /\ top' = [top EXCEPT ![p] = "open"]
        /\ tpc[p] # "idle"
    BY <1>3, ReturnsFinishes, FinishGivesBack
  <2>2. \A q \in Client : tpc'[q] # "idle" => q # p /\ tpc[q] # "idle" /\ top'[q] = top[q]
    BY <2>1 DEF TransportType
  <2>3. ASSUME T!GiveUp(p) \/ T!NoUIM(p)
        PROVE  ChannelInv'
    BY <1>0, <2>1, <2>2, <2>3 DEF T!GiveUp, T!NoUIM, T!Drop, ChannelInv, TransportType
  <2>4. ASSUME T!Opened(p)
        PROVE  ChannelInv'
    <3>1. PICK c \in Channel : open[c] = {} /\ open' = [open EXCEPT ![c] = {p}]
                               /\ my' = [my EXCEPT ![p] = c]
      BY <2>4 DEF T!Opened
    <3>2. orphans' = orphans /\ my[p] = NoChannel /\ bereft' = bereft \ {p}
      BY <2>4 DEF T!Opened, ChannelInv
    <3>3. \A d \in Channel : \A q \in open'[d] : my'[q] = d \/ d \in orphans'
      BY <1>0, <3>1, <3>2 DEF ChannelInv, TransportType
    <3>4. \A q \in Client \ bereft' : my'[q] # NoChannel => open'[my'[q]] = {q}
      BY <1>0, <3>1, <3>2 DEF ChannelInv, TransportType
    <3>5. QED
      BY <2>1, <2>2, <3>1, <3>3, <3>4 DEF ChannelInv, TransportType
  <2>5. ASSUME T!OpenFails(p)
        PROVE  ChannelInv'
    <3>1. my' = my /\ bereft' = bereft
      BY <2>5 DEF T!OpenFails
    <3>2. \/ UNCHANGED <<open, orphans>>
          \/ \E c \in Channel : /\ open[c] = {} /\ open' = [open EXCEPT ![c] = {p}]
                                /\ orphans' = orphans \cup {c}
      BY <2>5 DEF T!OpenFails
    <3>3. QED
      BY <1>0, <2>1, <2>2, <3>1, <3>2 DEF ChannelInv, TransportType
  <2>6. ASSUME T!Transmitted(p)
        PROVE  ChannelInv'
    BY <2>1, <2>2, <2>6 DEF T!Transmitted, ChannelInv
  <2>7. ASSUME NEW c \in Channel \cup {NoChannel}, T!CloseOnCard(p, c), orphans \subseteq orphans' \cup {c},
               my[p] \in {c, NoChannel}, my' = [my EXCEPT ![p] = NoChannel]
        PROVE  ChannelInv'
    <3>1. /\ open' = [open EXCEPT ![c] = {}]
          /\ bereft' = bereft \cup {q \in Client \ {p} : my[q] = c}
      BY <2>7 DEF T!CloseOnCard
    <3>2. my'[p] = NoChannel /\ \A q \in Client \ {p} : my'[q] = my[q]
      BY <2>7 DEF TransportType
    <3>3. \A d \in Channel : \A q \in open'[d] : my'[q] = d \/ d \in orphans'
      BY <1>0, <2>7, <3>1, <3>2 DEF ChannelInv, TransportType
    <3>4. \A q \in Client \ bereft' : my'[q] # NoChannel => open'[my'[q]] = {q}
      BY <1>0, <3>1, <3>2 DEF ChannelInv, TransportType
    <3>5. QED
      BY <2>1, <2>2, <3>2, <3>3, <3>4 DEF ChannelInv
  <2>8. ASSUME T!Closed(p)
        PROVE  ChannelInv'
    <3>1. T!CloseOnCard(p, my[p]) /\ my' = [my EXCEPT ![p] = NoChannel] /\ orphans' = orphans \ {my[p]}
      BY <2>8 DEF T!Closed
    <3>2. QED
      BY <2>7, <3>1 DEF TransportType
  <2>9. ASSUME T!CloseFails(p)
        PROVE  ChannelInv'
    <3>1. /\ my' = [my EXCEPT ![p] = NoChannel]
          /\ orphans' = orphans \cup {c \in Channel : c = my[p]}
          /\ T!CloseOnCard(p, my[p]) \/ UNCHANGED <<open, bereft>>
      BY <2>9 DEF T!CloseFails, T!Drop
    <3>2. CASE T!CloseOnCard(p, my[p])
      BY <2>7, <3>1, <3>2 DEF TransportType
    <3>3. CASE UNCHANGED <<open, bereft>>
      BY <1>0, <2>1, <2>2, <3>1, <3>3 DEF ChannelInv, TransportType
    <3>4. QED
      BY <3>1, <3>2, <3>3
  <2>10. ASSUME T!Cleared(p)
         PROVE  ChannelInv'
    <3>1. my[p] = NoChannel /\ my' = my /\ my' = [my EXCEPT ![p] = NoChannel]
      BY <2>1, <2>10 DEF T!Cleared, ChannelInv, TransportType
    <3>2. CASE UNCHANGED <<open, bereft, orphans>>
      BY <2>1, <2>2, <3>1, <3>2 DEF ChannelInv
    <3>3. CASE \E c \in Channel : T!CloseOnCard(p, c) /\ orphans' = orphans \ {c}
      BY <2>7, <3>1, <3>3
    <3>4. QED
      BY <2>10, <3>2, <3>3 DEF T!Cleared
  <2>11. QED
    BY <1>3, <2>3, <2>4, <2>5, <2>6, <2>8, <2>9, <2>10 DEF Returns
<1>4. ASSUME T!CardReset
      PROVE  ChannelInv'
  BY <1>4 DEF T!CardReset, ChannelInv, TransportType
<1>5. ASSUME T!StopLocks \/ T!StopClient \/ T!Start \/ UNCHANGED T!vars
      PROVE  ChannelInv'
  BY <1>5 DEF T!StopLocks, T!StopClient, T!Start, T!vars, ChannelInv
<1>6. QED
  BY <1>1, <1>2, <1>3, <1>4, <1>5, TransportCases DEF Troubles

(* The parts together are inductive.                                       *)
LEMMA TransportInvariance == T!Spec => []TransportInv
<1>1. T!Init => TransportInv
  BY TransportInit
<1>2. TransportInv /\ [T!Next]_(T!vars) => TransportInv'
  BY TransportTypeStep, LeaseStep, MutexStep, ChannelStep, EsimConfiguration DEF TransportInv
<1>3. QED
  BY <1>1, <1>2, PTL DEF T!Spec

(* Exclusive calls never meet on the wire while the arbiter watches and    *)
(* its watchdog has taken no lease; two calls of one channel meet only     *)
(* when a Stop has replaced the mutexes besides; AT commands never.        *)
THEOREM WiresExclude == T!Spec => []WireExclusion
<1>1. ASSUME TransportInv
      PROVE  WireExclusion
  <2>1. SUFFICES ASSUME NEW p \in Client, NEW q \in Client, p # q, T!OnWire(p), T!OnWire(q)
                 PROVE  LET alike == IF top[p] = "apdu" THEN top[q] = "apdu" /\ my[p] = my[q]
                                                        ELSE top[q] # "apdu"
                            exclusive == kind # "qmi" \/ top[p] # "apdu" \/ top[q] # "apdu"
                            leased == arbiter /\ expired = 0
                        IN /\ kind \notin {"at", "serial"}
                           /\ ~(exclusive /\ leased)
                           /\ alike => ~leased /\ epoch > 0
    BY Zenon DEF WireExclusion, T!WireExclusion
  <2>2. kind \in {"at", "serial"} => FALSE
    BY <1>1, <2>1 DEF TransportInv, TransportType, MutexInv, T!MutexOf
  <2>3. ASSUME arbiter, expired = 0
        PROVE  T!Compatible(T!LeaseFor(p), T!LeaseFor(q))
    <3>1. lease[p] = T!LeaseFor(p) /\ lease[q] = T!LeaseFor(q)
      BY <1>1, <2>1, <2>3 DEF TransportInv, LeaseInv, Calling, T!OnWire
    <3>2. T!LeaseFor(p) # NoLease /\ T!LeaseFor(q) # NoLease
      BY <1>1, LeaseForType, EsimConfiguration DEF TransportInv, T!TransportsAssumption
    <3>3. QED
      BY <1>1, <2>1, <3>1, <3>2 DEF TransportInv, LeaseInv
  <2>4. QED
    BY <1>1, <2>1, <2>2, <2>3
    DEF TransportInv, TransportType, MutexInv, T!MutexOf, T!Compatible, T!LeaseFor
<1>2. QED
  BY <1>1, TransportInvariance, PTL

(* No channel is open on the card that nobody can close and no failure has *)
(* left behind; a client reaches another's channel only after its own was  *)
(* closed behind its back.                                                 *)
THEOREM ChannelsHaveOwners == T!Spec => []ChannelsAccounted
<1>1. TransportInv => ChannelsAccounted
  BY DEF TransportInv, ChannelInv, ChannelsAccounted, T!ChannelsAccounted
<1>2. QED
  BY <1>1, TransportInvariance, PTL

-----------------------------------------------------------------------------
(***************************************************************************)
(* Notifications.  The card numbers them 1, 2, ...; the highest number of  *)
(* a list tells what comes later from what was there.                      *)
(***************************************************************************)
Numbered(ns) == \A n \in ns : n.seq \in 1 .. seq

NoteInv ==
    /\ seq \in Nat
    /\ Numbered(list)
    /\ RemovedWereSent

(* Every nonempty set of naturals has a least element. *)
LEMMA LeastNumber ==
    ASSUME NEW U \in SUBSET Nat, U # {}
    PROVE  \E m \in U : \A k \in U : m <= k
<1> DEFINE R == OpToRel(<, Nat)
<1>1. U \subseteq Nat /\ IsWellFoundedOn(R, Nat)
  BY NatLessThanWellFounded
<1>2. \A k, m \in U : <<k, m>> \in R <=> k < m
  BY DEF OpToRel
<1> HIDE DEF R
<1>3. PICK m \in U : \A k \in U : ~(<<k, m>> \in R)
  BY <1>1, WFMin, Zenon
<1>4. \A k \in U : ~(k < m)
  BY <1>2, <1>3
<1>5. QED
  BY <1>1, <1>4

(* maxNotificationSequence is a bound of the numbers of its list.          *)
LEMMA MaxSequenceBounds ==
    ASSUME seq \in Nat, NEW ns, Numbered(ns)
    PROVE  N!MaxSequence(ns) \in Nat /\ \A n \in ns : n.seq <= N!MaxSequence(ns)
<1>1. CASE ns = {}
  BY <1>1 DEF N!MaxSequence
<1>2. CASE ns # {}
  <2> DEFINE U == {b \in Nat : \A n \in ns : n.seq <= b}
  <2>1. PICK m \in U : \A k \in U : m <= k
    <3>1. seq \in U /\ U \in SUBSET Nat
      BY DEF Numbered
    <3>2. QED
      BY <3>1, LeastNumber
  <2>2. \E n \in ns : n.seq = m
    <3>1. SUFFICES ASSUME \A n \in ns : n.seq # m
                   PROVE  FALSE
      OBVIOUS
    <3>2. m \in Nat /\ \A n \in ns : n.seq \in 1 .. seq /\ n.seq <= m
      BY <2>1 DEF Numbered
    <3>3. \A n \in ns : n.seq <= m - 1
      BY <3>1, <3>2
    <3>4. m - 1 \in Nat
      BY <1>2, <3>2, <3>3
    <3>5. m - 1 \in U
      BY <3>3, <3>4
    <3>6. QED
      BY <2>1, <3>2, <3>5
  <2>3. \E n \in ns : \A o \in ns : o.seq <= n.seq
    BY <2>1, <2>2
  <2> DEFINE top1 == CHOOSE n \in ns : \A o \in ns : o.seq <= n.seq
  <2>4. top1 \in ns /\ \A o \in ns : o.seq <= top1.seq
    BY <2>3, Zenon
  <2>5. N!MaxSequence(ns) = top1.seq
    BY <1>2, Zenon DEF N!MaxSequence
  <2>6. top1.seq \in Nat
    BY <2>4 DEF Numbered
  <2>7. QED
    BY <2>4, <2>5, <2>6
<1>3. QED
  BY <1>1, <1>2

(* What is newer than the baseline of a download is its own notification,  *)
(* if the list could be read before it or its result had the number.       *)
LEMMA OnlyOwnInstallMatches ==
    ASSUME NoteInv, NEW preOK \in BOOLEAN, NEW own \in {0, seq + 1}, preOK \/ own > 0,
           NEW n \in N!Install(list)
    PROVE  ~(n.seq > N!Baseline(N!Pre(preOK), own))
<1>1. n \in list /\ n.seq \in 1 .. seq /\ seq \in Nat
  BY DEF NoteInv, Numbered, N!Install
<1>2. Numbered(N!Pre(preOK)) /\ (preOK => n \in N!Pre(preOK))
  BY DEF NoteInv, Numbered, N!Install, N!Pre
<1>3. N!MaxSequence(N!Pre(preOK)) \in Nat /\ (preOK => n.seq <= N!MaxSequence(N!Pre(preOK)))
  BY <1>1, <1>2, MaxSequenceBounds
<1> HIDE DEF N!MaxSequence
<1>4. CASE own > 0
  BY <1>1, <1>3, <1>4 DEF N!Baseline
<1>5. CASE ~(own > 0)
  BY <1>1, <1>3, <1>5 DEF N!Baseline
<1>6. QED
  BY <1>4, <1>5

(* An operation sends nothing it was not asked to send.                    *)
LEMMA SentOrWithheld ==
    ASSUME NEW matches, NEW n, matches \subseteq {n}, N!Send(matches, "none")
    PROVE  n \in sent' \cup withheld'
BY DEF N!Send

(* Every operation keeps account of the notifications sent, removed and    *)
(* withheld.                                                               *)
LEMMA NoteStep ==
    ASSUME NoteInv, [N!Next]_(N!vars)
    PROVE  NoteInv'
<1> USE DEF N!Note
<1>1. ASSUME NEW x, NEW e \in {"install", "delete", "enable", "disable"},
             list' = list \cup {N!Note(seq + 1, e, x)}, seq' = seq + 1, removed' = removed,
             sent \subseteq sent'
      PROVE  NoteInv'
  <2>1. seq' \in Nat /\ Numbered(list)'
    BY <1>1 DEF NoteInv, Numbered
  <2>2. \A s \in 1 .. seq' : \E n \in list' \cup removed' : n.seq = s
    <3>1. \A s \in 1 .. seq : \E n \in list' \cup removed' : n.seq = s
      BY <1>1 DEF NoteInv, RemovedWereSent, N!RemovedWereSent
    <3>2. N!Note(seq + 1, e, x) \in list' /\ N!Note(seq + 1, e, x).seq = seq + 1
      BY <1>1
    <3>3. \A s \in 1 .. seq' : s \in 1 .. seq \/ s = seq + 1
      BY <1>1 DEF NoteInv
    <3>4. QED
      BY <3>1, <3>2, <3>3, Zenon
  <2>3. QED
    BY <1>1, <2>1, <2>2 DEF NoteInv, RemovedWereSent, N!RemovedWereSent
<1>2. ASSUME UNCHANGED <<list, seq, removed>>, sent \subseteq sent'
      PROVE  NoteInv'
  BY <1>2 DEF NoteInv, Numbered, RemovedWereSent, N!RemovedWereSent
<1>3. ASSUME NEW matches, NEW warn, N!Send(matches, warn)
      PROVE  sent \subseteq sent'
  BY <1>3 DEF N!Send
<1>4. ASSUME NEW x \in Profile, N!DownloadProfile(x)
      PROVE  NoteInv'
  BY <1>1, <1>3, <1>4 DEF N!DownloadProfile, N!CardInstalls
<1>5. ASSUME NEW x \in Profile, N!RecoverDownload(x)
      PROVE  NoteInv'
  <2>1. sent \subseteq sent' /\ removed' = removed
    BY <1>3, <1>5 DEF N!RecoverDownload
  <2>2. N!CardInstalls(x) \/ UNCHANGED <<seq, list>>
    BY <1>5 DEF N!RecoverDownload
  <2>3. QED
    BY <1>1, <1>2, <2>1, <2>2 DEF N!CardInstalls
<1>6. ASSUME NEW x \in Profile, N!DownloadFails(x)
      PROVE  NoteInv'
  <2>1. sent' = sent /\ removed' = removed
    BY <1>6 DEF N!DownloadFails
  <2>2. N!CardInstalls(x) \/ UNCHANGED <<seq, list>>
    BY <1>6 DEF N!DownloadFails
  <2>3. QED
    BY <1>1, <1>2, <2>1, <2>2 DEF N!CardInstalls
<1>7. ASSUME NEW x \in Profile, N!DeleteProfile(x)
      PROVE  NoteInv'
  BY <1>1, <1>3, <1>7 DEF N!DeleteProfile
<1>8. ASSUME NEW x \in Profile, N!DeleteFails(x)
      PROVE  NoteInv'
  BY <1>1, <1>2, <1>8 DEF N!DeleteFails
<1>9. ASSUME NEW x \in Profile, N!CardSwitches(x)
      PROVE  NoteInv'
  BY <1>1, <1>9 DEF N!CardSwitches
<1>10. ASSUME N!ListNotifications
       PROVE  NoteInv'
  <2>1. PICK handed \in SUBSET list, cleaned \in SUBSET list : N!AutoClean(handed, cleaned)
    BY <1>10 DEF N!ListNotifications
  <2>2. seq' = seq
    BY <1>10 DEF N!ListNotifications
  <2>3. QED
    BY <2>1, <2>2 DEF N!AutoClean, N!AutoCleanable, NoteInv, Numbered, RemovedWereSent, N!RemovedWereSent
<1>11. ASSUME NEW s \in 0 .. seq, N!RetryNotification(s)
       PROVE  NoteInv'
  BY <1>2, <1>11 DEF N!RetryNotification
<1>12. ASSUME N!Refused \/ UNCHANGED N!vars
       PROVE  NoteInv'
  BY <1>2, <1>12 DEF N!Refused, N!vars
<1>13. QED
  BY <1>4, <1>5, <1>6, <1>7, <1>8, <1>9, <1>10, <1>11, <1>12 DEF N!Next

(* Every operation that reports success has seen to its own notification.  *)
LEMMA SuccessStep ==
    ASSUME NoteInv, SuccessIsNotified, [N!Next]_(N!vars)
    PROVE  SuccessIsNotified'
<1> USE DEF N!Result, N!Failed, SuccessIsNotified, N!SuccessIsNotified
<1>1. ASSUME NEW x \in Profile, N!DownloadProfile(x)
      PROVE  SuccessIsNotified'
  <2> DEFINE own1 == N!Note(seq + 1, "install", x)
  <2>1. PICK preOK \in BOOLEAN, own \in {0, seq + 1}, warn \in N!Warnings :
           /\ N!Send(N!InstallMatches(list', N!Baseline(N!Pre(preOK), own)), warn)
           /\ result' = N!Result(TRUE, own1, warn, preOK \/ own > 0, "none")
    BY <1>1 DEF N!DownloadProfile
  <2>2. list' = list \cup {own1}
    BY <1>1 DEF N!DownloadProfile, N!CardInstalls
  <2>3. ASSUME preOK \/ own > 0, warn = "none"
        PROVE  own1 \in sent' \cup withheld'
    <3>1. \A n \in N!Install(list) : ~(n.seq > N!Baseline(N!Pre(preOK), own))
      BY <2>3, OnlyOwnInstallMatches
    <3>2. N!InstallMatches(list', N!Baseline(N!Pre(preOK), own)) \subseteq {own1}
      BY <2>2, <3>1, Zenon DEF N!InstallMatches, N!Install
    <3>3. QED
      BY <2>1, <2>3, <3>2, SentOrWithheld
  <2>4. QED
    BY <2>1, <2>3 DEF N!Warnings
<1>2. ASSUME NEW x \in Profile, N!RecoverDownload(x)
      PROVE  SuccessIsNotified'
  <2> DEFINE own1 == N!Note(seq + 1, "install", x)
  <2>1. PICK err \in N!Error, warn \in N!Warnings :
           /\ N!CardInstalls(x) \/ UNCHANGED <<installed, seq, list>>
           /\ N!Send(N!InstallMatches(list', N!Baseline(N!Pre(TRUE), 0)), warn)
           /\ result' = IF warn = "none" THEN N!Result(TRUE, own1, "recovered", TRUE, "none")
                                     ELSE N!Failed(N!Classify(err))
    BY <1>2 DEF N!RecoverDownload
  <2>2. \A n \in N!Install(list) : ~(n.seq > N!Baseline(N!Pre(TRUE), 0))
    BY OnlyOwnInstallMatches
  <2>3. ASSUME warn = "none"
        PROVE  own1 \in sent' \cup withheld' /\ x \in installed'
    <3>1. CASE N!CardInstalls(x)
      <4>1. list' = list \cup {own1} /\ x \in installed'
        BY <3>1 DEF N!CardInstalls
      <4>2. N!InstallMatches(list', N!Baseline(N!Pre(TRUE), 0)) \subseteq {own1}
        BY <2>2, <4>1, Zenon DEF N!InstallMatches, N!Install
      <4>3. QED
        BY <2>1, <2>3, <4>1, <4>2, SentOrWithheld
    <3>2. CASE UNCHANGED <<installed, seq, list>>
      <4>1. N!InstallMatches(list', N!Baseline(N!Pre(TRUE), 0)) = {}
        BY <2>2, <3>2, Zenon DEF N!InstallMatches, N!Install
      <4>2. QED
        BY <2>1, <2>3, <4>1 DEF N!Send
    <3>3. QED
      BY <2>1, <3>1, <3>2
  <2>4. own1.prof = x
    BY DEF N!Note
  <2> HIDE DEF own1
  <2>5. QED
    BY <2>1, <2>3, <2>4
<1>3. ASSUME NEW x \in Profile, N!DeleteProfile(x)
      PROVE  SuccessIsNotified'
  <2> DEFINE own1 == N!Note(seq + 1, "delete", x)
             base(preOK) == IF preOK THEN N!MaxSequence(list) ELSE 0
  <2>1. PICK preOK \in BOOLEAN, warn \in N!Warnings :
           /\ N!Send(N!DeleteMatches(list', base(preOK), x), warn)
           /\ result' = N!Result(TRUE, own1, warn, preOK, "none")
    BY <1>3 DEF N!DeleteProfile
  <2>2. list' = list \cup {own1}
    BY <1>3 DEF N!DeleteProfile
  <2>3. ASSUME preOK, warn = "none"
        PROVE  own1 \in sent' \cup withheld'
    <3>1. \A n \in list : ~(n.seq > N!MaxSequence(list))
      BY MaxSequenceBounds DEF NoteInv, Numbered
    <3>2. N!DeleteMatches(list', base(preOK), x) \subseteq {own1}
      BY <2>2, <2>3, <3>1, Zenon DEF N!DeleteMatches
    <3>3. QED
      BY <2>1, <2>3, <3>2, SentOrWithheld
  <2> HIDE DEF own1, base
  <2>4. QED
    BY <2>1, <2>3 DEF N!Warnings
<1>4. ASSUME NEW s \in 0 .. seq, N!RetryNotification(s)
      PROVE  SuccessIsNotified'
  <2> DEFINE found == {n \in list : n.seq = s}
  <2>1. \/ /\ found # {} /\ sent' = sent \cup found
           /\ result' = N!Result(TRUE, CHOOSE n \in found : TRUE, "none", TRUE, "none")
        \/ ~result'.ok
    BY <1>4 DEF N!RetryNotification
  <2>2. found # {} => (CHOOSE n \in found : TRUE) \in found
    BY Zenon
  <2> HIDE DEF found
  <2>3. QED
    BY <2>1, <2>2
<1>5. ASSUME \/ N!Refused \/ N!ListNotifications
             \/ \E x \in Profile : N!DownloadFails(x) \/ N!DeleteFails(x)
      PROVE  SuccessIsNotified'
  BY <1>5 DEF N!Refused, N!ListNotifications, N!DownloadFails, N!DeleteFails
<1>6. ASSUME (\E x \in Profile : N!CardSwitches(x)) \/ UNCHANGED N!vars
      PROVE  SuccessIsNotified'
  BY <1>6 DEF N!CardSwitches, N!vars
<1>7. QED
  BY <1>1, <1>2, <1>3, <1>4, <1>5, <1>6 DEF N!Next

(* Both hold in every behaviour.                                           *)
LEMMA NoteInvariance == N!Spec => [](NoteInv /\ SuccessIsNotified)
<1>1. N!Init => NoteInv /\ SuccessIsNotified
  BY DEF N!Init, NoteInv, Numbered, RemovedWereSent, N!RemovedWereSent, SuccessIsNotified,
         N!SuccessIsNotified, N!Failed, N!Result
<1>2. NoteInv /\ SuccessIsNotified /\ [N!Next]_(N!vars) => NoteInv' /\ SuccessIsNotified'
  BY NoteStep, SuccessStep
<1>3. QED
  BY <1>1, <1>2, PTL DEF N!Spec

(* A success without a warning is about a notification the server has, or  *)
(* one the card would not hand out; never about an older one.              *)
THEOREM SuccessesAreNotified == N!Spec => []SuccessIsNotified
BY NoteInvariance, PTL

(* The cleanup removes state notifications the server has received; any    *)
(* other number is still on the card.                                      *)
THEOREM CleanupRemovesSent == N!Spec => []RemovedWereSent
<1>1. NoteInv => RemovedWereSent
  BY DEF NoteInv
<1>2. QED
  BY <1>1, NoteInvariance, PTL
=============================================================================
