--------------------------- MODULE SMSPollerProofs ---------------------------
(***************************************************************************)
(* Proofs about SMSPoller, for any cards, any messages and any listing.    *)
(*                                                                         *)
(* What the user is shown and what the cleanup erases is on disk already   *)
(* because of where the poll is: ArchiveInv says what each program counter *)
(* stands for.  That no message is filed under the wrong card, and that no *)
(* SIM is erased, unless the module refused a selection or the user's      *)
(* cleanup made another, rests on how the identity, the selection and the  *)
(* card hang together: AttributionInv.                                     *)
(***************************************************************************)
EXTENDS SMSPoller, SequenceTheorems, WellFoundedInduction, TLAPS

(* Every nonempty set of naturals has a least element. *)
LEMMA LeastNumber ==
    ASSUME NEW T \in SUBSET Nat, T # {}
    PROVE  \E m \in T : \A k \in T : m <= k
<1> DEFINE R == OpToRel(<, Nat)
<1>1. T \subseteq Nat /\ IsWellFoundedOn(R, Nat)
  BY NatLessThanWellFounded
<1>2. \A k, m \in T : <<k, m>> \in R <=> k < m
  BY DEF OpToRel
<1> HIDE DEF R
<1>3. PICK m \in T : \A k \in T : ~(<<k, m>> \in R)
  BY <1>1, WFMin, Zenon
<1>4. \A k \in T : ~(k < m)
  BY <1>2, <1>3
<1>5. QED
  BY <1>1, <1>4

(* Inserting an element makes a sequence one longer and keeps the others.  *)
LEMMA InsertAtProperties ==
    ASSUME NEW S, NEW s \in Seq(S), NEW i \in 1 .. Len(s) + 1, NEW e \in S
    PROVE  /\ InsertAt(s, i, e) \in Seq(S)
           /\ Len(InsertAt(s, i, e)) = Len(s) + 1
           /\ \A j \in 1 .. Len(s) + 1 :
                 InsertAt(s, i, e)[j] = IF j < i THEN s[j] ELSE IF j = i THEN e ELSE s[j - 1]
<1> DEFINE a == SubSeq(s, 1, i - 1)
           b == SubSeq(s, i, Len(s))
<1>1. Len(s) \in Nat /\ i \in Int /\ i - 1 \in Int /\ Len(s) \in Int
  OBVIOUS
<1>2. /\ \A j \in 1 .. i - 1 : s[j] \in S
      /\ \A j \in i .. Len(s) : s[j] \in S
  BY <1>1, ElementOfSeq
<1>3. /\ a \in Seq(S) /\ Len(a) = i - 1
      /\ \A j \in 1 .. i - 1 : a[j] = s[j]
  BY <1>1, <1>2, SubSeqProperties
<1>4. /\ b \in Seq(S) /\ Len(b) = Len(s) - i + 1
      /\ \A j \in 1 .. Len(s) - i + 1 : b[j] = s[i + j - 1]
  BY <1>1, <1>2, SubSeqProperties
<1> HIDE DEF a, b
<1> DEFINE c == a \o <<e>>
<1>5. /\ c \in Seq(S) /\ Len(c) = i
      /\ \A j \in 1 .. i : c[j] = IF j < i THEN s[j] ELSE e
  <2>1. <<e>> \in Seq(S) /\ Len(<<e>>) = 1 /\ <<e>>[1] = e
    OBVIOUS
  <2>2. /\ c \in Seq(S) /\ Len(c) = Len(a) + 1
        /\ \A j \in 1 .. Len(a) + 1 : c[j] = IF j <= Len(a) THEN a[j] ELSE <<e>>[j - Len(a)]
    BY <1>3, <2>1, ConcatProperties
  <2>3. Len(a) + 1 = i
    BY <1>1, <1>3
  <2> HIDE DEF c
  <2>4. ASSUME NEW j \in 1 .. i
        PROVE  c[j] = IF j < i THEN s[j] ELSE e
    <3>1. c[j] = IF j <= Len(a) THEN a[j] ELSE <<e>>[j - Len(a)]
      BY <2>2, <2>3
    <3>2. CASE j < i
      BY <1>1, <1>3, <2>3, <3>1, <3>2
    <3>3. CASE j = i
      <4>1. ~(j <= Len(a)) /\ j - Len(a) = 1
        BY <1>1, <1>3, <2>3, <3>3
      <4>2. QED
        BY <2>1, <3>1, <3>3, <4>1
    <3>4. QED
      BY <1>1, <3>2, <3>3
  <2>5. QED
    BY <2>2, <2>3, <2>4
<1> HIDE DEF c
<1>6. /\ c \o b \in Seq(S) /\ Len(c \o b) = Len(s) + 1
      /\ \A j \in 1 .. Len(s) + 1 : (c \o b)[j] = IF j <= i THEN c[j] ELSE b[j - i]
  <2>1. Len(c) + Len(b) = Len(s) + 1
    BY <1>1, <1>4, <1>5
  <2>2. /\ c \o b \in Seq(S) /\ Len(c \o b) = Len(c) + Len(b)
        /\ \A j \in 1 .. Len(c) + Len(b) :
              (c \o b)[j] = IF j <= Len(c) THEN c[j] ELSE b[j - Len(c)]
    BY <1>4, <1>5, ConcatProperties
  <2>3. QED
    BY <1>5, <2>1, <2>2
<1>7. ASSUME NEW j \in 1 .. Len(s) + 1
      PROVE  (c \o b)[j] = IF j < i THEN s[j] ELSE IF j = i THEN e ELSE s[j - 1]
  <2>1. CASE j <= i
    BY <1>1, <1>5, <1>6, <2>1
  <2>2. CASE j > i
    <3>1. j - i \in 1 .. Len(s) - i + 1 /\ i + (j - i) - 1 = j - 1 /\ ~(j <= i)
      BY <1>1, <2>2
    <3>2. b[j - i] = s[j - 1]
      BY <1>4, <3>1
    <3>3. (c \o b)[j] = b[j - i]
      BY <1>6, <3>1
    <3>4. j # i /\ ~(j < i)
      BY <1>1, <2>2
    <3>5. QED
      BY <3>2, <3>3, <3>4
  <2>3. j <= i \/ j > i
    BY <1>1
  <2>4. QED
    BY <2>1, <2>2, <2>3
<1>8. QED
  BY <1>6, <1>7 DEF InsertAt, a, b, c

(* Inserting loses no element.                                             *)
LEMMA InsertAtKeeps ==
    ASSUME NEW S, NEW s \in Seq(S), NEW i \in 1 .. Len(s) + 1, NEW e \in S
    PROVE  ToSet(s) \subseteq ToSet(InsertAt(s, i, e))
<1> DEFINE t == InsertAt(s, i, e)
<1>1. /\ t \in Seq(S)
      /\ Len(t) = Len(s) + 1
      /\ \A j \in 1 .. Len(s) + 1 : t[j] = IF j < i THEN s[j] ELSE IF j = i THEN e ELSE s[j - 1]
  BY InsertAtProperties
<1> HIDE DEF t
<1>2. Len(s) \in Nat /\ DOMAIN s = 1 .. Len(s) /\ DOMAIN t = 1 .. Len(s) + 1
  BY <1>1, LenProperties
<1>3. ASSUME NEW k \in 1 .. Len(s)
      PROVE  \E j \in 1 .. Len(s) + 1 : t[j] = s[k]
  <2>1. CASE k < i
    <3>1. k \in 1 .. Len(s) + 1
      BY <1>2
    <3>2. QED
      BY <1>1, <2>1, <3>1
  <2>2. CASE ~(k < i)
    <3>1. k + 1 \in 1 .. Len(s) + 1 /\ ~(k + 1 < i) /\ k + 1 # i /\ (k + 1) - 1 = k
      BY <1>2, <2>2
    <3>2. t[k + 1] = s[k]
      BY <1>1, <3>1
    <3>3. QED
      BY <3>1, <3>2
  <2>3. QED
    BY <2>1, <2>2
<1>4. QED
  BY <1>2, <1>3 DEF ToSet, t
-----------------------------------------------------------------------------
(* Reading a listing.                                                      *)

(* The reassembler keeps parts only. *)
LEMMA AddType ==
    ASSUME NEW S \in SUBSET Part, NEW p \in Part
    PROVE  Add(S, p) \in SUBSET Part
<1>1. Completes(S, p) => ~IsDuplicate(S, p)
  BY DEF Completes
<1>2. QED
  BY <1>1 DEF Add

(* Whatever the listing holds, the cache after each of its entries is      *)
(* defined and holds parts only.                                           *)
LEMMA CacheAfterType ==
    ASSUME NEW listing \in Seq(Part), cache \subseteq Part
    PROVE  CacheAfter(listing) \in [0 .. Len(listing) -> SUBSET Part]
<1> DEFINE N == Len(listing)
           after == CacheAfter(listing)
           Step(S, i) == IF listing[i].total = 1 THEN S ELSE Add(S, listing[i])
           IsRun(g, m) == g = [i \in 0 .. m |-> IF i = 0 THEN cache ELSE Step(g[i - 1], i)]
           NoRun == {m \in 0 .. N : ~\E g : IsRun(g, m)}
           Untyped == {m \in 0 .. N : after[m] \notin SUBSET Part}
<1>1. N \in Nat /\ NoRun \in SUBSET Nat /\ Untyped \in SUBSET Nat
  OBVIOUS
<1>2. ASSUME NEW m \in NoRun, \A k \in NoRun : m <= k
      PROVE  FALSE
  <2>1. m \in 0 .. N /\ ~\E g : IsRun(g, m)
    OBVIOUS
  <2>2. CASE m = 0
    <3>1. IsRun([i \in {0} |-> cache], 0)
      OBVIOUS
    <3>2. QED
      BY <2>1, <2>2, <3>1
  <2>3. CASE m # 0
    <3>1. m - 1 \in 0 .. N /\ ~(m <= m - 1)
      BY <1>1, <2>1, <2>3
    <3>2. PICK g : IsRun(g, m - 1)
      BY <1>2, <3>1
    <3> DEFINE h == [i \in 0 .. m |-> IF i = m THEN Step(g[m - 1], m) ELSE g[i]]
    <3> HIDE DEF Step
    <3>3. \A i \in 0 .. m : h[i] = IF i = 0 THEN cache ELSE Step(h[i - 1], i)
      BY <2>1, <2>3, <3>1, <3>2
    <3>4. IsRun(h, m)
      BY <3>3
    <3>5. QED
      BY <2>1, <3>4
  <2>4. QED
    BY <2>2, <2>3
<1>3. \E g : IsRun(g, N)
  <2>1. NoRun = {}
    <3> HIDE DEF NoRun
    <3>1. QED
      BY <1>1, <1>2, LeastNumber
  <2>2. QED
    BY <1>1, <2>1
<1>4. IsRun(after, N)
  BY <1>3 DEF CacheAfter
<1> HIDE DEF after
<1>5. \A i \in 1 .. N, S \in SUBSET Part : Step(S, i) \in SUBSET Part
  BY <1>1, AddType, ElementOfSeq
<1>6. ASSUME NEW m \in Untyped, \A k \in Untyped : m <= k
      PROVE  FALSE
  <2>1. m \in 0 .. N /\ after[m] \notin SUBSET Part
    OBVIOUS
  <2>2. m # 0
    BY <1>4, <2>1
  <2>3. m - 1 \in 0 .. N /\ m \in 1 .. N /\ ~(m <= m - 1)
    BY <1>1, <2>1, <2>2
  <2>4. after[m - 1] \in SUBSET Part
    BY <1>6, <2>3
  <2>5. after[m] = Step(after[m - 1], m)
    BY <1>4, <2>1, <2>2
  <2>6. QED
    BY <1>5, <2>1, <2>3, <2>4, <2>5
<1>7. Untyped = {}
  <2> HIDE DEF Untyped
  <2>1. QED
    BY <1>1, <1>6, LeastNumber
<1>8. QED
  BY <1>4, <1>7 DEF after

(* What a listing shows is well-formed, and each text is one of its parts. *)
LEMMA TextsOfListing ==
    ASSUME NEW listing \in Seq(Part), clock \in 0 .. MaxClock, MaxClock \in Nat
    PROVE  /\ TextsOf(listing) \subseteq Text
           /\ \A t \in TextsOf(listing) : \E i \in 1 .. Len(listing) : t.part = listing[i]
<1>1. \A p \in Part : TextOf(p) \in Text /\ TextOf(p).part = p
  BY DEF TextOf, Text
<1>2. \A i \in 1 .. Len(listing) : listing[i] \in Part
  BY ElementOfSeq
<1>3. \A t \in TextsOf(listing) : \E i \in 1 .. Len(listing) : t = TextOf(listing[i])
  BY DEF TextsOf
<1>4. QED
  BY <1>1, <1>2, <1>3

(* The selected memory is a sequence of parts.                             *)
LEMMA SelectedType ==
    ASSUME TypeOK
    PROVE  Selected \in Seq(Part)
BY DEF TypeOK, Selected

(* A step that takes a listing adds well-formed messages of that memory,   *)
(* whose parts are in the memory selected.                                 *)
LEMMA TakeListingProperties ==
    ASSUME PollerAssumption, TypeOK, NEW memory \in {"SM", "ME"}, NEW n \in 0 .. Len(Selected),
           TakeListing(memory, n)
    PROVE  /\ cache' \subseteq Part
           /\ batch' \subseteq Found
           /\ batch \subseteq batch'
           /\ \A b \in batch' \ batch :
                 /\ b.memory = memory
                 /\ \E i \in 1 .. Len(Selected) : b.text.part = Selected[i]
                 /\ strayed /\ memory = "SM" => b.text \in mistaken'
           /\ mistaken \subseteq mistaken'
           /\ mistaken' \subseteq Text
<1> DEFINE listing == SubSeq(Selected, 1, n)
           known == {b.text : b \in batch}
<1>1. PICK old \in SUBSET Long :
          /\ cache' = Cleanup(CacheAfter(listing)[n], old)
          /\ batch' = batch \cup {[text |-> t, memory |-> memory] : t \in TextsOf(listing) \ known}
          /\ mistaken' =
                mistaken \cup (IF strayed /\ memory = "SM" THEN TextsOf(listing) ELSE {})
  BY DEF TakeListing
<1>2. Selected \in Seq(Part) /\ Len(Selected) \in Nat /\ n \in Int
  BY SelectedType
<1>3. \A i \in 1 .. n : i \in 1 .. Len(Selected) /\ Selected[i] \in Part
  BY <1>2, ElementOfSeq
<1>4. /\ listing \in Seq(Part) /\ Len(listing) = n
      /\ \A i \in 1 .. n : listing[i] = Selected[i]
  <2>1. /\ listing \in Seq(Part) /\ Len(listing) = IF 1 <= n THEN n - 1 + 1 ELSE 0
        /\ \A i \in 1 .. n - 1 + 1 : listing[i] = Selected[1 + i - 1]
    BY <1>2, <1>3, SubSeqProperties
  <2>2. n - 1 + 1 = n /\ \A i \in 1 .. n : 1 + i - 1 = i
    BY <1>2
  <2>3. Len(listing) = n
    BY <1>2, <2>1
  <2>4. QED
    BY <2>1, <2>2, <2>3
<1> HIDE DEF listing
<1>5. CacheAfter(listing)[n] \in SUBSET Part
  <2>1. cache \subseteq Part
    BY DEF TypeOK
  <2>2. CacheAfter(listing) \in [0 .. n -> SUBSET Part]
    BY <1>4, <2>1, CacheAfterType
  <2>3. n \in 0 .. n
    BY <1>2
  <2>4. QED
    BY <2>2, <2>3
<1>6. cache' \subseteq Part
  BY <1>1, <1>5 DEF Cleanup
<1>7. /\ TextsOf(listing) \subseteq Text
      /\ \A t \in TextsOf(listing) : \E i \in 1 .. n : t.part = listing[i]
  <2>1. clock \in 0 .. MaxClock /\ MaxClock \in Nat
    BY PollerAssumption DEF TypeOK, PollerAssumption
  <2>2. QED
    BY <1>4, <2>1, TextsOfListing
<1>8. \A b \in batch' \ batch :
         /\ b.memory = memory
         /\ b.text \in Text
         /\ b \in Found
         /\ \E i \in 1 .. Len(Selected) : b.text.part = Selected[i]
         /\ strayed /\ memory = "SM" => b.text \in mistaken'
  <2>1. SUFFICES ASSUME NEW t \in TextsOf(listing)
                 PROVE  /\ t \in Text
                        /\ \E i \in 1 .. Len(Selected) : t.part = Selected[i]
    BY <1>1 DEF Found
  <2>2. QED
    BY <1>3, <1>4, <1>7
<1>9. batch \subseteq batch'
  BY <1>1
<1>10. batch \subseteq Found
  BY DEF TypeOK
<1>11. batch' \subseteq Found
  BY <1>8, <1>10
<1>12. mistaken \subseteq mistaken' /\ mistaken' \subseteq Text
  BY <1>1, <1>7 DEF TypeOK
<1>13. QED
  BY <1>6, <1>8, <1>9, <1>11, <1>12
-----------------------------------------------------------------------------
(* The type invariant in parts, with what makes it inductive: the poll     *)
(* counts each memory it cannot read once.                                 *)
FlagType == swapped \in BOOLEAN /\ dirty \in BOOLEAN /\ strayed \in BOOLEAN

ModuleType ==
    /\ card \in Card \cup {NoCard}
    /\ sim \in [Card -> Seq(Part)]
    /\ me \in Seq(Part)
    /\ selected \in {"SM", "ME"}
    /\ placed \in [Part -> {"network", "ME"} \cup Card]
    /\ clock \in 0 .. MaxClock

PollType ==
    /\ pc \in {"idle", "selectSM", "listSM", "selectME", "listME", "confirm", "archive",
               "clearME", "erase", "recheck"}
    /\ identity \in Card \cup {NoCard}
    /\ cardIdentity \in Card \cup {NoCard}
    /\ failures \in 0 .. 2
    /\ pc \in {"selectSM", "listSM"} => failures = 0
    /\ pc \in {"selectME", "listME"} => failures \in 0 .. 1
    /\ batch \subseteq Found
    /\ todo \subseteq batch
    /\ cache \subseteq Part
    /\ clearing \in {"idle", "erase", "recheck"}

HistoryType ==
    /\ inbox \subseteq Text
    /\ records \subseteq Record
    /\ durable \subseteq records
    /\ ~dirty => durable = records
    /\ mistaken \subseteq Text

TypeInv == FlagType /\ ModuleType /\ PollType /\ HistoryType

(* The types proved here are finer than those TLC checks.                  *)
LEMMA TypeInvImpliesTypeOK == TypeInv => TypeOK
BY Zenon DEF TypeInv, FlagType, ModuleType, PollType, HistoryType, TypeOK

(* Which steps touch what. *)
LEMMA FlagTypeStep ==
    ASSUME TypeInv, [Next]_vars
    PROVE  FlagType'
<1> USE DEF TypeInv, FlagType, module, poll, history, errors
<1>1. ASSUME NEW memory \in {"SM", "ME"},
             \/ SelectMemory(memory) \/ SelectMemoryRefused(memory) \/ MemoryFails(memory)
             \/ ListMemory(memory) \/ ListCut(memory)
      PROVE  FlagType'
  BY <1>1 DEF SelectMemory, Select, SelectMemoryRefused, SelectionRefused, ListMemory, MemoryFails,
              ListCut, TakeListing, EndPoll
<1>2. ASSUME NEW b \in todo, Archive(b) \/ ArchiveFails(b)
      PROVE  FlagType'
  BY <1>2 DEF Archive, ArchiveFails, EndPoll
<1>3. ASSUME \/ \E p \in Part : Deliver(p)
             \/ ChangeCard \/ Tick \/ PollStart \/ Confirm \/ Merge
             \/ SetModeFails \/ OtherSave \/ Restart
      PROVE  FlagType'
  BY <1>3 DEF Deliver, ChangeCard, Tick, PollStart, Confirm, Merge, SetModeFails, OtherSave,
              Restart, EndPoll
<1>4. ASSUME \/ ClearSelect \/ ClearSelectRefused \/ ClearErase \/ ClearEraseRefused
             \/ ClearRecheck \/ ClearFails \/ Manual \/ ManualFails
      PROVE  FlagType'
  BY <1>4 DEF ClearSelect, ClearSelectRefused, Select, SelectionRefused, ClearErase,
              ClearEraseRefused, ClearRecheck, ClearFails, EndPoll, Manual, ManualSelect,
              ManualErase, ManualRecheck, ManualRefused, ManualFails
<1>5. CASE UNCHANGED vars
  BY <1>5 DEF vars
<1>6. QED
  BY <1>1, <1>2, <1>3, <1>4, <1>5 DEF Next, PollSteps, Failures

(* Every step keeps the types of the module's memories and the cards.      *)
LEMMA ModuleTypeStep ==
    ASSUME PollerAssumption, TypeInv, [Next]_vars
    PROVE  ModuleType'
<1> USE DEF TypeInv, module, poll, history, errors
<1>1. ASSUME NEW p \in Part, Deliver(p)
      PROVE  ModuleType'
  <2>1. CASE /\ card # NoCard
             /\ \E i \in 1 .. Len(sim[card]) + 1 : sim' = [sim EXCEPT ![card] = InsertAt(@, i, p)]
             /\ placed' = [placed EXCEPT ![p] = card]
             /\ UNCHANGED me
    <3>1. card \in Card /\ sim[card] \in Seq(Part)
      BY <2>1 DEF ModuleType
    <3>2. PICK i \in 1 .. Len(sim[card]) + 1 : sim' = [sim EXCEPT ![card] = InsertAt(@, i, p)]
      BY <2>1
    <3>3. InsertAt(sim[card], i, p) \in Seq(Part)
      BY <3>1, InsertAtProperties
    <3>4. QED
      BY <1>1, <2>1, <3>1, <3>2, <3>3 DEF Deliver, ModuleType
  <2>2. CASE /\ \E i \in 1 .. Len(me) + 1 : me' = InsertAt(me, i, p)
             /\ placed' = [placed EXCEPT ![p] = "ME"]
             /\ UNCHANGED sim
    <3>1. me' \in Seq(Part)
      BY <2>2, InsertAtProperties DEF ModuleType
    <3>2. QED
      BY <1>1, <2>2, <3>1 DEF Deliver, ModuleType
  <2>3. QED
    BY <1>1, <2>1, <2>2 DEF Deliver
<1>2. ASSUME ChangeCard \/ Tick
      PROVE  ModuleType'
  BY <1>2, PollerAssumption DEF ChangeCard, Tick, ModuleType, PollerAssumption
<1>3. ASSUME NEW memory \in {"SM", "ME"}, SelectMemory(memory)
      PROVE  ModuleType'
  BY <1>3 DEF SelectMemory, Select, ModuleType
<1>4. ASSUME ClearSelect \/ ClearRecheck \/ ManualSelect \/ ManualRecheck
      PROVE  ModuleType'
  BY <1>4 DEF ClearSelect, ClearRecheck, ManualSelect, ManualRecheck, Select, ModuleType
<1>5. ASSUME ClearErase \/ ManualErase
      PROVE  ModuleType'
  <2>1. EraseSelected /\ UNCHANGED <<card, selected, placed, clock>>
    BY <1>5 DEF ClearErase, ManualErase
  <2>2. <<>> \in Seq(Part)
    OBVIOUS
  <2>3. QED
    BY <2>1, <2>2 DEF EraseSelected, ModuleType
<1>6. ASSUME UNCHANGED <<module, clock>>
      PROVE  ModuleType'
  BY <1>6 DEF ModuleType
<1>7. ASSUME NEW memory \in {"SM", "ME"},
             \/ ListMemory(memory) \/ ListCut(memory)
             \/ MemoryFails(memory) \/ SelectMemoryRefused(memory)
      PROVE  UNCHANGED <<module, clock>>
  BY <1>7 DEF ListMemory, MemoryFails, ListCut, TakeListing, SelectMemoryRefused, SelectionRefused
<1>8. ASSUME \/ PollStart \/ Confirm \/ (\E b \in todo : Archive(b) \/ ArchiveFails(b)) \/ Merge
             \/ SetModeFails \/ ClearSelectRefused \/ ClearEraseRefused \/ ClearFails
             \/ ManualRefused \/ ManualFails \/ OtherSave \/ Restart
      PROVE  UNCHANGED <<module, clock>>
  BY <1>8 DEF PollStart, Confirm, Archive, ArchiveFails, Merge, SetModeFails, ClearSelectRefused,
              SelectionRefused, ClearEraseRefused, ClearFails, ManualRefused, ManualFails,
              OtherSave, Restart
<1>9. CASE UNCHANGED vars
  BY <1>6, <1>9 DEF vars
<1>10. QED
  BY <1>1, <1>2, <1>3, <1>4, <1>5, <1>6, <1>7, <1>8, <1>9 DEF Next, PollSteps, Failures, Manual

(* Every step keeps the types of what the poll has read.                   *)
LEMMA PollTypeStep ==
    ASSUME PollerAssumption, TypeInv, [Next]_vars
    PROVE  PollType'
<1> USE DEF TypeInv, module, poll, history, errors
<1>1. ASSUME PollStart \/ Confirm \/ Merge
      PROVE  PollType'
  <2>1. \A read \in ReadIdentity : read \in Card \cup {NoCard} /\ CacheFor(read) \subseteq Part
    BY DEF ReadIdentity, CacheFor, EmptyCache, ModuleType, PollType
  <2>2. CASE PollStart
    BY <2>1, <2>2 DEF PollStart, PollType
  <2>3. CASE Confirm
    BY <2>1, <2>3 DEF Confirm, ConfirmedHistoryIdentity, PollType
  <2>4. CASE Merge
    BY <2>4 DEF Merge, EndPoll, PollType
  <2>5. QED
    BY <1>1, <2>2, <2>3, <2>4
<1>2. ASSUME NEW memory \in {"SM", "ME"}, SelectMemory(memory) \/ SelectMemoryRefused(memory)
      PROVE  PollType'
  BY <1>2 DEF SelectMemory, SelectMemoryRefused, BeforeList, BeforeSelect, PollType
<1>3. ASSUME NEW memory \in {"SM", "ME"}, MemoryFails(memory)
      PROVE  PollType'
  BY <1>3 DEF MemoryFails, BeforeList, BeforeSelect, AfterMemory, EndPoll, PollType
<1>4. ASSUME NEW memory \in {"SM", "ME"}, ListMemory(memory) \/ ListCut(memory)
      PROVE  PollType'
  <2>1. Selected \in Seq(Part) /\ TypeOK
    BY SelectedType, TypeInvImpliesTypeOK
  <2>2. PICK n \in 0 .. Len(Selected) : TakeListing(memory, n)
    BY <1>4, <2>1 DEF ListMemory, ListCut
  <2>3. /\ cache' \subseteq Part
        /\ batch' \subseteq Found
        /\ batch \subseteq batch'
    BY <2>1, <2>2, TakeListingProperties, PollerAssumption
  <2>4. /\ pc = BeforeList(memory) /\ pc' = AfterMemory(memory)
        /\ UNCHANGED <<identity, cardIdentity, failures, todo, clearing>>
    BY <2>2 DEF TakeListing
  <2>5. QED
    BY <2>3, <2>4 DEF BeforeList, AfterMemory, PollType
<1>5. ASSUME NEW b \in todo, Archive(b) \/ ArchiveFails(b)
      PROVE  PollType'
  <2>1. CASE Archive(b)
    <3>1. /\ todo' = todo \ {b}
          /\ UNCHANGED <<pc, identity, cardIdentity, failures, batch, cache, clearing>>
      BY <2>1 DEF Archive
    <3>2. QED
      BY <3>1 DEF PollType
  <2>2. CASE ArchiveFails(b)
    BY <2>2 DEF ArchiveFails, EndPoll, PollType
  <2>3. QED
    BY <1>5, <2>1, <2>2
<1>6. ASSUME \/ ClearSelect \/ ClearSelectRefused \/ ClearErase \/ ClearEraseRefused
             \/ ClearRecheck \/ ClearFails \/ SetModeFails \/ Restart
      PROVE  PollType'
  BY <1>6 DEF ClearSelect, ClearSelectRefused, ClearErase, ClearEraseRefused, ClearRecheck,
              ClearFails, SetModeFails, Restart, EmptyCache, EndPoll, PollType
<1>7. ASSUME ManualSelect \/ ManualErase \/ ManualRecheck \/ ManualRefused \/ ManualFails
      PROVE  PollType'
  BY <1>7 DEF ManualSelect, ManualErase, ManualRecheck, ManualRefused, ManualFails, PollType
<1>8. ASSUME UNCHANGED <<poll, clearing>>
      PROVE  PollType'
  BY <1>8 DEF PollType
<1>9. ASSUME (\E p \in Part : Deliver(p)) \/ ChangeCard \/ Tick \/ OtherSave \/ UNCHANGED vars
      PROVE  UNCHANGED <<poll, clearing>>
  BY <1>9 DEF Deliver, ChangeCard, Tick, OtherSave, vars
<1>10. QED
  BY <1>1, <1>2, <1>3, <1>4, <1>5, <1>6, <1>7, <1>8, <1>9 DEF Next, PollSteps, Failures, Manual

(* Every step keeps the types of inbox, records and disk.                  *)
LEMMA HistoryTypeStep ==
    ASSUME PollerAssumption, TypeInv, [Next]_vars
    PROVE  HistoryType'
<1> USE DEF TypeInv, module, poll, history, errors
<1>1. ASSUME Merge
      PROVE  HistoryType'
  <2>1. {b.text : b \in batch} \subseteq Text
    BY DEF PollType, Found
  <2>2. QED
    BY <1>1, <2>1 DEF Merge, HistoryType
<1>2. ASSUME NEW b \in todo, Archive(b) \/ ArchiveFails(b)
      PROVE  HistoryType'
  <2>1. RecordOf(b) \in Record
    BY DEF RecordOf, Record, Found, PollType
  <2>2. CASE ArchiveFails(b)
    BY <2>1, <2>2 DEF ArchiveFails, HistoryType
  <2>3. CASE Archive(b) /\ RecordOf(b) \in records /\ ~dirty
    BY <2>3 DEF Archive, HistoryType
  <2>4. CASE Archive(b) /\ ~(RecordOf(b) \in records /\ ~dirty)
    BY <2>1, <2>4 DEF Archive, HistoryType
  <2>5. QED
    BY <1>2, <2>2, <2>3, <2>4
<1>3. ASSUME OtherSave \/ Restart
      PROVE  HistoryType'
  BY <1>3 DEF OtherSave, Restart, HistoryType
<1>4. ASSUME UNCHANGED <<inbox, history, mistaken>>
      PROVE  HistoryType'
  BY <1>4 DEF HistoryType
<1>5. ASSUME NEW memory \in {"SM", "ME"}, ListMemory(memory) \/ ListCut(memory)
      PROVE  HistoryType'
  <2>1. Selected \in Seq(Part) /\ TypeOK
    BY SelectedType, TypeInvImpliesTypeOK
  <2>2. PICK n \in 0 .. Len(Selected) : TakeListing(memory, n)
    BY <1>5, <2>1 DEF ListMemory, ListCut
  <2>3. mistaken' \subseteq Text
    BY <2>1, <2>2, TakeListingProperties, PollerAssumption
  <2>4. UNCHANGED <<inbox, history>>
    BY <2>2 DEF TakeListing
  <2>5. QED
    BY <2>3, <2>4 DEF HistoryType
<1>6. ASSUME NEW memory \in {"SM", "ME"},
             SelectMemory(memory) \/ SelectMemoryRefused(memory) \/ MemoryFails(memory)
      PROVE  UNCHANGED <<inbox, history, mistaken>>
  BY <1>6 DEF SelectMemory, SelectMemoryRefused, MemoryFails
<1>7. ASSUME \/ \E p \in Part : Deliver(p)
             \/ ChangeCard \/ Tick \/ PollStart \/ Confirm \/ SetModeFails
             \/ ClearSelect \/ ClearSelectRefused \/ ClearErase \/ ClearEraseRefused
             \/ ClearRecheck \/ ClearFails \/ Manual \/ ManualFails
             \/ UNCHANGED vars
      PROVE  UNCHANGED <<inbox, history, mistaken>>
  BY <1>7 DEF Deliver, ChangeCard, Tick, PollStart, Confirm, SetModeFails, ClearSelect,
              ClearSelectRefused, ClearErase, ClearEraseRefused, ClearRecheck, ClearFails, Manual,
              ManualSelect, ManualErase, ManualRecheck, ManualRefused, ManualFails, vars
<1>8. QED
  BY <1>1, <1>2, <1>3, <1>4, <1>5, <1>6, <1>7 DEF Next, PollSteps, Failures

(* The initial state has the types.                                        *)
LEMMA InitTypeInv == PollerAssumption /\ Init => TypeInv
<1> SUFFICES ASSUME PollerAssumption, Init
             PROVE  TypeInv
  OBVIOUS
<1>1. FlagType
  BY Zenon DEF Init, FlagType
<1>2. ModuleType
  BY DEF Init, ModuleType, PollerAssumption
<1>3. PollType
  BY DEF Init, PollType, EmptyCache
<1>4. HistoryType
  BY DEF Init, HistoryType
<1>5. QED
  BY <1>1, <1>2, <1>3, <1>4 DEF TypeInv

(* The state has the types of the Go variables, for any listing. *)
THEOREM TypeInvariance == Spec => []TypeInv
<1>1. Init => TypeInv
  BY InitTypeInv, PollerAssumption
<1>2. TypeInv /\ [Next]_vars => TypeInv'
  BY FlagTypeStep, ModuleTypeStep, PollTypeStep, HistoryTypeStep, PollerAssumption DEF TypeInv
<1>3. QED
  BY <1>1, <1>2, PTL DEF Spec

(* The poller's state keeps the types TLC checks.                          *)
THEOREM TypeCorrect == Spec => []TypeOK
BY TypeInvariance, TypeInvImpliesTypeOK, PTL
-----------------------------------------------------------------------------
(***************************************************************************)
(* The archive.  Between the reading and the cleanup, the program counter  *)
(* stands for how much of the batch is on disk; what is on disk stays.     *)
(***************************************************************************)
OnDisk(messages) == \A b \in messages : \E r \in durable : r.text = b.text

ArchiveInv ==
    /\ pc = "archive" => OnDisk(batch \ todo)
    /\ pc \in {"clearME", "erase", "recheck"} => OnDisk(batch)
    /\ InboxIsDurable

(* Every step keeps what each program counter says is on disk.             *)
LEMMA ArchiveStep ==
    ASSUME TypeInv, ArchiveInv, [Next]_vars
    PROVE  ArchiveInv'
<1> USE DEF module, poll, history, errors
<1>1. ASSUME NEW b \in todo, Archive(b)
      PROVE  ArchiveInv'
  <2>1. durable \subseteq durable'
    BY <1>1 DEF Archive, TypeInv, HistoryType
  <2>2. RecordOf(b) \in durable'
    BY <1>1 DEF Archive, TypeInv, HistoryType
  <2>3. RecordOf(b).text = b.text
    BY DEF RecordOf
  <2>4. /\ pc = "archive" /\ UNCHANGED <<pc, batch, inbox>> /\ todo' = todo \ {b}
    BY <1>1 DEF Archive
  <2>5. OnDisk(batch \ todo)'
    BY <2>1, <2>2, <2>3, <2>4 DEF ArchiveInv, OnDisk
  <2>6. InboxIsDurable'
    BY <2>1, <2>4 DEF ArchiveInv, InboxIsDurable
  <2>7. QED
    BY <2>4, <2>5, <2>6 DEF ArchiveInv
<1>2. ASSUME Merge
      PROVE  ArchiveInv'
  <2>1. /\ pc = "archive" /\ todo = {} /\ durable' = durable
        /\ inbox' = inbox \cup {b.text : b \in batch}
    BY <1>2 DEF Merge
  <2>2. OnDisk(batch)
    BY <2>1 DEF ArchiveInv, OnDisk
  <2>3. InboxIsDurable'
    BY <2>1, <2>2 DEF ArchiveInv, InboxIsDurable, OnDisk
  <2>4. pc' = "idle" \/ (pc' = "clearME" /\ batch' = batch)
    BY <1>2 DEF Merge, EndPoll
  <2>5. QED
    BY <2>1, <2>2, <2>3, <2>4 DEF ArchiveInv, OnDisk
<1>3. ASSUME OtherSave
      PROVE  ArchiveInv'
  <2>1. durable \subseteq durable' /\ UNCHANGED <<pc, batch, todo, inbox>>
    BY <1>3 DEF OtherSave, TypeInv, HistoryType
  <2>2. QED
    BY <2>1 DEF ArchiveInv, OnDisk, InboxIsDurable
<1>4. ASSUME Confirm
      PROVE  ArchiveInv'
  <2>1. pc' = "archive" /\ todo' = batch' /\ UNCHANGED <<inbox, durable>>
    BY <1>4 DEF Confirm
  <2>2. QED
    BY <2>1 DEF ArchiveInv, OnDisk, InboxIsDurable
<1>5. ASSUME Restart
      PROVE  ArchiveInv'
  BY <1>5 DEF Restart, EndPoll, ArchiveInv, InboxIsDurable
<1>6. ASSUME pc' \notin {"archive", "clearME", "erase", "recheck"}, UNCHANGED <<inbox, durable>>
      PROVE  ArchiveInv'
  BY <1>6 DEF ArchiveInv, InboxIsDurable
<1>7. ASSUME NEW memory \in {"SM", "ME"},
             \/ SelectMemory(memory) \/ SelectMemoryRefused(memory) \/ MemoryFails(memory)
             \/ ListMemory(memory) \/ ListCut(memory)
      PROVE  ArchiveInv'
  <2>1. pc' \notin {"archive", "clearME", "erase", "recheck"} /\ UNCHANGED <<inbox, durable>>
    BY <1>7 DEF SelectMemory, SelectMemoryRefused, ListMemory, MemoryFails, ListCut, TakeListing,
                BeforeList, AfterMemory, EndPoll
  <2>2. QED
    BY <1>6, <2>1
<1>8. ASSUME \/ PollStart \/ SetModeFails \/ (\E b \in todo : ArchiveFails(b))
             \/ ClearRecheck \/ ClearFails
      PROVE  ArchiveInv'
  <2>1. pc' \notin {"archive", "clearME", "erase", "recheck"} /\ UNCHANGED <<inbox, durable>>
    BY <1>8 DEF PollStart, SetModeFails, ArchiveFails, ClearRecheck, ClearFails, EndPoll
  <2>2. QED
    BY <1>6, <2>1
<1>9. ASSUME ClearSelect \/ ClearSelectRefused \/ ClearErase \/ ClearEraseRefused
      PROVE  ArchiveInv'
  BY <1>9 DEF ClearSelect, ClearSelectRefused, ClearErase, ClearEraseRefused, ArchiveInv, OnDisk,
              InboxIsDurable
<1>10. ASSUME \/ (\E p \in Part : Deliver(p)) \/ ChangeCard \/ Tick \/ Manual \/ ManualFails
              \/ UNCHANGED vars
       PROVE  ArchiveInv'
  <2>1. UNCHANGED <<pc, batch, todo, inbox, durable>>
    BY <1>10 DEF Deliver, ChangeCard, Tick, Manual, ManualSelect, ManualErase, ManualRecheck,
                 ManualRefused, ManualFails, vars
  <2>2. QED
    BY <2>1 DEF ArchiveInv, OnDisk, InboxIsDurable
<1>11. QED
  BY <1>1, <1>2, <1>3, <1>4, <1>5, <1>7, <1>8, <1>9, <1>10 DEF Next, PollSteps, Failures

(* Between reading and cleanup the program counter says what is on disk    *)
(* (pollSMSOnce).                                                          *)
THEOREM ArchiveInvariance == Spec => []ArchiveInv
<1>1. Init => ArchiveInv
  BY DEF Init, ArchiveInv, InboxIsDurable
<1>2. TypeInv /\ ArchiveInv /\ [Next]_vars => ArchiveInv'
  BY ArchiveStep
<1>3. QED
  BY <1>1, <1>2, TypeInvariance, PTL DEF Spec

(* Every text the user is shown is in a record on disk, whatever writes    *)
(* failed and wherever the process died.                                   *)
THEOREM InboxDurable == Spec => []InboxIsDurable
<1>1. ArchiveInv => InboxIsDurable
  BY DEF ArchiveInv
<1>2. QED
  BY <1>1, ArchiveInvariance, PTL

(* A poll erases the module's memory only when all it has read is on disk. *)
THEOREM CleanupAfterArchive == Spec => CleanupFollowsArchive
<1>1. ArchiveInv /\ [Next]_vars =>
          [pc = "erase" /\ me' # me => \A b \in batch : \E r \in durable : r.text = b.text]_vars
  BY DEF ArchiveInv, OnDisk
<1>2. QED
  BY <1>1, ArchiveInvariance, PTL DEF Spec, CleanupFollowsArchive
-----------------------------------------------------------------------------
(***************************************************************************)
(* The card.  The identity read first tells whether the card has been      *)
(* changed since, and what was read from SM before a change is of that     *)
(* identity, or was read astray: the module refused AT+CPMS, or            *)
(* clearModuleSMS, which holds no smsPollMu, selected ME in between.       *)
(***************************************************************************)
BeforeConfirm == {"selectSM", "listSM", "selectME", "listME", "confirm"}

SIMHoldsItsOwn == \A c \in Card : \A i \in 1 .. Len(sim[c]) : placed[sim[c][i]] = c

BatchIsOfIdentity ==
    \A b \in batch : b.memory = "SM" => placed[b.text.part] = identity \/ b.text \in mistaken

IdentityInv ==
    /\ pc \in BeforeConfirm /\ identity # NoCard => (swapped <=> card # identity)
    /\ identity # NoCard /\ (pc \in BeforeConfirm => ~swapped) => BatchIsOfIdentity

SelectionInv ==
    /\ pc = "listSM" /\ identity # NoCard /\ ~swapped /\ ~strayed => selected = "SM"
    /\ pc = "erase" /\ ~strayed => selected = "ME"

AttributionInv == SIMHoldsItsOwn /\ IdentityInv /\ SelectionInv /\ AttributionKept

(* A part is delivered once: the parts already in a memory stay where they *)
(* were delivered.                                                         *)
LEMMA DeliverKeepsPlaces ==
    ASSUME PollerAssumption, TypeInv, NEW p \in Part, Deliver(p),
           NEW q \in Part, placed[q] # "network"
    PROVE  placed'[q] = placed[q]
BY DEF Deliver, TypeInv, ModuleType

(* Every step keeps a SIM holding messages received for it.                *)
LEMMA SIMHoldsItsOwnStep ==
    ASSUME PollerAssumption, TypeInv, SIMHoldsItsOwn, [Next]_vars
    PROVE  SIMHoldsItsOwn'
<1> USE DEF module, poll, history, errors
<1>1. ASSUME NEW p \in Part, Deliver(p)
      PROVE  SIMHoldsItsOwn'
  <2>1. SUFFICES ASSUME NEW c \in Card, NEW j \in 1 .. Len(sim'[c])
                 PROVE  placed'[sim'[c][j]] = c
    BY DEF SIMHoldsItsOwn
  <2>2. c # "network" /\ sim[c] \in Seq(Part)
    BY PollerAssumption DEF PollerAssumption, TypeInv, ModuleType
  <2>3. \A k \in 1 .. Len(sim[c]) : placed'[sim[c][k]] = c
    <3>1. SUFFICES ASSUME NEW k \in 1 .. Len(sim[c])
                   PROVE  placed'[sim[c][k]] = c
      OBVIOUS
    <3>2. placed[sim[c][k]] = c /\ sim[c][k] \in Part
      BY <2>2, ElementOfSeq DEF SIMHoldsItsOwn
    <3>3. QED
      BY <1>1, <2>2, <3>2, DeliverKeepsPlaces, PollerAssumption
  <2>4. CASE sim'[c] = sim[c]
    BY <2>3, <2>4
  <2>5. CASE sim'[c] # sim[c]
    <3>1. /\ card # NoCard
          /\ \E i \in 1 .. Len(sim[card]) + 1 : sim' = [sim EXCEPT ![card] = InsertAt(@, i, p)]
          /\ placed' = [placed EXCEPT ![p] = card]
      BY <1>1, <2>5 DEF Deliver
    <3>2. c = card /\ placed'[p] = c
      BY <2>5, <3>1 DEF TypeInv, ModuleType
    <3>3. PICK i \in 1 .. Len(sim[c]) + 1 : sim'[c] = InsertAt(sim[c], i, p)
      BY <3>1, <3>2 DEF TypeInv, ModuleType
    <3>4. /\ Len(sim'[c]) = Len(sim[c]) + 1
          /\ \A k \in 1 .. Len(sim[c]) + 1 :
                sim'[c][k] = IF k < i THEN sim[c][k] ELSE IF k = i THEN p ELSE sim[c][k - 1]
      <4> DEFINE s == InsertAt(sim[c], i, p)
      <4>1. /\ Len(s) = Len(sim[c]) + 1
            /\ \A k \in 1 .. Len(sim[c]) + 1 :
                  s[k] = IF k < i THEN sim[c][k] ELSE IF k = i THEN p ELSE sim[c][k - 1]
        BY <2>2, InsertAtProperties
      <4> HIDE DEF s
      <4>2. sim'[c] = s
        BY <3>3 DEF s
      <4>3. QED
        BY <4>1, <4>2
    <3>5. Len(sim[c]) \in Nat
      BY <2>2
    <3>6. CASE j < i
      BY <2>3, <3>4, <3>5, <3>6
    <3>7. CASE j = i
      BY <3>2, <3>4, <3>5, <3>7
    <3>8. CASE j > i
      <4>1. j - 1 \in 1 .. Len(sim[c]) /\ j \in 1 .. Len(sim[c]) + 1 /\ ~(j < i) /\ j # i
        BY <3>4, <3>5, <3>8
      <4>2. QED
        BY <2>3, <3>4, <4>1
    <3>9. QED
      BY <3>4, <3>5, <3>6, <3>7, <3>8
  <2>6. QED
    BY <2>4, <2>5
<1>2. ASSUME ClearErase \/ ManualErase
      PROVE  SIMHoldsItsOwn'
  <2>1. EraseSelected /\ placed' = placed
    BY <1>2 DEF ClearErase, ManualErase
  <2>2. \A c \in Card : sim'[c] = sim[c] \/ sim'[c] = <<>>
    BY <2>1 DEF EraseSelected
  <2>3. Len(<<>>) = 0
    OBVIOUS
  <2>4. QED
    BY <2>1, <2>2, <2>3 DEF SIMHoldsItsOwn
<1>3. ASSUME UNCHANGED <<sim, placed>>
      PROVE  SIMHoldsItsOwn'
  BY <1>3 DEF SIMHoldsItsOwn
<1>4. ASSUME NEW memory \in {"SM", "ME"},
             \/ SelectMemory(memory) \/ SelectMemoryRefused(memory) \/ MemoryFails(memory)
             \/ ListMemory(memory) \/ ListCut(memory)
      PROVE  UNCHANGED <<sim, placed>>
  BY <1>4 DEF SelectMemory, SelectMemoryRefused, ListMemory, MemoryFails, ListCut, TakeListing
<1>5. ASSUME \/ ChangeCard \/ Tick \/ PollStart \/ Confirm \/ Merge \/ SetModeFails
             \/ (\E b \in todo : Archive(b) \/ ArchiveFails(b)) \/ OtherSave \/ Restart
             \/ ClearSelect \/ ClearSelectRefused \/ ClearEraseRefused \/ ClearRecheck
             \/ ClearFails \/ ManualSelect \/ ManualRecheck \/ ManualRefused \/ ManualFails
             \/ UNCHANGED vars
      PROVE  UNCHANGED <<sim, placed>>
  BY <1>5 DEF ChangeCard, Tick, PollStart, Confirm, Merge, SetModeFails, Archive, ArchiveFails,
              OtherSave, Restart, ClearSelect, ClearSelectRefused, ClearEraseRefused,
              ClearRecheck, ClearFails, ManualSelect, ManualRecheck, ManualRefused, ManualFails,
              vars
<1>6. QED
  BY <1>1, <1>2, <1>3, <1>4, <1>5 DEF Next, PollSteps, Failures, Manual

(* Reading SM while the card is the identity finds that card's messages,   *)
(* if SM is what the poll selected.                                        *)
LEMMA SMIsOfIdentity ==
    ASSUME TypeInv, AttributionInv, pc = "listSM", identity # NoCard, ~swapped, ~strayed,
           NEW i \in 1 .. Len(Selected)
    PROVE  placed[Selected[i]] = identity
<1>1. card = identity /\ selected = "SM" /\ card \in Card
  BY DEF AttributionInv, IdentityInv, SelectionInv, BeforeConfirm, TypeInv, ModuleType
<1>2. Selected = sim[card]
  BY <1>1 DEF Selected
<1>3. QED
  BY <1>1, <1>2 DEF AttributionInv, SIMHoldsItsOwn

(* Every step keeps the identity read by a poll that of the card it reads, *)
(* or one that the next check finds out.                                   *)
LEMMA IdentityStep ==
    ASSUME PollerAssumption, TypeInv, AttributionInv, [Next]_vars
    PROVE  IdentityInv'
<1> USE DEF module, poll, history, errors
<1>1. ASSUME NEW p \in Part, Deliver(p)
      PROVE  IdentityInv'
  <2>1. UNCHANGED <<pc, identity, swapped, card, batch, mistaken>>
    BY <1>1 DEF Deliver
  <2>2. ASSUME BatchIsOfIdentity, identity # NoCard
        PROVE  BatchIsOfIdentity'
    <3>1. SUFFICES ASSUME NEW b \in batch, b.memory = "SM", b.text \notin mistaken
                   PROVE  placed'[b.text.part] = identity
      BY <2>1 DEF BatchIsOfIdentity
    <3>2. placed[b.text.part] = identity
      BY <2>2, <3>1 DEF BatchIsOfIdentity
    <3>3. identity # "network"
      BY <2>2, PollerAssumption DEF PollerAssumption, TypeInv, PollType
    <3>4. b.text.part \in Part
      BY DEF TypeInv, PollType, Found, Text
    <3>5. QED
      BY <1>1, <3>2, <3>3, <3>4, DeliverKeepsPlaces, PollerAssumption
  <2>3. QED
    BY <2>1, <2>2 DEF AttributionInv, IdentityInv
<1>2. ASSUME ChangeCard
      PROVE  IdentityInv'
  <2>1. /\ ~swapped /\ card' # card /\ swapped' = (pc # "idle")
        /\ UNCHANGED <<pc, identity, batch, placed, mistaken>>
    BY <1>2 DEF ChangeCard
  <2>2. pc \in BeforeConfirm => pc # "idle"
    BY DEF BeforeConfirm
  <2>3. QED
    BY <2>1, <2>2 DEF AttributionInv, IdentityInv, BatchIsOfIdentity
<1>3. ASSUME PollStart
      PROVE  IdentityInv'
  BY <1>3 DEF PollStart, ReadIdentity, IdentityInv, BatchIsOfIdentity
<1>4. ASSUME NEW memory \in {"SM", "ME"}, SelectMemory(memory) \/ SelectMemoryRefused(memory)
      PROVE  IdentityInv'
  <2>1. /\ pc \in BeforeConfirm /\ pc' \in BeforeConfirm
        /\ UNCHANGED <<identity, swapped, card, batch, placed, mistaken>>
    BY <1>4 DEF SelectMemory, SelectMemoryRefused, BeforeSelect, BeforeList, BeforeConfirm
  <2>2. QED
    BY <2>1 DEF AttributionInv, IdentityInv, BatchIsOfIdentity
<1>5. ASSUME NEW memory \in {"SM", "ME"}, MemoryFails(memory)
      PROVE  IdentityInv'
  <2>1. CASE identity' = NoCard
    BY <2>1 DEF IdentityInv
  <2>2. CASE identity' # NoCard
    <3>1. /\ pc \in BeforeConfirm /\ pc' \in BeforeConfirm
          /\ UNCHANGED <<identity, swapped, card, batch, placed, mistaken>>
      BY <1>5, <2>2 DEF MemoryFails, EndPoll, BeforeSelect, BeforeList, AfterMemory, BeforeConfirm
    <3>2. QED
      BY <3>1 DEF AttributionInv, IdentityInv, BatchIsOfIdentity
  <2>3. QED
    BY <2>1, <2>2
<1>6. ASSUME NEW memory \in {"SM", "ME"}, ListMemory(memory) \/ ListCut(memory)
      PROVE  IdentityInv'
  <2>1. Selected \in Seq(Part) /\ TypeOK
    BY SelectedType, TypeInvImpliesTypeOK
  <2>2. PICK n \in 0 .. Len(Selected) : TakeListing(memory, n)
    BY <1>6, <2>1 DEF ListMemory, ListCut
  <2>3. /\ mistaken \subseteq mistaken'
        /\ \A b \in batch' \ batch :
              /\ b.memory = memory
              /\ \E i \in 1 .. Len(Selected) : b.text.part = Selected[i]
              /\ strayed /\ memory = "SM" => b.text \in mistaken'
    BY <2>1, <2>2, TakeListingProperties, PollerAssumption
  <2>4. /\ pc = BeforeList(memory) /\ pc \in BeforeConfirm /\ pc' \in BeforeConfirm
        /\ UNCHANGED <<identity, swapped, card, placed>>
    BY <2>2 DEF TakeListing, BeforeList, AfterMemory, BeforeConfirm
  <2>5. ASSUME identity # NoCard, ~swapped, NEW b \in batch', b.memory = "SM"
        PROVE  placed[b.text.part] = identity \/ b.text \in mistaken'
    <3>1. CASE b \in batch
      BY <2>3, <2>4, <2>5, <3>1 DEF AttributionInv, IdentityInv, BatchIsOfIdentity
    <3>2. CASE b \notin batch
      <4>1. /\ memory = "SM" /\ \E i \in 1 .. Len(Selected) : b.text.part = Selected[i]
            /\ strayed => b.text \in mistaken'
        BY <2>3, <2>5, <3>2
      <4>2. pc = "listSM"
        BY <2>4, <4>1 DEF BeforeList
      <4>3. QED
        BY <2>5, <4>1, <4>2, SMIsOfIdentity
    <3>3. QED
      BY <3>1, <3>2
  <2>6. QED
    BY <2>4, <2>5 DEF AttributionInv, IdentityInv, BatchIsOfIdentity
<1>7. ASSUME Confirm
      PROVE  IdentityInv'
  <2>1. PICK read \in ReadIdentity : identity' = ConfirmedHistoryIdentity(identity, read)
    BY <1>7 DEF Confirm
  <2>2. /\ pc = "confirm" /\ pc' = "archive" /\ UNCHANGED <<swapped, card, placed, batch, mistaken>>
    BY <1>7 DEF Confirm
  <2>3. pc \in BeforeConfirm /\ pc' \notin BeforeConfirm
    BY <2>2 DEF BeforeConfirm
  <2>4. CASE identity' = NoCard
    BY <2>3, <2>4 DEF IdentityInv
  <2>5. CASE identity' # NoCard
    <3>1. identity # NoCard /\ identity' = identity /\ card = identity
      BY <2>1, <2>5 DEF ConfirmedHistoryIdentity, ReadIdentity
    <3>2. BatchIsOfIdentity
      BY <2>3, <3>1 DEF AttributionInv, IdentityInv
    <3>3. QED
      BY <2>2, <2>3, <3>1, <3>2 DEF IdentityInv, BatchIsOfIdentity
  <2>6. QED
    BY <2>4, <2>5
<1>8. ASSUME \/ Merge \/ SetModeFails \/ Restart
             \/ ClearSelect \/ ClearSelectRefused \/ ClearErase \/ ClearEraseRefused
             \/ ClearRecheck \/ ClearFails
             \/ (\E b \in todo : Archive(b) \/ ArchiveFails(b))
      PROVE  IdentityInv'
  <2>1. \/ identity' = NoCard
        \/ /\ pc \notin BeforeConfirm /\ pc' \notin BeforeConfirm
           /\ UNCHANGED <<identity, batch, placed, mistaken>>
    BY <1>8 DEF Merge, SetModeFails, Restart, ClearSelect, ClearSelectRefused, ClearErase,
                ClearEraseRefused, ClearRecheck, ClearFails, Archive, ArchiveFails, EndPoll,
                BeforeConfirm
  <2>2. QED
    BY <2>1 DEF AttributionInv, IdentityInv, BatchIsOfIdentity
<1>9. ASSUME Tick \/ Manual \/ ManualFails \/ OtherSave \/ UNCHANGED vars
      PROVE  IdentityInv'
  <2>1. UNCHANGED <<pc, identity, swapped, card, placed, batch, mistaken>>
    BY <1>9 DEF Tick, Manual, ManualSelect, ManualErase, ManualRecheck, ManualRefused, ManualFails,
                OtherSave, vars
  <2>2. QED
    BY <2>1 DEF AttributionInv, IdentityInv, BatchIsOfIdentity
<1>10. QED
  BY <1>1, <1>2, <1>3, <1>4, <1>5, <1>6, <1>7, <1>8, <1>9 DEF Next, PollSteps, Failures

(* What the poll selects stays selected, unless the step is noted as       *)
(* straying.                                                               *)
LEMMA SelectionStep ==
    ASSUME PollerAssumption, TypeInv, AttributionInv, [Next]_vars
    PROVE  SelectionInv'
<1> USE DEF module, poll, history, errors
<1>1. ASSUME NEW memory \in {"SM", "ME"}, SelectMemory(memory)
      PROVE  SelectionInv'
  <2>1. /\ pc = BeforeSelect(memory) /\ pc' = BeforeList(memory) /\ Select(memory)
        /\ UNCHANGED <<identity, swapped, card>>
    BY <1>1 DEF SelectMemory
  <2>2. pc' # "erase" /\ (pc' = "listSM" => memory = "SM" /\ pc \in BeforeConfirm)
    BY <2>1 DEF BeforeSelect, BeforeList, BeforeConfirm
  <2>3. identity # NoCard /\ ~swapped /\ pc \in BeforeConfirm => card # NoCard
    BY DEF AttributionInv, IdentityInv
  <2>4. QED
    BY <2>1, <2>2, <2>3 DEF Select, SelectionInv
<1>2. ASSUME NEW memory \in {"SM", "ME"}, SelectMemoryRefused(memory)
      PROVE  SelectionInv'
  <2>1. pc' = BeforeList(memory) /\ strayed' = (selected' # memory)
    BY <1>2 DEF SelectMemoryRefused, SelectionRefused
  <2>2. pc' # "erase" /\ (pc' = "listSM" => memory = "SM")
    BY <2>1 DEF BeforeList
  <2>3. QED
    BY <2>1, <2>2 DEF SelectionInv
<1>3. ASSUME ClearSelect \/ ClearSelectRefused
      PROVE  SelectionInv'
  BY <1>3 DEF ClearSelect, Select, ClearSelectRefused, SelectionRefused, SelectionInv
<1>4. ASSUME ManualSelect \/ ManualRecheck
      PROVE  SelectionInv'
  <2>1. pc' = pc /\ selected' = "ME" /\ strayed' = (strayed \/ pc = "listSM")
    BY <1>4 DEF ManualSelect, ManualRecheck
  <2>2. QED
    BY <2>1 DEF SelectionInv
<1>5. ASSUME ChangeCard
      PROVE  SelectionInv'
  <2>1. pc = "listSM" => swapped'
    BY <1>5 DEF ChangeCard
  <2>2. UNCHANGED <<pc, selected, strayed>>
    BY <1>5 DEF ChangeCard
  <2>3. QED
    BY <2>1, <2>2 DEF AttributionInv, SelectionInv
<1>6. ASSUME \/ UNCHANGED <<pc, identity, swapped, selected, strayed>>
             \/ pc' \notin {"listSM", "erase"}
      PROVE  SelectionInv'
  BY <1>6 DEF AttributionInv, SelectionInv
<1>7. ASSUME NEW memory \in {"SM", "ME"},
             ListMemory(memory) \/ MemoryFails(memory) \/ ListCut(memory)
      PROVE  pc' \notin {"listSM", "erase"}
  BY <1>7 DEF ListMemory, MemoryFails, ListCut, TakeListing, AfterMemory, EndPoll
<1>8. ASSUME \/ PollStart \/ Confirm \/ Merge \/ SetModeFails \/ Restart
             \/ ClearErase \/ ClearEraseRefused \/ ClearRecheck \/ ClearFails
             \/ (\E b \in todo : ArchiveFails(b))
      PROVE  pc' \notin {"listSM", "erase"}
  BY <1>8 DEF PollStart, Confirm, Merge, SetModeFails, Restart, ClearErase, ClearEraseRefused,
              ClearRecheck, ClearFails, ArchiveFails, EndPoll
<1>9. ASSUME \/ (\E p \in Part : Deliver(p)) \/ Tick \/ (\E b \in todo : Archive(b))
             \/ ManualErase \/ ManualRefused \/ ManualFails \/ OtherSave \/ UNCHANGED vars
      PROVE  UNCHANGED <<pc, identity, swapped, selected, strayed>>
  BY <1>9 DEF Deliver, Tick, Archive, ManualErase, ManualRefused, ManualFails, OtherSave, vars
<1>10. QED
  BY <1>1, <1>2, <1>3, <1>4, <1>5, <1>6, <1>7, <1>8, <1>9
  DEF Next, PollSteps, Failures, Manual

(* Every step files a message under the card it was received for, unless   *)
(* it was read astray.                                                     *)
LEMMA AttributionKeptStep ==
    ASSUME PollerAssumption, TypeInv, AttributionInv, [Next]_vars
    PROVE  AttributionKept'
<1> USE DEF module, poll, history, errors
<1>1. ASSUME NEW p \in Part, Deliver(p)
      PROVE  AttributionKept'
  <2>1. SUFFICES ASSUME NEW r \in records, r.card # NoCard, r.text \notin mistaken
                 PROVE  placed'[r.text.part] = r.card
    BY <1>1 DEF Deliver, AttributionKept
  <2>2. r.text.part \in Part /\ r.card # "network"
    BY <2>1, PollerAssumption DEF PollerAssumption, TypeInv, HistoryType, Record, Text
  <2>3. placed[r.text.part] = r.card
    BY <2>1 DEF AttributionInv, AttributionKept
  <2>4. QED
    BY <1>1, <2>2, <2>3, DeliverKeepsPlaces, PollerAssumption
<1>2. ASSUME NEW b \in todo, Archive(b) \/ ArchiveFails(b)
      PROVE  AttributionKept'
  <2>1. /\ records' \subseteq records \cup {RecordOf(b)} /\ pc = "archive"
        /\ placed' = placed /\ mistaken' = mistaken
    BY <1>2 DEF Archive, ArchiveFails
  <2>2. RecordOf(b).card # NoCard =>
            b.memory = "SM" /\ identity # NoCard /\ RecordOf(b).card = identity
    BY DEF RecordOf
  <2>3. RecordOf(b).text = b.text /\ b \in batch
    BY DEF RecordOf, TypeInv, PollType
  <2>4. identity # NoCard => BatchIsOfIdentity
    BY <2>1 DEF AttributionInv, IdentityInv, BeforeConfirm
  <2>5. RecordOf(b).card # NoCard =>
            \/ placed[RecordOf(b).text.part] = RecordOf(b).card
            \/ RecordOf(b).text \in mistaken
    BY <2>2, <2>3, <2>4 DEF BatchIsOfIdentity
  <2>6. QED
    BY <2>1, <2>5 DEF AttributionInv, AttributionKept
<1>3. ASSUME UNCHANGED placed, records' \subseteq records, mistaken \subseteq mistaken'
      PROVE  AttributionKept'
  BY <1>3 DEF AttributionInv, AttributionKept
<1>4. ASSUME NEW memory \in {"SM", "ME"},
             \/ SelectMemory(memory) \/ SelectMemoryRefused(memory) \/ MemoryFails(memory)
             \/ ListMemory(memory) \/ ListCut(memory)
      PROVE  UNCHANGED <<placed, records>> /\ mistaken \subseteq mistaken'
  BY <1>4 DEF SelectMemory, SelectMemoryRefused, ListMemory, MemoryFails, ListCut, TakeListing
<1>5. ASSUME \/ ChangeCard \/ Tick \/ PollStart \/ Confirm \/ Merge \/ SetModeFails
             \/ OtherSave \/ ClearSelect \/ ClearSelectRefused \/ ClearErase
             \/ ClearEraseRefused \/ ClearRecheck \/ ClearFails
             \/ Manual \/ ManualFails \/ UNCHANGED vars
      PROVE  UNCHANGED <<placed, records, mistaken>>
  BY <1>5 DEF ChangeCard, Tick, PollStart, Confirm, Merge, SetModeFails, OtherSave, ClearSelect,
              ClearSelectRefused, ClearErase, ClearEraseRefused, ClearRecheck, ClearFails, Manual,
              ManualSelect, ManualErase, ManualRecheck, ManualRefused, ManualFails, vars
<1>6. ASSUME Restart
      PROVE  UNCHANGED <<placed, mistaken>> /\ records' \subseteq records
  BY <1>6 DEF Restart, TypeInv, HistoryType
<1>7. QED
  BY <1>1, <1>2, <1>3, <1>4, <1>5, <1>6 DEF Next, PollSteps, Failures

(* Identity, selection and card hang together through card changes,        *)
(* failures, refused selections and the user's cleanup (pollSMSOnce).      *)
THEOREM AttributionInvariance == Spec => []AttributionInv
<1>1. Init => AttributionInv
  <2>1. SUFFICES ASSUME Init
                 PROVE  AttributionInv
    OBVIOUS
  <2>2. Len(<<>>) = 0
    OBVIOUS
  <2>3. SIMHoldsItsOwn
    BY <2>1, <2>2 DEF Init, SIMHoldsItsOwn
  <2>4. QED
    BY <2>1, <2>3 DEF Init, AttributionInv, IdentityInv, SelectionInv, AttributionKept
<1>2. TypeInv /\ AttributionInv /\ [Next]_vars => AttributionInv'
  BY SIMHoldsItsOwnStep, IdentityStep, SelectionStep, AttributionKeptStep, PollerAssumption
  DEF AttributionInv
<1>3. QED
  BY <1>1, <1>2, TypeInvariance, PTL DEF Spec

(* No card change, failure or crash files a message under a card it was    *)
(* not received for, but for those a listing took for SM's after the       *)
(* module refused AT+CPMS or the user's cleanup selected ME.               *)
THEOREM AttributionHolds == Spec => []AttributionKept
<1>1. AttributionInv => AttributionKept
  BY DEF AttributionInv
<1>2. QED
  BY <1>1, AttributionInvariance, PTL

(* No SIM loses a message but to an erasure whose selection of ME was      *)
(* refused, or to the user's: what the poll erases is the module's memory. *)
LEMMA SIMKept ==
    ASSUME TypeInv, AttributionInv, [Next]_vars, ~strayed, clearing # "erase", NEW c \in Card
    PROVE  ToSet(sim[c]) \subseteq ToSet(sim'[c])
<1> USE DEF module, poll, history, errors
<1>1. ASSUME NEW p \in Part, Deliver(p), sim'[c] # sim[c]
      PROVE  ToSet(sim[c]) \subseteq ToSet(sim'[c])
  <2>1. /\ card # NoCard
        /\ \E i \in 1 .. Len(sim[card]) + 1 : sim' = [sim EXCEPT ![card] = InsertAt(@, i, p)]
    BY <1>1 DEF Deliver
  <2>2. c = card /\ sim[c] \in Seq(Part)
    BY <1>1, <2>1 DEF TypeInv, ModuleType
  <2>3. PICK i \in 1 .. Len(sim[c]) + 1 : sim'[c] = InsertAt(sim[c], i, p)
    BY <2>1, <2>2 DEF TypeInv, ModuleType
  <2>4. QED
    BY <2>2, <2>3, InsertAtKeeps
<1>2. ASSUME ClearErase
      PROVE  sim'[c] = sim[c]
  BY <1>2 DEF ClearErase, EraseSelected, AttributionInv, SelectionInv
<1>3. ASSUME NEW memory \in {"SM", "ME"},
             \/ SelectMemory(memory) \/ SelectMemoryRefused(memory) \/ MemoryFails(memory)
             \/ ListMemory(memory) \/ ListCut(memory)
      PROVE  sim' = sim
  BY <1>3 DEF SelectMemory, SelectMemoryRefused, ListMemory, MemoryFails, ListCut, TakeListing
<1>4. ASSUME \/ ChangeCard \/ Tick \/ PollStart \/ Confirm \/ Merge \/ SetModeFails
             \/ (\E b \in todo : Archive(b) \/ ArchiveFails(b)) \/ OtherSave \/ Restart
             \/ ClearSelect \/ ClearSelectRefused \/ ClearEraseRefused \/ ClearRecheck
             \/ ClearFails \/ ManualSelect \/ ManualRecheck \/ ManualRefused \/ ManualFails
             \/ UNCHANGED vars
      PROVE  sim' = sim
  BY <1>4 DEF ChangeCard, Tick, PollStart, Confirm, Merge, SetModeFails, Archive, ArchiveFails,
              OtherSave, Restart, ClearSelect, ClearSelectRefused, ClearEraseRefused,
              ClearRecheck, ClearFails, ManualSelect, ManualRecheck, ManualRefused, ManualFails,
              vars
<1>5. ~ManualErase
  BY DEF ManualErase
<1>6. QED
  BY <1>1, <1>2, <1>3, <1>4, <1>5 DEF Next, PollSteps, Failures, Manual

(* A message on a SIM is erased only by a poll that went on after the      *)
(* module refused to select ME, or by the user's cleanup (pollSMSOnce,     *)
(* clearModuleSMS).                                                        *)
THEOREM PollNeverErasesSIM == Spec => SIMErasedByMistake
<1>1. TypeInv /\ AttributionInv /\ [Next]_vars =>
          [\A c \in Card :
              ToSet(sim[c]) \subseteq ToSet(sim'[c]) \/ strayed \/ clearing = "erase"]_vars
  BY SIMKept
<1>2. QED
  BY <1>1, AttributionInvariance, TypeInvariance, PTL DEF Spec, SIMErasedByMistake
=============================================================================
