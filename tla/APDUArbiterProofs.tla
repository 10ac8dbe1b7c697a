------------------------- MODULE APDUArbiterProofs -------------------------
(***************************************************************************)
(* Proofs about APDUArbiter, for every set of clients and every limit.     *)
(*                                                                         *)
(* The invariants of the model are not inductive by themselves: granting   *)
(* a lease is safe because the client it is granted to does not hold one   *)
(* already, and a ticket can be removed because it is in the queue.        *)
(* PhaseInv ties the phase of a client to the sets it may be in, and Inv   *)
(* is the conjunction that every action preserves.  The second half proves *)
(* the fairness of the queue from FairInv, which adds what the queue, the  *)
(* watchdog's timers and the sleepers need.                                *)
(***************************************************************************)
EXTENDS APDUArbiter, FiniteSetTheorems, SequenceTheorems, TLAPS

InQueue(c) == \E i \in 1 .. Len(queue) : queue[i] = c

(* Waiting clients are in the queue; only holders are active or up.        *)
PhaseInv ==
    /\ \A c \in Client : phase[c] \in {"evaluating", "asleep"} => InQueue(c)
    /\ \A c \in active : phase[c] = "holding" /\ ticket[c].type # "barrier"
    /\ \A c \in barriers : phase[c] = "holding" /\ ticket[c].type = "barrier"

Inv == TypeOK /\ PhaseInv /\ CardExclusion /\ BarrierFence
-----------------------------------------------------------------------------
(* Normalising a request yields a well-formed ticket. *)
LEMMA TicketTypes ==
    ASSUME NEW r \in RawRequest
    PROVE  /\ r.type # "barrier" => LeaseTicket(r) \in Ticket /\ LeaseTicket(r).type # "barrier"
           /\ BarrierTicket(r) \in Ticket
           /\ BarrierTicket(r).type = "barrier"
<1>1. \A class \in APDUClass \cup {""}, type \in LeaseType :
         NormalizeClass(class, type) \in APDUClass
  BY DEF NormalizeClass, APDUClass, LeaseType
<1>2. NormalizeTransportScope(r) \in Scope
  BY DEF NormalizeTransportScope, Scope
<1>3. "oneshot" \in LeaseType
  BY DEF LeaseType
<1>4. r.type # "barrier" => LeaseTicket(r) \in Ticket /\ LeaseTicket(r).type # "barrier"
  BY <1>1, <1>2 DEF LeaseTicket, RawRequest, Ticket
<1>5. {NormalizeClass(c, "oneshot") : c \in r.policy} \subseteq APDUClass
  <2>1. \A c \in r.policy : c \in APDUClass \cup {""}
    BY DEF RawRequest
  <2>2. QED
    BY <1>1, <1>3, <2>1
<1>6. BarrierTicket(r) \in Ticket /\ BarrierTicket(r).type = "barrier"
  BY <1>5 DEF BarrierTicket, RawRequest, Ticket, APDUClass, Scope
<1>7. QED
  BY <1>4, <1>6

(* Removing a queued ticket leaves a queue with all the other clients. *)
LEMMA RemoveTicketProperties ==
    ASSUME queue \in Seq(Client), NEW c \in Client, InQueue(c)
    PROVE  /\ RemoveTicket(c) \in Seq(Client)
           /\ \A d \in Client : d # c /\ InQueue(d) =>
                 \E i \in 1 .. Len(RemoveTicket(c)) : RemoveTicket(c)[i] = d
<1> DEFINE p == Position(c)
           n == Len(queue)
           r == RemoveTicket(c)
<1>1. p \in 1 .. n /\ queue[p] = c
  BY DEF Position, InQueue
<1>2. n \in Nat /\ n - 1 \in Nat
  BY <1>1
<1>3. r = [i \in 1 .. n - 1 |-> IF i < p THEN queue[i] ELSE queue[i + 1]]
  BY DEF RemoveTicket
<1>4. \A i \in 1 .. n - 1 : r[i] \in Client
  BY <1>1, <1>2, <1>3
<1>5. r \in [1 .. n - 1 -> Client]
  BY <1>3, <1>4
<1>6. r \in Seq(Client) /\ Len(r) = n - 1
  BY <1>2, <1>5, SeqDef
<1>7. ASSUME NEW d \in Client, d # c, InQueue(d)
      PROVE  \E i \in 1 .. Len(r) : r[i] = d
  <2>1. PICK j \in 1 .. n : queue[j] = d
    BY <1>7 DEF InQueue
  <2>2. j # p
    BY <2>1, <1>1, <1>7
  <2>3. CASE j < p
    <3>1. j \in 1 .. n - 1 /\ r[j] = d
      BY <2>1, <2>3, <1>1, <1>2, <1>3
    <3>2. QED
      BY <3>1, <1>6
  <2>4. CASE j > p
    <3>1. j - 1 \in 1 .. n - 1 /\ ~(j - 1 < p) /\ (j - 1) + 1 = j
      BY <2>1, <2>4, <1>1, <1>2
    <3>2. r[j - 1] = d
      BY <3>1, <2>1, <1>3
    <3>3. QED
      BY <3>1, <3>2, <1>6
  <2>5. QED
    BY <2>1, <2>2, <2>3, <2>4, <1>1
<1>8. QED
  BY <1>6, <1>7

(* Appending a client keeps every queued client and adds the new one. *)
LEMMA EnqueueProperties ==
    ASSUME queue \in Seq(Client), NEW c \in Client
    PROVE  /\ Append(queue, c) \in Seq(Client)
           /\ \A d \in Client : d = c \/ InQueue(d) =>
                 \E i \in 1 .. Len(Append(queue, c)) : Append(queue, c)[i] = d
<1> DEFINE q == Append(queue, c)
<1>1. q \in Seq(Client) /\ Len(q) = Len(queue) + 1
  OBVIOUS
<1>2. q[Len(queue) + 1] = c
  OBVIOUS
<1>3. \A i \in 1 .. Len(queue) : q[i] = queue[i]
  OBVIOUS
<1>4. Len(queue) \in Nat
  OBVIOUS
<1>5. ASSUME NEW d \in Client, d = c \/ InQueue(d)
      PROVE  \E i \in 1 .. Len(q) : q[i] = d
  <2>1. CASE d = c
    <3>1. Len(queue) + 1 \in 1 .. Len(q)
      BY <1>1, <1>4
    <3>2. QED
      BY <3>1, <2>1, <1>2
  <2>2. CASE InQueue(d)
    <3>1. PICK i \in 1 .. Len(queue) : queue[i] = d
      BY <2>2 DEF InQueue
    <3>2. i \in 1 .. Len(q) /\ q[i] = d
      BY <3>1, <1>1, <1>3, <1>4
    <3>3. QED
      BY <3>2
  <2>3. QED
    BY <1>5, <2>1, <2>2
<1>6. q \in Seq(Client)
  BY <1>1
<1>7. \A d \in Client : d = c \/ InQueue(d) => \E i \in 1 .. Len(q) : q[i] = d
  BY <1>5
<1>8. QED
  BY <1>6, <1>7
-----------------------------------------------------------------------------
(* The initial state satisfies the inductive invariant. *)
THEOREM InitInv == ArbiterAssumption /\ Init => Inv
<1> SUFFICES ASSUME ArbiterAssumption, Init
             PROVE  Inv
  OBVIOUS
<1>1. NoTicket \in Ticket
  BY DEF NoTicket, Ticket, APDUClass, LeaseType, Channel, Scope
<1>2. TypeOK
  BY <1>1 DEF Init, TypeOK
<1>3. PhaseInv
  BY DEF Init, PhaseInv
<1>4. CardExclusion
  <2>1. ActiveOf("session") = {} /\ ActiveQMI = {}
    BY DEF Init, ActiveOf, ActiveQMI
  <2>2. QED
    BY <2>1, FS_EmptySet, ArbiterAssumption DEF Init, CardExclusion, ArbiterAssumption
<1>5. BarrierFence
  BY DEF Init, BarrierFence
<1>6. QED
  BY <1>2, <1>3, <1>4, <1>5 DEF Inv
-----------------------------------------------------------------------------
(* What a step does to the clients' tickets, by action.                    *)

(* Removing leases cannot break exclusion, whatever happens to the tickets *)
(* of the others.                                                          *)
LEMMA ShrinkExclusion ==
    ASSUME ArbiterAssumption, TypeOK, CardExclusion,
           active' \subseteq active,
           \A c \in active' : ticket'[c] = ticket[c]
    PROVE  CardExclusion'
<1>1. ActiveOf("session")' \subseteq ActiveOf("session") /\ ActiveQMI' \subseteq ActiveQMI
  BY DEF ActiveOf, ActiveQMI
<1>2. /\ IsFiniteSet(ActiveOf("session"))
      /\ IsFiniteSet(ActiveQMI)
  <2>1. ActiveOf("session") \subseteq Client /\ ActiveQMI \subseteq Client
    BY DEF ActiveOf, ActiveQMI, TypeOK
  <2>2. QED
    BY <2>1, FS_Subset, ArbiterAssumption DEF ArbiterAssumption
<1>3. /\ Cardinality(ActiveOf("session")') <= Cardinality(ActiveOf("session"))
      /\ Cardinality(ActiveOf("session")') \in Nat
      /\ Cardinality(ActiveOf("session")) \in Nat
  BY <1>1, <1>2, FS_Subset, FS_CardinalityType
<1>4. /\ Cardinality(ActiveQMI') <= Cardinality(ActiveQMI)
      /\ Cardinality(ActiveQMI') \in Nat
      /\ Cardinality(ActiveQMI) \in Nat
  BY <1>1, <1>2, FS_Subset, FS_CardinalityType
<1>5. Cardinality(ActiveOf("session")') <= MaxSessions
  BY <1>3, ArbiterAssumption DEF CardExclusion, ArbiterAssumption
<1>6. Cardinality(ActiveQMI') <= MaxQMITransports
  BY <1>4, ArbiterAssumption DEF CardExclusion, ArbiterAssumption
<1>7. \A c, d \in active' : c # d => Compatible(ticket'[c], ticket'[d])
  BY DEF CardExclusion
<1>8. QED
  BY <1>5, <1>6, <1>7 DEF CardExclusion

(* Nor can it break the fence of a barrier. *)
LEMMA ShrinkFence ==
    ASSUME BarrierFence,
           active' \subseteq active, barriers' \subseteq barriers,
           \A c \in active' \cup barriers' : ticket'[c] = ticket[c]
    PROVE  BarrierFence'
BY DEF BarrierFence

(* A transport that is selected may run next to the transports that do.    *)
LEMMA SelectedMayRun ==
    ASSUME NEW c, SelectedTransport(c)
    PROVE  CanAcquireTransportNow(ticket[c])
<1>1. PICK i \in TransportChoice : queue[i] = c
  BY DEF SelectedTransport
<1>2. TransportChoice \subseteq EligibleTransports
  BY DEF TransportChoice, EligibleAgedNonAKA, EligibleAKA
<1>3. CanAcquireTransportNow(ticket[queue[i]])
  BY <1>1, <1>2 DEF EligibleTransports
<1>4. QED
  BY <1>1, <1>3

(* What the admission policy lets in is compatible with every active lease *)
(* and within the limits.                                                  *)
LEMMA GrantedIsCompatible ==
    ASSUME Inv, NEW c \in Client, ticket[c].type # "barrier", CanAcquireLease(c)
    PROVE  /\ \A d \in active :
                Compatible(ticket[c], ticket[d]) /\ Compatible(ticket[d], ticket[c])
           /\ ticket[c].type = "session" => Cardinality(ActiveOf("session")) < MaxSessions
           /\ ticket[c].type = "transport" /\ ticket[c].scope = "qmi_channel" =>
                 Cardinality(ActiveQMI) < MaxQMITransports
<1>1. \A d \in active : ticket[d] \in Ticket /\ ticket[d].type \in LeaseType
  BY DEF Inv, TypeOK, PhaseInv, Ticket
<1>2. \A d \in active : \/ d \in ActiveOf("session")
                        \/ d \in ActiveOf("oneshot")
                        \/ d \in ActiveOf("transport")
  BY <1>1 DEF ActiveOf, LeaseType
<1>3. CASE ticket[c].type = "session"
  <2>1. \A d \in active : ticket[d].type = "session"
    BY <1>2, <1>3 DEF CanAcquireLease, ActiveOf
  <2>2. Cardinality(ActiveOf("session")) < MaxSessions
    BY <1>3 DEF CanAcquireLease
  <2>3. QED
    BY <1>3, <2>1, <2>2 DEF Compatible
<1>4. CASE ticket[c].type = "oneshot"
  BY <1>4 DEF CanAcquireLease
<1>5. CASE ticket[c].type = "transport"
  <2>1. \A d \in active : d \in ActiveOf("transport") /\ ticket[d].type = "transport"
    BY <1>2, <1>5 DEF CanAcquireLease, ActiveOf
  <2>2. CanAcquireTransportNow(ticket[c])
    BY <1>5, SelectedMayRun DEF CanAcquireLease
  <2>3. CASE ticket[c].scope = "qmi_channel"
    <3>1. \A d \in active : ticket[d].scope = "qmi_channel" /\ ticket[d].channel # ticket[c].channel
      BY <2>1, <2>2, <2>3 DEF CanAcquireTransportNow, ActiveExclusive, ActiveOnChannel, ActiveQMI
    <3>2. Cardinality(ActiveQMI) < MaxQMITransports
      BY <2>2, <2>3 DEF CanAcquireTransportNow
    <3>3. QED
      BY <1>5, <2>1, <2>3, <3>1, <3>2 DEF Compatible
  <2>4. CASE ticket[c].scope # "qmi_channel"
    BY <1>5, <2>1, <2>2, <2>4 DEF CanAcquireTransportNow
  <2>5. QED
    BY <2>3, <2>4
<1>6. QED
  BY <1>3, <1>4, <1>5 DEF CanAcquireLease
-----------------------------------------------------------------------------
(* Every step preserves the types and the tie between phases and sets.     *)
LEMMA StepPhase ==
    ASSUME ArbiterAssumption, Inv, [Next]_vars
    PROVE  TypeOK' /\ PhaseInv'
<1> USE DEF Inv
<1> NoTicket \in Ticket
  BY DEF NoTicket, Ticket, APDUClass, LeaseType, Channel, Scope
<1>1. ASSUME NEW c \in Client, NEW r \in Requests, Enqueue(c, r)
      PROVE  TypeOK' /\ PhaseInv'
  <2>1. r \in RawRequest
    BY ArbiterAssumption DEF ArbiterAssumption
  <2>2. ticket' \in [Client -> Ticket]
    BY <1>1, <2>1, TicketTypes DEF Enqueue, TypeOK
  <2>3. TypeOK'
    BY <1>1, <2>2, EnqueueProperties DEF Enqueue, TypeOK, Signal, Sleepers
  <2>4. \A d \in Client : phase'[d] \in {"evaluating", "asleep"} => InQueue(d)'
    BY <1>1, EnqueueProperties DEF Enqueue, TypeOK, PhaseInv, InQueue
  <2>5. c \notin active /\ c \notin barriers
    BY <1>1 DEF Enqueue, PhaseInv
  <2>6. \A d \in active \cup barriers : phase'[d] = phase[d] /\ ticket'[d] = ticket[d]
    BY <1>1, <2>5 DEF Enqueue, TypeOK
  <2>7. PhaseInv'
    BY <1>1, <2>4, <2>6 DEF Enqueue, PhaseInv
  <2>8. QED
    BY <2>3, <2>7
<1>2. ASSUME NEW c \in Client, GrantLease(c) \/ GrantBarrier(c)
      PROVE  TypeOK' /\ PhaseInv'
  <2>1. InQueue(c) /\ phase[c] = "evaluating" /\ c \notin active /\ c \notin barriers
    BY <1>2 DEF GrantLease, GrantBarrier, PhaseInv
  <2>2. TypeOK'
    BY <1>2, <2>1, RemoveTicketProperties
    DEF GrantLease, GrantBarrier, TypeOK, Signal, Sleepers
  <2>3. \A d \in Client : phase'[d] \in {"evaluating", "asleep"} => InQueue(d)'
    BY <1>2, <2>1, RemoveTicketProperties
    DEF GrantLease, GrantBarrier, TypeOK, PhaseInv, InQueue
  <2>4. PhaseInv'
    BY <1>2, <2>1, <2>3 DEF GrantLease, GrantBarrier, CanAcquireBarrier, TypeOK, PhaseInv
  <2>5. QED
    BY <2>2, <2>4
<1>3. ASSUME NEW c \in Client, Sleep(c) \/ Wake(c)
      PROVE  TypeOK' /\ PhaseInv'
  <2>1. TypeOK'
    BY <1>3 DEF Sleep, Wake, TypeOK
  <2>2. c \notin active /\ c \notin barriers /\ InQueue(c)
    BY <1>3 DEF Sleep, Wake, PhaseInv
  <2>3. PhaseInv'
    BY <1>3, <2>2 DEF Sleep, Wake, TypeOK, PhaseInv, InQueue
  <2>4. QED
    BY <2>1, <2>3
<1>4. ASSUME NEW c \in Client, Timeout(c)
      PROVE  TypeOK' /\ PhaseInv'
  <2>1. InQueue(c) /\ phase[c] = "asleep" /\ c \notin active /\ c \notin barriers
    BY <1>4 DEF Timeout, PhaseInv
  <2>2. TypeOK'
    BY <1>4, <2>1, RemoveTicketProperties DEF Timeout, Forget, TypeOK, Sleepers
  <2>3. \A d \in Client : phase'[d] \in {"evaluating", "asleep"} => InQueue(d)'
    <3>1. SUFFICES ASSUME NEW d \in Client, phase'[d] \in {"evaluating", "asleep"}
                   PROVE  InQueue(d)'
      OBVIOUS
    <3>2. phase' = [phase EXCEPT ![c] = "idle"] /\ queue' = RemoveTicket(c)
      BY <1>4 DEF Timeout
    <3>3. d # c /\ phase[d] \in {"evaluating", "asleep"}
      BY <3>1, <3>2 DEF TypeOK
    <3>4. queue \in Seq(Client) /\ InQueue(d)
      BY <3>3 DEF TypeOK, PhaseInv
    <3>5. \E i \in 1 .. Len(RemoveTicket(c)) : RemoveTicket(c)[i] = d
      BY <2>1, <3>3, <3>4, RemoveTicketProperties
    <3>6. QED
      BY <3>2, <3>5 DEF InQueue
  <2>4. PhaseInv'
    BY <1>4, <2>1, <2>3 DEF Timeout, Forget, TypeOK, PhaseInv
  <2>5. QED
    BY <2>2, <2>4
<1>5. ASSUME NEW c \in Client, ReleaseLease(c) \/ ReleaseBarrier(c)
      PROVE  TypeOK' /\ PhaseInv'
  <2>1. TypeOK'
    BY <1>5 DEF ReleaseLease, ReleaseBarrier, Forget, TypeOK, Signal, Sleepers
  <2>2. c \notin active' /\ c \notin barriers'
    BY <1>5 DEF ReleaseLease, ReleaseBarrier, PhaseInv
  <2>3. PhaseInv'
    BY <1>5, <2>2 DEF ReleaseLease, ReleaseBarrier, Forget, TypeOK, PhaseInv, InQueue
  <2>4. QED
    BY <2>1, <2>3
<1>6. ASSUME NEW c \in Client, Touch(c) \/ Expire(c) \/ ReleaseExpired(c) \/ Age(c)
      PROVE  TypeOK' /\ PhaseInv'
  <2>1. TypeOK'
    BY <1>6 DEF Touch, Expire, ReleaseExpired, Age, TypeOK, Signal, Sleepers
  <2>2. PhaseInv'
    BY <1>6 DEF Touch, Expire, ReleaseExpired, Age, PhaseInv, InQueue
  <2>3. QED
    BY <2>1, <2>2
<1>7. ASSUME NEW w \in Watcher, WatchBusy(w) \/ WatchIdle(w) \/ WatchTimeout(w)
      PROVE  TypeOK' /\ PhaseInv'
  BY <1>7 DEF WatchBusy, WatchIdle, WatchTimeout, TypeOK, PhaseInv, InQueue
<1>8. CASE UNCHANGED vars
  BY <1>8 DEF vars, TypeOK, PhaseInv, InQueue
<1>9. QED
  BY <1>1, <1>2, <1>3, <1>4, <1>5, <1>6, <1>7, <1>8 DEF Next

(* Every step preserves mutual exclusion on the card. *)
LEMMA StepExclusion ==
    ASSUME ArbiterAssumption, Inv, [Next]_vars
    PROVE  CardExclusion'
<1> USE DEF Inv
<1>1. ASSUME NEW c \in Client, GrantLease(c)
      PROVE  CardExclusion'
  <2>1. /\ c \notin active
        /\ ticket[c].type # "barrier"
        /\ CanAcquireLease(c)
        /\ active' = active \cup {c}
        /\ ticket' = ticket
    BY <1>1 DEF GrantLease, PhaseInv
  <2>2. \A d, e \in active' : d # e => Compatible(ticket'[d], ticket'[e])
    BY <2>1, GrantedIsCompatible DEF CardExclusion
  <2>3. /\ IsFiniteSet(ActiveOf("session")) /\ c \notin ActiveOf("session")
        /\ IsFiniteSet(ActiveQMI) /\ c \notin ActiveQMI
    <3>1. ActiveOf("session") \subseteq Client /\ ActiveQMI \subseteq Client
      BY DEF ActiveOf, ActiveQMI, TypeOK
    <3>2. QED
      BY <2>1, <3>1, FS_Subset, ArbiterAssumption DEF ArbiterAssumption, ActiveOf, ActiveQMI
  <2>4. /\ Cardinality(ActiveOf("session")) \in Nat
        /\ Cardinality(ActiveQMI) \in Nat
        /\ Cardinality(ActiveOf("session") \cup {c}) = Cardinality(ActiveOf("session")) + 1
        /\ Cardinality(ActiveQMI \cup {c}) = Cardinality(ActiveQMI) + 1
    BY <2>3, FS_AddElement, FS_CardinalityType
  <2>5. Cardinality(ActiveOf("session")') <= MaxSessions
    <3>1. CASE ticket[c].type = "session"
      <4>1. ActiveOf("session")' = ActiveOf("session") \cup {c}
        BY <2>1, <3>1 DEF ActiveOf
      <4>2. Cardinality(ActiveOf("session")) < MaxSessions
        BY <2>1, <3>1, GrantedIsCompatible
      <4>3. Cardinality(ActiveOf("session")') = Cardinality(ActiveOf("session")) + 1
        <5> HIDE DEF Inv
        <5> QED
          BY ONLY <2>4, <4>1, Zenon
      <4>4. \A n, m \in Nat : n < m => n + 1 <= m
        OBVIOUS
      <4>5. QED
        BY <2>4, <4>2, <4>3, <4>4, ArbiterAssumption DEF ArbiterAssumption
    <3>2. CASE ticket[c].type # "session"
      <4>1. ActiveOf("session")' = ActiveOf("session")
        BY <2>1, <3>2 DEF ActiveOf
      <4>2. QED
        BY <4>1 DEF CardExclusion
    <3>3. QED
      BY <3>1, <3>2
  <2>6. Cardinality(ActiveQMI') <= MaxQMITransports
    <3>1. CASE ticket[c].type = "transport" /\ ticket[c].scope = "qmi_channel"
      <4>1. ActiveQMI' = ActiveQMI \cup {c}
        BY <2>1, <3>1 DEF ActiveQMI, ActiveOf
      <4>2. Cardinality(ActiveQMI) < MaxQMITransports
        BY <2>1, <3>1, GrantedIsCompatible
      <4>3. QED
        BY <2>4, <4>1, <4>2, ArbiterAssumption DEF ArbiterAssumption
    <3>2. CASE ~(ticket[c].type = "transport" /\ ticket[c].scope = "qmi_channel")
      <4>1. ActiveQMI' = ActiveQMI
        BY <2>1, <3>2 DEF ActiveQMI, ActiveOf
      <4>2. QED
        BY <4>1 DEF CardExclusion
    <3>3. QED
      BY <3>1, <3>2
  <2>7. QED
    BY <2>2, <2>5, <2>6 DEF CardExclusion
<1>2. ASSUME NEW c \in Client, NEW r \in Requests, Enqueue(c, r)
      PROVE  CardExclusion'
  <2>1. active' = active /\ c \notin active
    BY <1>2 DEF Enqueue, PhaseInv
  <2>2. \A d \in active' : ticket'[d] = ticket[d]
    BY <1>2, <2>1 DEF Enqueue, TypeOK
  <2>3. QED
    BY <2>1, <2>2, ShrinkExclusion
<1>3. ASSUME NEW c \in Client,
             Timeout(c) \/ ReleaseLease(c) \/ ReleaseBarrier(c)
      PROVE  CardExclusion'
  <2>1. active' \subseteq active /\ c \notin active'
    BY <1>3 DEF Timeout, ReleaseLease, ReleaseBarrier, PhaseInv
  <2>2. \A d \in active' : ticket'[d] = ticket[d]
    BY <1>3, <2>1 DEF Timeout, ReleaseLease, ReleaseBarrier, Forget, TypeOK
  <2>3. QED
    BY <2>1, <2>2, ShrinkExclusion
<1>4. ASSUME NEW c \in Client,
             \/ GrantBarrier(c) \/ Sleep(c) \/ Wake(c)
             \/ Touch(c) \/ Expire(c) \/ ReleaseExpired(c) \/ Age(c)
      PROVE  CardExclusion'
  <2>1. active' \subseteq active /\ ticket' = ticket
    BY <1>4 DEF GrantBarrier, Sleep, Wake, Touch, Expire, ReleaseExpired, Age
  <2>2. QED
    BY <2>1, ShrinkExclusion
<1>5. ASSUME NEW w \in Watcher, WatchBusy(w) \/ WatchIdle(w) \/ WatchTimeout(w)
      PROVE  CardExclusion'
  BY <1>5, ShrinkExclusion DEF WatchBusy, WatchIdle, WatchTimeout
<1>6. CASE UNCHANGED vars
  BY <1>6, ShrinkExclusion DEF vars
<1>7. QED
  BY <1>1, <1>2, <1>3, <1>4, <1>5, <1>6 DEF Next

(* Every step preserves the fence of every barrier. *)
LEMMA StepFence ==
    ASSUME Inv, [Next]_vars
    PROVE  BarrierFence'
<1> USE DEF Inv
<1>1. ASSUME NEW c \in Client, GrantLease(c)
      PROVE  BarrierFence'
  BY <1>1 DEF GrantLease, CanAcquireLease, IsBlockedByActiveBarrier, BarrierFence
<1>2. ASSUME NEW c \in Client, GrantBarrier(c)
      PROVE  BarrierFence'
  BY <1>2 DEF GrantBarrier, CanAcquireBarrier, BarrierFence
<1>3. ASSUME NEW c \in Client, NEW r \in Requests, Enqueue(c, r)
      PROVE  BarrierFence'
  <2>1. c \notin active /\ c \notin barriers
    BY <1>3 DEF Enqueue, PhaseInv
  <2>2. \A d \in active \cup barriers : ticket'[d] = ticket[d]
    BY <1>3, <2>1 DEF Enqueue, TypeOK
  <2>3. QED
    BY <1>3, <2>2, ShrinkFence DEF Enqueue
<1>4. ASSUME NEW c \in Client,
             Timeout(c) \/ ReleaseLease(c) \/ ReleaseBarrier(c)
      PROVE  BarrierFence'
  <2>1. /\ active' \subseteq active /\ barriers' \subseteq barriers
        /\ c \notin active' /\ c \notin barriers'
    BY <1>4 DEF Timeout, ReleaseLease, ReleaseBarrier, PhaseInv
  <2>2. \A d \in active' \cup barriers' : ticket'[d] = ticket[d]
    BY <1>4, <2>1 DEF Timeout, ReleaseLease, ReleaseBarrier, Forget, TypeOK
  <2>3. QED
    BY <2>1, <2>2, ShrinkFence
<1>5. ASSUME NEW c \in Client,
             \/ Sleep(c) \/ Wake(c)
             \/ Touch(c) \/ Expire(c) \/ ReleaseExpired(c) \/ Age(c)
      PROVE  BarrierFence'
  <2>1. active' \subseteq active /\ barriers' = barriers /\ ticket' = ticket
    BY <1>5 DEF Sleep, Wake, Touch, Expire, ReleaseExpired, Age
  <2>2. QED
    BY <2>1, ShrinkFence
<1>6. ASSUME NEW w \in Watcher, WatchBusy(w) \/ WatchIdle(w) \/ WatchTimeout(w)
      PROVE  BarrierFence'
  BY <1>6, ShrinkFence DEF WatchBusy, WatchIdle, WatchTimeout
<1>7. CASE UNCHANGED vars
  BY <1>7, ShrinkFence DEF vars
<1>8. QED
  BY <1>1, <1>2, <1>3, <1>4, <1>5, <1>6, <1>7 DEF Next
-----------------------------------------------------------------------------
(* The inductive invariant holds in every reachable state. *)
THEOREM Invariance == Spec => []Inv
<1>1. Init => Inv
  BY InitInv, ArbiterAssumption
<1>2. Inv /\ [Next]_vars => Inv'
  BY StepPhase, StepExclusion, StepFence, ArbiterAssumption DEF Inv
<1>3. QED
  BY <1>1, <1>2, PTL DEF Spec

(* Type correctness, for every set of clients and every mix of requests. *)
THEOREM TypeCorrect == Spec => []TypeOK
<1>1. Inv => TypeOK
  BY DEF Inv
<1>2. QED
  BY <1>1, Invariance, PTL

(* The arbiter's lease table never admits two incompatible card accesses.  *)
THEOREM ExclusionHolds == Spec => []CardExclusion
<1>1. Inv => CardExclusion
  BY DEF Inv
<1>2. QED
  BY <1>1, Invariance, PTL

(* No lease of a class a barrier blocks is active while the barrier is up. *)
THEOREM FenceHolds == Spec => []BarrierFence
<1>1. Inv => BarrierFence
  BY DEF Inv
<1>2. QED
  BY <1>1, Invariance, PTL
-----------------------------------------------------------------------------
(***************************************************************************)
(* The queue.  That nobody sleeps through a change needs more than Inv:    *)
(* a waiting client stands in the queue once and only while it waits, so   *)
(* that garbage tickets decide nothing, and every timer or callback of the *)
(* watchdog belongs to an active lease.                                    *)
(***************************************************************************)
QueueInv ==
    /\ \A i, j \in 1 .. Len(queue) : queue[i] = queue[j] => i = j
    /\ \A c \in Client : InQueue(c) => phase[c] \in {"evaluating", "asleep"}

WatchdogInv == WatchdogArmed /\ armed \cup fired \subseteq active

FairInv == Inv /\ QueueInv /\ WatchdogInv /\ NoLostWakeup

(* A queued client is where Position says, and removing it leaves the      *)
(* others once each.                                                       *)
LEMMA PositionProperties ==
    ASSUME queue \in Seq(Client), QueueInv, NEW i \in 1 .. Len(queue)
    PROVE  Position(queue[i]) = i
BY DEF Position, QueueInv

(* Removing a client keeps a queue without repetition.                     *)
LEMMA RemoveKeepsUnique ==
    ASSUME queue \in Seq(Client), QueueInv, NEW c \in Client, InQueue(c)
    PROVE  /\ \A i, j \in 1 .. Len(RemoveTicket(c)) :
                RemoveTicket(c)[i] = RemoveTicket(c)[j] => i = j
           /\ \A i \in 1 .. Len(RemoveTicket(c)) :
                RemoveTicket(c)[i] # c /\ InQueue(RemoveTicket(c)[i])
<1> DEFINE p == Position(c)
           n == Len(queue)
           r == RemoveTicket(c)
<1>1. p \in 1 .. n /\ queue[p] = c
  BY DEF Position, InQueue
<1>2. n \in Nat /\ n - 1 \in Nat
  BY <1>1
<1>3. r = [i \in 1 .. n - 1 |-> IF i < p THEN queue[i] ELSE queue[i + 1]]
  BY DEF RemoveTicket
<1>4. Len(r) = n - 1
  <2>1. \A i \in 1 .. n - 1 : r[i] \in Client
    BY <1>1, <1>2, <1>3
  <2>2. r \in [1 .. n - 1 -> Client]
    BY <1>3, <2>1
  <2>3. QED
    BY <1>2, <2>2, SeqDef
<1> DEFINE at(i) == IF i < p THEN i ELSE i + 1
<1>5. \A i \in 1 .. n - 1 : at(i) \in 1 .. n /\ at(i) # p /\ r[i] = queue[at(i)]
  BY <1>1, <1>2, <1>3
<1>6. \A i, j \in 1 .. n - 1 : at(i) = at(j) => i = j
  BY <1>1, <1>2
<1> HIDE DEF at, p, r
<1>7. \A i, j \in 1 .. n - 1 : r[i] = r[j] => i = j
  BY <1>5, <1>6 DEF QueueInv
<1>8. \A i \in 1 .. n - 1 : r[i] # c /\ InQueue(r[i])
  BY <1>1, <1>5 DEF QueueInv, InQueue
<1>9. QED
  BY <1>4, <1>7, <1>8 DEF r

(* The decision on a queued ticket depends on the queue, the active leases *)
(* and barriers, their tickets and who has aged, and on nothing else.      *)
LEMMA SameDecision ==
    ASSUME queue' = queue, active' = active, barriers' = barriers, aged' = aged,
           queue \in Seq(Client),
           \A e \in Client : e \in active \cup barriers \/ InQueue(e) => ticket'[e] = ticket[e],
           active \subseteq Client, barriers \subseteq Client,
           NEW d \in Client, InQueue(d)
    PROVE  CanAcquire(d)' <=> CanAcquire(d)
<1>1. \A i \in 1 .. Len(queue) : ticket'[queue[i]] = ticket[queue[i]]
  BY DEF InQueue
<1>2. \A type : ActiveOf(type)' = ActiveOf(type)
  BY DEF ActiveOf
<1>3. ActiveExclusive' = ActiveExclusive /\ ActiveQMI' = ActiveQMI
  BY <1>2 DEF ActiveExclusive, ActiveQMI, ActiveOf
<1>4. \A channel : ActiveOnChannel(channel)' = ActiveOnChannel(channel)
  BY <1>3 DEF ActiveOnChannel, ActiveQMI, ActiveOf
<1>5. \A class : IsBlockedByActiveBarrier(class)' <=> IsBlockedByActiveBarrier(class)
  BY DEF IsBlockedByActiveBarrier
<1>6. \A t : /\ CanAcquireTransportNow(t)' <=> CanAcquireTransportNow(t)
             /\ TransportWaitGatesQueue(t)' <=> TransportWaitGatesQueue(t)
  BY <1>2, <1>3, <1>4 DEF CanAcquireTransportNow, TransportWaitGatesQueue
<1>7. \A t : StopsScan(t)' <=> StopsScan(t)
  BY <1>5, <1>6 DEF StopsScan
<1>8. EligibleTransports' = EligibleTransports
  <2>1. \A i \in 1 .. Len(queue) : \A j \in 1 .. i : j \in 1 .. Len(queue)
    OBVIOUS
  <2>2. QED
    BY <1>1, <1>5, <1>6, <1>7, <2>1 DEF EligibleTransports
<1>9. TransportChoice' = TransportChoice
  BY <1>1, <1>8, Zenon DEF TransportChoice, EligibleAKA, EligibleAgedNonAKA, EligibleTransports
<1>10. SelectedTransport(d)' <=> SelectedTransport(d)
  BY <1>9 DEF SelectedTransport
<1>11. Position(d)' = Position(d)
  BY DEF Position
<1>12. Position(d) \in 1 .. Len(queue)
  BY DEF Position, InQueue
<1>13. /\ Ahead(d)' = Ahead(d)
       /\ \A e \in Ahead(d) : ticket'[e] = ticket[e]
  <2>1. Ahead(d)' = Ahead(d)
    BY <1>11 DEF Ahead
  <2>2. \A e \in Ahead(d) : ticket'[e] = ticket[e]
    BY <1>1, <1>12 DEF Ahead
  <2>3. QED
    BY <2>1, <2>2
<1>14. ticket'[d] = ticket[d]
  OBVIOUS
<1>15. /\ SelectedBarrier(d)' <=> SelectedBarrier(d)
       /\ HasPendingBarrierAhead(d)' <=> HasPendingBarrierAhead(d)
       /\ QueueHeadIs(d)' <=> QueueHeadIs(d)
  BY <1>13, <1>14 DEF SelectedBarrier, HasPendingBarrierAhead, QueueHeadIs
<1>16. CanAcquireLease(d)' <=> CanAcquireLease(d)
  BY <1>2, <1>5, <1>10, <1>14, <1>15 DEF CanAcquireLease
<1>17. CanAcquireBarrier(d)' <=> CanAcquireBarrier(d)
  BY <1>14, <1>15 DEF CanAcquireBarrier
<1>18. QED
  BY <1>14, <1>16, <1>17 DEF CanAcquire

(* Every step keeps the queue free of duplicates and of clients that do    *)
(* not wait.                                                               *)
LEMMA StepQueue ==
    ASSUME Inv, QueueInv, [Next]_vars
    PROVE  QueueInv'
<1> USE DEF Inv, TypeOK
<1>1. ASSUME NEW c \in Client, NEW r \in Requests, Enqueue(c, r)
      PROVE  QueueInv'
  <2>1. queue' = Append(queue, c) /\ phase' = [phase EXCEPT ![c] = "evaluating"]
    BY <1>1 DEF Enqueue
  <2>2. ~InQueue(c)
    BY <1>1 DEF Enqueue, QueueInv
  <2>3. /\ Len(queue) \in Nat /\ Len(queue') = Len(queue) + 1
        /\ queue'[Len(queue) + 1] = c
        /\ \A i \in 1 .. Len(queue) : queue'[i] = queue[i] /\ queue[i] # c
    BY <2>1, <2>2 DEF InQueue
  <2>4. \A i \in 1 .. Len(queue') : i \in 1 .. Len(queue) \/ i = Len(queue) + 1
    BY <2>3
  <2>5. \A i, j \in 1 .. Len(queue') : queue'[i] = queue'[j] => i = j
    BY <2>3, <2>4 DEF QueueInv
  <2>6. \A d \in Client : InQueue(d)' => d = c \/ InQueue(d)
    BY <2>3, <2>4 DEF InQueue
  <2>7. QED
    BY <2>1, <2>5, <2>6 DEF QueueInv
<1>2. ASSUME NEW c \in Client, GrantLease(c) \/ GrantBarrier(c) \/ Timeout(c)
      PROVE  QueueInv'
  <2>1. /\ InQueue(c)
        /\ queue' = RemoveTicket(c)
        /\ \A d \in Client : d # c => phase'[d] = phase[d]
    BY <1>2 DEF GrantLease, GrantBarrier, Timeout, PhaseInv
  <2>2. \A i, j \in 1 .. Len(queue') : queue'[i] = queue'[j] => i = j
    BY <2>1, RemoveKeepsUnique
  <2>3. \A d \in Client : InQueue(d)' => d # c /\ InQueue(d)
    BY <2>1, RemoveKeepsUnique DEF InQueue
  <2>4. QED
    BY <2>1, <2>2, <2>3 DEF QueueInv
<1>3. ASSUME NEW c \in Client,
             Sleep(c) \/ Wake(c) \/ ReleaseLease(c) \/ ReleaseBarrier(c)
      PROVE  QueueInv'
  <2>1. /\ queue' = queue
        /\ \A d \in Client : d # c => phase'[d] = phase[d]
        /\ phase'[c] \in {"evaluating", "asleep"} \/ phase[c] = "holding"
    BY <1>3 DEF Sleep, Wake, ReleaseLease, ReleaseBarrier
  <2>2. QED
    BY <2>1 DEF QueueInv, InQueue
<1>4. ASSUME NEW c \in Client, Touch(c) \/ Expire(c) \/ ReleaseExpired(c) \/ Age(c)
      PROVE  QueueInv'
  BY <1>4 DEF Touch, Expire, ReleaseExpired, Age, QueueInv, InQueue
<1>5. ASSUME NEW w \in Watcher, WatchBusy(w) \/ WatchIdle(w) \/ WatchTimeout(w)
      PROVE  QueueInv'
  BY <1>5 DEF WatchBusy, WatchIdle, WatchTimeout, QueueInv, InQueue
<1>6. CASE UNCHANGED vars
  BY <1>6 DEF vars, QueueInv, InQueue
<1>7. QED
  BY <1>1, <1>2, <1>3, <1>4, <1>5, <1>6 DEF Next

(* Every step leaves each active lease with a timer or a callback, and no  *)
(* timer without its lease.                                                *)
LEMMA StepWatchdog ==
    ASSUME Inv, WatchdogInv, [Next]_vars
    PROVE  WatchdogInv'
<1> USE DEF Inv, TypeOK, WatchdogInv, WatchdogArmed
<1>1. ASSUME NEW c \in Client, GrantLease(c)
      PROVE  WatchdogInv'
  BY <1>1 DEF GrantLease
<1>2. ASSUME NEW c \in Client, ReleaseLease(c) \/ Touch(c) \/ Expire(c) \/ ReleaseExpired(c)
      PROVE  WatchdogInv'
  BY <1>2 DEF ReleaseLease, Touch, Expire, ReleaseExpired
<1>3. ASSUME UNCHANGED <<active, armed, expired, fired>>
      PROVE  WatchdogInv'
  BY <1>3
<1>4. QED
  BY <1>1, <1>2, <1>3
  DEF Next, vars, Enqueue, GrantBarrier, Sleep, Wake, Timeout, ReleaseBarrier, Age,
      WatchBusy, WatchIdle, WatchTimeout

(* A step that closes notifyC loses nobody's wake-up: who sleeps after it  *)
(* slept before it, but for one caller that has left.                      *)
LEMMA SignalWakes ==
    ASSUME signalled' = Sleepers, watching' = watching,
           \A c \in Client : phase'[c] = "asleep" => phase[c] = "asleep"
    PROVE  NoLostWakeup'
BY DEF NoLostWakeup, Sleepers

(* A step that decides nothing loses no wake-up as long as it takes the    *)
(* signal only from those it wakes and puts nobody to sleep who may go on. *)
LEMMA QuietStepKeepsWakeups ==
    ASSUME Inv, NoLostWakeup,
           queue' = queue, active' = active, barriers' = barriers, aged' = aged,
           \A e \in Client : e \in active \cup barriers \/ InQueue(e) => ticket'[e] = ticket[e],
           \A c \in Client : phase'[c] = "asleep" =>
               /\ InQueue(c)
               /\ phase[c] = "asleep" \/ ~CanAcquire(c)
               /\ c \in signalled => c \in signalled',
           IsIdle => (\A w \in watching' : w \in watching /\ (w \in signalled => w \in signalled'))
    PROVE  NoLostWakeup'
<1>1. ASSUME aged' = {}, NEW c \in Client, phase'[c] = "asleep", CanAcquire(c)'
      PROVE  c \in signalled'
  <2>1. CanAcquire(c)' <=> CanAcquire(c)
    BY <1>1, SameDecision DEF Inv, TypeOK
  <2>2. QED
    BY <1>1, <2>1 DEF NoLostWakeup
<1>2. IsIdle' => watching' \subseteq signalled'
  BY DEF IsIdle, NoLostWakeup
<1>3. QED
  BY <1>1, <1>2 DEF NoLostWakeup

(* No step loses a wake-up. *)
LEMMA StepWakeup ==
    ASSUME ArbiterAssumption, FairInv, [Next]_vars
    PROVE  NoLostWakeup'
<1> USE DEF FairInv, Inv, TypeOK
<1>1. ASSUME NEW c \in Client,
             \/ \E r \in Requests : Enqueue(c, r)
             \/ GrantLease(c) \/ GrantBarrier(c) \/ ReleaseBarrier(c)
             \/ ReleaseLease(c) /\ c \in active
             \/ ReleaseExpired(c) /\ c \in expired
      PROVE  NoLostWakeup'
  <2>1. signalled' = Sleepers /\ watching' = watching
    BY <1>1 DEF Enqueue, GrantLease, GrantBarrier, ReleaseBarrier, ReleaseLease, ReleaseExpired, Signal
  <2>2. \A d \in Client : phase'[d] = "asleep" => phase[d] = "asleep"
    BY <1>1 DEF Enqueue, GrantLease, GrantBarrier, ReleaseBarrier, ReleaseLease, ReleaseExpired
  <2>3. QED
    BY <2>1, <2>2, SignalWakes
<1>2. ASSUME NEW c \in Client, Timeout(c)
      PROVE  NoLostWakeup'
  <2>1. \A d \in Client : phase'[d] = "asleep" => d \in signalled'
    BY <1>2 DEF Timeout, Sleepers
  <2>2. watching' \subseteq signalled'
    BY <1>2, ArbiterAssumption DEF Timeout, Sleepers, ArbiterAssumption
  <2>3. QED
    BY <2>1, <2>2 DEF NoLostWakeup
<1>3. ASSUME NEW c \in Client,
             \/ Sleep(c) \/ Wake(c) \/ Touch(c) \/ Expire(c)
             \/ ReleaseExpired(c) /\ c \notin expired
      PROVE  NoLostWakeup'
  <2>1. /\ UNCHANGED <<queue, active, barriers, aged, ticket, watching>>
        /\ \A w \in watching : w \in signalled => w \in signalled'
    BY <1>3, ArbiterAssumption
    DEF Sleep, Wake, Touch, Expire, ReleaseExpired, ArbiterAssumption
  <2>2. \A d \in Client : phase'[d] = "asleep" =>
            /\ InQueue(d)
            /\ phase[d] = "asleep" \/ ~CanAcquire(d)
            /\ d \in signalled => d \in signalled'
    BY <1>3 DEF Sleep, Wake, Touch, Expire, ReleaseExpired, PhaseInv
  <2>3. QED
    BY <2>1, <2>2, QuietStepKeepsWakeups
<1>4. ASSUME NEW c \in Client, ReleaseLease(c), c \notin active
      PROVE  NoLostWakeup'
  <2>1. /\ UNCHANGED <<queue, barriers, aged, watching, signalled>>
        /\ active' = active
        /\ \A d \in Client : d # c => ticket'[d] = ticket[d] /\ phase'[d] = phase[d]
        /\ phase'[c] = "idle"
    BY <1>4 DEF ReleaseLease, Forget
  <2>2. c \notin barriers /\ ~InQueue(c)
    BY <1>4 DEF ReleaseLease, PhaseInv, QueueInv
  <2>3. \A d \in Client : phase[d] = "asleep" => InQueue(d)
    BY DEF PhaseInv
  <2>4. QED
    BY <1>4, <2>1, <2>2, <2>3, QuietStepKeepsWakeups
<1>5. ASSUME NEW c \in Client, Age(c)
      PROVE  NoLostWakeup'
  <2>1. aged' # {} /\ (IsIdle' => IsIdle) /\ watching' = watching /\ signalled' = signalled
    BY <1>5 DEF Age, IsIdle
  <2>2. QED
    BY <2>1 DEF NoLostWakeup
<1>6. ASSUME NEW w \in Watcher, WatchBusy(w) \/ WatchIdle(w) \/ WatchTimeout(w)
      PROVE  NoLostWakeup'
  <2>1. UNCHANGED <<queue, active, barriers, aged, ticket, phase>>
    BY <1>6 DEF WatchBusy, WatchIdle, WatchTimeout
  <2>2. \A d \in Client : d \in signalled => d \in signalled'
    BY <1>6, ArbiterAssumption DEF WatchBusy, WatchIdle, WatchTimeout, ArbiterAssumption
  <2>3. IsIdle => (\A v \in watching' : v \in watching /\ (v \in signalled => v \in signalled'))
    BY <1>6 DEF WatchBusy, WatchIdle, WatchTimeout
  <2>4. \A d \in Client : phase[d] = "asleep" => InQueue(d)
    BY DEF PhaseInv
  <2>5. QED
    BY <2>1, <2>2, <2>3, <2>4, QuietStepKeepsWakeups
<1>7. CASE UNCHANGED vars
  <2>1. \A d \in Client : phase[d] = "asleep" => InQueue(d)
    BY DEF PhaseInv
  <2>2. QED
    BY <1>7, <2>1, QuietStepKeepsWakeups DEF vars
<1>8. QED
  BY <1>1, <1>2, <1>3, <1>4, <1>5, <1>6, <1>7 DEF Next
-----------------------------------------------------------------------------
(* Only a granting step makes a client's lease active or its barrier up.   *)
LEMMA GrantedBy ==
    ASSUME [Next]_vars, NEW c \in Client, c \in active' \cup barriers', c \notin active \cup barriers
    PROVE  \/ GrantLease(c) /\ c \in active'
           \/ GrantBarrier(c) /\ c \notin active'
<1>1. ASSUME NEW d \in Client, GrantLease(d)
      PROVE  GrantLease(c) /\ c \in active'
  <2>1. active' = active \cup {d} /\ barriers' = barriers
    BY <1>1 DEF GrantLease
  <2>2. QED
    BY <1>1, <2>1
<1>2. ASSUME NEW d \in Client, GrantBarrier(d)
      PROVE  GrantBarrier(c) /\ c \notin active'
  <2>1. active' = active /\ barriers' = barriers \cup {d}
    BY <1>2 DEF GrantBarrier
  <2>2. QED
    BY <1>2, <2>1
<1>3. ~(active' \subseteq active /\ barriers' \subseteq barriers)
  OBVIOUS
<1>4. ASSUME NEW d \in Client,
             \/ \E r \in Requests : Enqueue(d, r)
             \/ Sleep(d) \/ Wake(d) \/ Timeout(d) \/ ReleaseLease(d) \/ ReleaseBarrier(d)
             \/ Touch(d) \/ Expire(d) \/ ReleaseExpired(d) \/ Age(d)
      PROVE  active' \subseteq active /\ barriers' \subseteq barriers
  BY <1>4 DEF Enqueue, Sleep, Wake, Timeout, ReleaseLease, ReleaseBarrier, Touch, Expire,
              ReleaseExpired, Age
<1>5. ASSUME NEW w \in Watcher, WatchBusy(w) \/ WatchIdle(w) \/ WatchTimeout(w)
      PROVE  active' \subseteq active /\ barriers' \subseteq barriers
  BY <1>5 DEF WatchBusy, WatchIdle, WatchTimeout
<1>6. UNCHANGED vars => active' \subseteq active /\ barriers' \subseteq barriers
  BY DEF vars
<1>7. QED
  BY <1>1, <1>2, <1>3, <1>4, <1>5, <1>6 DEF Next

(* Everyone ahead of a selected transport is a transport as well.          *)
LEMMA SelectedPassesTransports ==
    ASSUME queue \in Seq(Client), QueueInv,
           NEW i \in TransportChoice
    PROVE  /\ i \in 1 .. Len(queue)
           /\ \A d \in Ahead(queue[i]) :
                 \E j \in 1 .. i - 1 : d = queue[j] /\ ~StopsScan(ticket[d])
<1>1. i \in EligibleTransports
  BY DEF TransportChoice, EligibleAgedNonAKA, EligibleAKA
<1>2. i \in 1 .. Len(queue) /\ \A j \in 1 .. i : ~StopsScan(ticket[queue[j]])
  BY <1>1 DEF EligibleTransports
<1>3. Position(queue[i]) = i
  BY <1>2, PositionProperties
<1>4. \A j \in 1 .. i - 1 : j \in 1 .. i
  BY <1>2
<1>5. QED
  BY <1>2, <1>3, <1>4 DEF Ahead

(* The head of the queue has nobody ahead of it. *)
LEMMA HeadIsFirst ==
    ASSUME queue \in Seq(Client), QueueInv, NEW c \in Client, QueueHeadIs(c)
    PROVE  Ahead(c) = {}
<1>1. 1 \in 1 .. Len(queue) /\ queue[1] = c
  BY DEF QueueHeadIs
<1>2. Position(c) = 1
  BY <1>1, PositionProperties
<1>3. QED
  BY <1>2 DEF Ahead

(* A step that grants has no barrier ahead of the ticket it grants.        *)
LEMMA StepNotOvertaken ==
    ASSUME FairInv, [Next]_vars,
           NEW c \in Client, c \in active' \cup barriers', c \notin active \cup barriers,
           NEW d \in Ahead(c)
    PROVE  ticket[d].type # "barrier"
<1>1. queue \in Seq(Client) /\ QueueInv
  BY DEF FairInv, Inv, TypeOK
<1>2. CASE GrantBarrier(c)
  BY <1>2 DEF GrantBarrier, CanAcquireBarrier, SelectedBarrier
<1>3. CASE GrantLease(c)
  <2>1. QueueHeadIs(c) \/ SelectedTransport(c)
    BY <1>3 DEF GrantLease, CanAcquireLease
  <2>2. CASE QueueHeadIs(c)
    BY <1>1, <2>2, HeadIsFirst
  <2>3. CASE SelectedTransport(c)
    BY <1>1, <2>3, SelectedPassesTransports DEF SelectedTransport, StopsScan
  <2>4. QED
    BY <2>1, <2>2, <2>3
<1>4. QED
  BY <1>2, <1>3, GrantedBy

(* A step that grants a transport passes only over transports that are     *)
(* fenced, whose channel is busy, or that its class or age lets it pass.   *)
LEMMA StepOvertaking ==
    ASSUME ArbiterAssumption, FairInv, [Next]_vars,
           NEW c \in Client, c \in active' \ active, ticket[c].type = "transport",
           NEW d \in Ahead(c)
    PROVE  /\ ticket[d].type = "transport"
           /\ \/ IsBlockedByActiveBarrier(ticket[d].class)
              \/ ActiveOnChannel(ticket[d].channel) # {} /\ ticket[d].scope = "qmi_channel"
              \/ ticket[c].class = "USIMAKA" /\ ~(d \in aged /\ ticket[d].class # "USIMAKA")
              \/ ticket[c].class # "USIMAKA" /\ c \in aged
<1>1. queue \in Seq(Client) /\ QueueInv
  BY DEF FairInv, Inv, TypeOK
<1>2. c \notin barriers
  BY DEF FairInv, Inv, PhaseInv
<1>3. SelectedTransport(c)
  BY <1>2, GrantedBy DEF GrantLease, CanAcquireLease
<1>4. PICK i \in TransportChoice : queue[i] = c /\ \A j \in TransportChoice : i <= j
  BY <1>3 DEF SelectedTransport
<1>5. i \in 1 .. Len(queue)
  BY <1>1, <1>4, SelectedPassesTransports
<1>6. PICK j \in 1 .. i - 1 : d = queue[j] /\ ~StopsScan(ticket[d])
  BY <1>1, <1>4, SelectedPassesTransports
<1>7. ticket[d].type = "transport"
  BY <1>6 DEF StopsScan
<1>8. CASE IsBlockedByActiveBarrier(ticket[d].class)
  BY <1>7, <1>8
<1>9. CASE /\ ~IsBlockedByActiveBarrier(ticket[d].class)
           /\ CanAcquireTransportNow(ticket[d])
  <2>1. i \in EligibleTransports
    BY <1>4 DEF TransportChoice, EligibleAgedNonAKA, EligibleAKA
  <2>2. j \in 1 .. Len(queue) /\ \A k \in 1 .. j : k \in 1 .. i
    BY <1>5, <1>6
  <2>3. j \in EligibleTransports
    BY <1>6, <1>9, <2>1, <2>2 DEF EligibleTransports
  <2>4. ~(i <= j)
    BY <1>5, <1>6
  <2>5. CASE i \in EligibleAgedNonAKA
    BY <1>4, <1>7, <2>5 DEF EligibleAgedNonAKA
  <2>6. CASE EligibleAgedNonAKA = {} /\ i \in EligibleAKA
    BY <1>4, <1>6, <1>7, <2>3, <2>6 DEF EligibleAgedNonAKA, EligibleAKA
  <2>7. CASE TransportChoice = EligibleTransports
    BY <1>4, <2>3, <2>4, <2>7
  <2>8. QED
    BY <1>4, <2>5, <2>6, <2>7 DEF TransportChoice
<1>10. CASE /\ ~IsBlockedByActiveBarrier(ticket[d].class)
            /\ ~CanAcquireTransportNow(ticket[d])
  <2>1. ~TransportWaitGatesQueue(ticket[d])
    BY <1>6, <1>10 DEF StopsScan
  <2>2. IsFiniteSet(ActiveQMI)
    <3>1. ActiveQMI \subseteq Client
      BY DEF ActiveQMI, ActiveOf, FairInv, Inv, TypeOK
    <3>2. QED
      BY <3>1, FS_Subset, ArbiterAssumption DEF ArbiterAssumption
  <2>3. Cardinality(ActiveQMI) \in Nat
    BY <2>2, FS_CardinalityType
  <2>4. Cardinality(ActiveQMI) < MaxQMITransports
    BY <2>1, <2>3, ArbiterAssumption DEF TransportWaitGatesQueue, ArbiterAssumption
  <2>5. QED
    BY <1>7, <1>10, <2>1, <2>4 DEF TransportWaitGatesQueue, CanAcquireTransportNow
<1>11. QED
  BY <1>8, <1>9, <1>10

(* A lease that goes away was released or is overdue. *)
LEMMA StepOverdueOnly ==
    ASSUME FairInv, [Next]_vars, NEW c \in active \ active'
    PROVE  phase'[c] = "idle" \/ c \in expired
BY DEF FairInv, Inv, TypeOK, Next, vars, Enqueue, GrantLease, GrantBarrier, Sleep, Wake, Timeout,
       ReleaseLease, ReleaseBarrier, Touch, Expire, ReleaseExpired, Age, WatchBusy, WatchIdle,
       WatchTimeout

(* The queue of the arbiter is fair, for every set of callers, every mix   *)
(* of requests and every limit: nobody sleeps through the change that lets *)
(* it go on, every active lease is watched and taken only when overdue, no *)
(* barrier is overtaken, and a transport is overtaken only for a reason.   *)
THEOREM QueueFairness == Spec => QueueIsFair
<1>1. Init => FairInv
  <2>1. SUFFICES ASSUME Init PROVE FairInv
    OBVIOUS
  <2>2. Inv
    BY <2>1, InitInv, ArbiterAssumption
  <2>3. QueueInv /\ WatchdogInv /\ NoLostWakeup
    BY <2>1 DEF Init, QueueInv, InQueue, WatchdogInv, WatchdogArmed, NoLostWakeup
  <2>4. QED
    BY <2>2, <2>3 DEF FairInv
<1>2. FairInv /\ [Next]_vars => FairInv'
  BY StepPhase, StepExclusion, StepFence, StepQueue, StepWatchdog, StepWakeup, ArbiterAssumption
  DEF FairInv, Inv
<1>3. FairInv => NoLostWakeup /\ WatchdogArmed
  BY DEF FairInv, WatchdogInv
<1>4. FairInv /\ [Next]_vars =>
          [\A c \in Client :
              (c \in active' \cup barriers') /\ (c \notin active \cup barriers) =>
                  \A d \in Ahead(c) : ticket[d].type # "barrier"]_vars
  BY StepNotOvertaken
<1>5. FairInv /\ [Next]_vars =>
          [\A c \in Client : c \in active' \ active /\ ticket[c].type = "transport" =>
              \A d \in Ahead(c) :
                  /\ ticket[d].type = "transport"
                  /\ \/ IsBlockedByActiveBarrier(ticket[d].class)
                     \/ ActiveOnChannel(ticket[d].channel) # {} /\ ticket[d].scope = "qmi_channel"
                     \/ ticket[c].class = "USIMAKA" /\ ~(d \in aged /\ ticket[d].class # "USIMAKA")
                     \/ ticket[c].class # "USIMAKA" /\ c \in aged]_vars
  BY StepOvertaking, ArbiterAssumption
<1>6. FairInv /\ [Next]_vars => [\A c \in active \ active' : phase'[c] = "idle" \/ c \in expired]_vars
  BY StepOverdueOnly
<1>7. QED
  BY <1>1, <1>2, <1>3, <1>4, <1>5, <1>6, PTL
  DEF Spec, QueueIsFair, BarrierNotOvertaken, OvertakingHasReason, WatchdogTakesOverdueOnly
-----------------------------------------------------------------------------
(***************************************************************************)
(* The arbiter implements CardAccess for every set of clients, every mix   *)
(* of requests and every limit.                                            *)
(***************************************************************************)
LeaseOf == [c \in Client |-> IF c \in active THEN ticket[c] ELSE NoLease]

FenceOf == [c \in Client |-> IF c \in barriers THEN ticket[c].blocked ELSE {}]

Leases == {LeaseTicket(r) : r \in {q \in Requests : q.type # "barrier"}}

(* The ticket of a call in progress is one the caller's request makes.     *)
TicketInv ==
    \A c \in Client : phase[c] # "idle" =>
        \/ ticket[c] \in Leases
        \/ ticket[c].type = "barrier" /\ ticket[c].blocked # {}

(* A lease's ticket is no barrier, and only a transport has a QMI channel. *)
LEMMA LeasesProperties ==
    ASSUME ArbiterAssumption, NEW l \in Leases
    PROVE  /\ l.type \in LeaseType
           /\ l.scope = "qmi_channel" => l.type = "transport"
           /\ l # NoLease
<1>1. PICK r \in Requests : r.type # "barrier" /\ l = LeaseTicket(r)
  BY DEF Leases
<1>2. r \in RawRequest
  BY ArbiterAssumption DEF ArbiterAssumption
<1>3. l.type = r.type /\ l.scope = NormalizeTransportScope(r)
  BY <1>1 DEF LeaseTicket
<1>4. l.type \in LeaseType
  BY <1>1, <1>2, <1>3 DEF RawRequest
<1>5. l # NoLease
  BY <1>4 DEF NoLease, LeaseType
<1>6. l.scope = "qmi_channel" => r.type = "transport"
  BY <1>3 DEF NormalizeTransportScope
<1>7. QED
  BY <1>3, <1>4, <1>5, <1>6

(* A barrier blocks at least one class of traffic.                         *)
LEMMA BarrierBlocks ==
    ASSUME NEW r \in RawRequest
    PROVE  BarrierTicket(r).type = "barrier" /\ BarrierTicket(r).blocked # {}
BY DEF BarrierTicket

(* The tickets of calls in progress stay those their requests made.        *)
LEMMA TicketStep ==
    ASSUME ArbiterAssumption, Inv, TicketInv, [Next]_vars
    PROVE  TicketInv'
<1> USE DEF Inv
<1>1. ASSUME NEW c \in Client, NEW r \in Requests, Enqueue(c, r)
      PROVE  TicketInv'
  <2>1. r \in RawRequest
    BY ArbiterAssumption DEF ArbiterAssumption
  <2>2. ticket'[c] \in Leases \/ (ticket'[c].type = "barrier" /\ ticket'[c].blocked # {})
    BY <1>1, <2>1, BarrierBlocks DEF Enqueue, TypeOK, Leases
  <2>3. \A d \in Client : d # c => ticket'[d] = ticket[d] /\ phase'[d] = phase[d]
    BY <1>1 DEF Enqueue, TypeOK
  <2>4. Leases' = Leases
    BY DEF Leases, LeaseTicket, NormalizeClass, NormalizeTransportScope
  <2>5. QED
    BY <2>2, <2>3, <2>4 DEF TicketInv
<1>2. ASSUME NEW c \in Client,
             \/ GrantLease(c) \/ GrantBarrier(c) \/ Sleep(c) \/ Wake(c)
      PROVE  TicketInv'
  <2>1. ticket' = ticket /\ phase[c] # "idle"
    BY <1>2 DEF GrantLease, GrantBarrier, Sleep, Wake
  <2>2. \A d \in Client : phase'[d] # "idle" => phase[d] # "idle"
    BY <1>2, <2>1 DEF GrantLease, GrantBarrier, Sleep, Wake, TypeOK
  <2>3. QED
    BY <2>1, <2>2 DEF TicketInv, Leases
<1>3. ASSUME NEW c \in Client, Timeout(c) \/ ReleaseLease(c) \/ ReleaseBarrier(c)
      PROVE  TicketInv'
  <2>1. phase'[c] = "idle"
    BY <1>3 DEF Timeout, ReleaseLease, ReleaseBarrier, TypeOK
  <2>2. \A d \in Client : d # c => ticket'[d] = ticket[d] /\ phase'[d] = phase[d]
    BY <1>3 DEF Timeout, ReleaseLease, ReleaseBarrier, Forget, TypeOK
  <2>3. QED
    BY <2>1, <2>2 DEF TicketInv, Leases
<1>4. ASSUME NEW c \in Client, Touch(c) \/ Expire(c) \/ ReleaseExpired(c) \/ Age(c)
      PROVE  TicketInv'
  BY <1>4 DEF Touch, Expire, ReleaseExpired, Age, TicketInv, Leases
<1>5. ASSUME NEW w \in Watcher, WatchBusy(w) \/ WatchIdle(w) \/ WatchTimeout(w)
      PROVE  TicketInv'
  BY <1>5 DEF WatchBusy, WatchIdle, WatchTimeout, TicketInv, Leases
<1>6. CASE UNCHANGED vars
  BY <1>6 DEF vars, TicketInv, Leases
<1>7. QED
  BY <1>1, <1>2, <1>3, <1>4, <1>5, <1>6 DEF Next
-----------------------------------------------------------------------------
(* The cardinality CardAccess counts with is the arbiter's.                *)
LEMMA SameCardinality == \A S : Access!Cardinality(S) = Cardinality(S)
BY DEF Access!Cardinality, Cardinality

(* A granted ticket is a grant of the abstract specification.              *)
LEMMA GrantRefines ==
    ASSUME ArbiterAssumption, Inv, TicketInv, NEW c \in Client, GrantLease(c)
    PROVE  Access!Next
<1> USE DEF Inv
<1>1. /\ phase[c] = "evaluating" /\ ticket[c].type # "barrier" /\ CanAcquireLease(c)
      /\ active' = active \cup {c} /\ ticket' = ticket /\ barriers' = barriers
  BY DEF GrantLease
<1>2. c \notin active /\ c \notin barriers /\ ticket[c] \in Leases
  BY <1>1 DEF PhaseInv, TicketInv
<1>3. /\ \A d \in active : Compatible(ticket[c], ticket[d])
      /\ ticket[c].type = "session" => Cardinality(ActiveOf("session")) < MaxSessions
      /\ ticket[c].type = "transport" /\ ticket[c].scope = "qmi_channel" =>
            Cardinality(ActiveQMI) < MaxQMITransports
  BY <1>1, GrantedIsCompatible
<1>4. active \subseteq Client /\ barriers \subseteq Client
  BY DEF TypeOK
<1>5. \A d \in active : ticket[d] \in Leases
  BY <1>4 DEF PhaseInv, TicketInv
<1>6. \A d \in active :
         ticket[d] # NoLease /\ (ticket[d].scope = "qmi_channel" => ticket[d].type = "transport")
  BY <1>5, LeasesProperties
<1>7. {d \in Client : LeaseOf[d] # NoLease} = active
  BY <1>4, <1>6 DEF LeaseOf
<1>8. {d \in active : LeaseOf[d].type = "session"} = ActiveOf("session")
  BY <1>4 DEF LeaseOf, ActiveOf
<1>9. {d \in active : LeaseOf[d].scope = "qmi_channel"} = ActiveQMI
  BY <1>4, <1>6 DEF LeaseOf, ActiveOf, ActiveQMI
<1>10. LeaseOf[c] = NoLease /\ FenceOf[c] = {}
  BY <1>2 DEF LeaseOf, FenceOf
<1>11. \A d \in active : Compatible(ticket[c], LeaseOf[d])
  BY <1>3, <1>4 DEF LeaseOf
<1>12. \A d \in Client : ticket[c].class \notin FenceOf[d]
  BY <1>1 DEF CanAcquireLease, IsBlockedByActiveBarrier, FenceOf
<1>13. ticket[c].scope = "qmi_channel" => Cardinality(ActiveQMI) < MaxQMITransports
  BY <1>2, <1>3, LeasesProperties
<1>14. LeaseOf' = [LeaseOf EXCEPT ![c] = ticket[c]] /\ FenceOf' = FenceOf
  BY <1>1 DEF LeaseOf, FenceOf
<1>. PICK l \in Leases : l = ticket[c]
  BY <1>2
<1>15. Access!Grant(c, l)
  <2> HIDE DEF Inv
  <2>1. Access!Holders = active
    BY <1>7 DEF Access!Holders, LeaseOf
  <2>2. /\ ticket[c].type = "session" =>
              Access!Cardinality({d \in active : LeaseOf[d].type = "session"}) < MaxSessions
        /\ ticket[c].scope = "qmi_channel" =>
              Access!Cardinality({d \in active : LeaseOf[d].scope = "qmi_channel"})
                 < MaxQMITransports
    BY <1>3, <1>8, <1>9, <1>13, SameCardinality
  <2>3. QED
    BY <1>10, <1>11, <1>12, <1>14, <2>1, <2>2 DEF Access!Grant, LeaseOf, FenceOf
<1>16. \E k \in Leases : Access!Grant(c, k)
  BY <1>15, Zenon
<1>17. QED
  BY <1>16, Zenon DEF Access!Next, Leases

(* A barrier that goes up is a fence raised on a silent card.              *)
LEMMA RaiseRefines ==
    ASSUME ArbiterAssumption, Inv, TicketInv, NEW c \in Client, GrantBarrier(c)
    PROVE  Access!Next
<1> USE DEF Inv
<1>1. /\ phase[c] = "evaluating" /\ ticket[c].type = "barrier" /\ active = {}
      /\ active' = active /\ ticket' = ticket /\ barriers' = barriers \cup {c}
  BY DEF GrantBarrier, CanAcquireBarrier
<1>2. c \notin barriers
  BY <1>1 DEF PhaseInv
<1>3. ticket[c].blocked # {} /\ ticket[c].blocked \in SUBSET APDUClass
  <2>1. ticket[c].blocked \in SUBSET APDUClass
    BY DEF TypeOK, Ticket
  <2>2. ticket[c] \notin Leases
    BY <1>1, LeasesProperties DEF LeaseType
  <2>3. QED
    BY <1>1, <2>1, <2>2 DEF TicketInv
<1>4. LeaseOf' = LeaseOf /\ \A d \in Client : LeaseOf[d] = NoLease
  BY <1>1 DEF LeaseOf
<1>5. FenceOf[c] = {} /\ FenceOf' = [FenceOf EXCEPT ![c] = ticket[c].blocked]
  BY <1>1, <1>2 DEF FenceOf
<1>. PICK classes \in SUBSET APDUClass : classes = ticket[c].blocked
  BY <1>3
<1>6. Access!Raise(c, classes)
  BY <1>3, <1>4, <1>5 DEF Access!Raise, Access!Holders, LeaseOf, FenceOf
<1>7. \E blocked \in SUBSET APDUClass : Access!Raise(c, blocked)
  BY <1>6, Zenon
<1>8. QED
  BY <1>7, Zenon DEF Access!Next

(* A lease that ends, by its holder or by the watchdog, is a release; the  *)
(* holder's release of a lease the watchdog took is a stutter.             *)
LEMMA ReleaseRefines ==
    ASSUME ArbiterAssumption, Inv, TicketInv, NEW c \in Client,
           ReleaseLease(c) \/ ReleaseExpired(c)
    PROVE  Access!Next \/ (LeaseOf' = LeaseOf /\ FenceOf' = FenceOf)
<1> USE DEF Inv
<1>1. \/ c \in active /\ active' = active \ {c}
      \/ active' = active /\ (c \notin active \/ ticket' = ticket)
  <2>1. CASE ReleaseLease(c)
    BY <2>1 DEF ReleaseLease, TypeOK
  <2>2. CASE ReleaseExpired(c)
    <3>1. ticket' = ticket /\ (active' = active \/ active' = active \ {c})
      BY <2>2 DEF ReleaseExpired
    <3>2. CASE c \in active
      BY <3>1, <3>2
    <3>3. CASE c \notin active
      <4>1. active \ {c} = active
        BY <3>3
      <4>2. QED
        BY <3>1, <3>3, <4>1
    <3>4. QED
      BY <3>2, <3>3
  <2>3. QED
    BY <2>1, <2>2
<1>2. barriers' = barriers /\ \A d \in Client : d # c => ticket'[d] = ticket[d]
  BY DEF ReleaseLease, ReleaseExpired, Forget, TypeOK
<1>3. c \in barriers => ticket' = ticket
  BY DEF ReleaseLease, ReleaseExpired, PhaseInv
<1>4. FenceOf' = FenceOf
  BY <1>2, <1>3 DEF FenceOf
<1>5. CASE active' = active /\ (c \notin active \/ ticket' = ticket)
  <2>1. LeaseOf' = LeaseOf
    BY <1>2, <1>5 DEF LeaseOf
  <2>2. QED
    BY <1>4, <2>1
<1>6. CASE c \in active /\ active' = active \ {c}
  <2>1. LeaseOf' = [LeaseOf EXCEPT ![c] = NoLease]
    BY <1>2, <1>6 DEF LeaseOf
  <2>2. ticket[c] # NoLease
    <3>1. phase[c] # "idle" /\ ticket[c].type # "barrier"
      BY <1>6 DEF PhaseInv
    <3>2. QED
      BY <3>1, LeasesProperties DEF TicketInv
  <2>3. LeaseOf[c] # NoLease
    BY <1>6, <2>2 DEF LeaseOf
  <2>4. Access!Release(c)
    BY <1>4, <2>1, <2>3 DEF Access!Release, LeaseOf, FenceOf
  <2>5. QED
    BY <2>4 DEF Access!Next
<1>7. QED
  BY <1>1, <1>5, <1>6

(* A barrier that comes down is a fence lowered.                           *)
LEMMA LowerRefines ==
    ASSUME ArbiterAssumption, Inv, TicketInv, NEW c \in Client, ReleaseBarrier(c)
    PROVE  Access!Next
<1> USE DEF Inv
<1>1. c \in barriers /\ barriers' = barriers \ {c} /\ active' = active
  BY DEF ReleaseBarrier
<1>2. c \notin active /\ phase[c] # "idle" /\ ticket[c].type = "barrier"
  BY <1>1 DEF PhaseInv
<1>3. \A d \in Client : d # c => ticket'[d] = ticket[d]
  BY DEF ReleaseBarrier, Forget, TypeOK
<1>4. LeaseOf' = LeaseOf /\ FenceOf' = [FenceOf EXCEPT ![c] = {}]
  BY <1>1, <1>2, <1>3 DEF LeaseOf, FenceOf
<1>5. FenceOf[c] # {}
  <2>1. ticket[c] \notin Leases
    BY <1>2, LeasesProperties DEF LeaseType
  <2>2. QED
    BY <1>1, <1>2, <2>1 DEF TicketInv, FenceOf
<1>6. Access!Lower(c)
  BY <1>4, <1>5 DEF Access!Lower, LeaseOf, FenceOf
<1>7. QED
  BY <1>6 DEF Access!Next

(* Every other step leaves what the callers see unchanged.                 *)
LEMMA StutterRefines ==
    ASSUME Inv, [Next]_vars,
           \A c \in Client : /\ ~GrantLease(c) /\ ~GrantBarrier(c)
                             /\ ~ReleaseLease(c) /\ ~ReleaseExpired(c) /\ ~ReleaseBarrier(c)
    PROVE  LeaseOf' = LeaseOf /\ FenceOf' = FenceOf
<1> USE DEF Inv
<1>1. ASSUME NEW c \in Client, Timeout(c) \/ \E r \in Requests : Enqueue(c, r)
      PROVE  LeaseOf' = LeaseOf /\ FenceOf' = FenceOf
  <2>1. c \notin active /\ c \notin barriers /\ active' = active /\ barriers' = barriers
    BY <1>1 DEF Timeout, Enqueue, PhaseInv
  <2>2. \A d \in Client : d # c => ticket'[d] = ticket[d]
    BY <1>1 DEF Timeout, Enqueue, Forget, TypeOK
  <2>3. QED
    BY <2>1, <2>2 DEF LeaseOf, FenceOf
<1>2. ASSUME NEW c \in Client, Sleep(c) \/ Wake(c) \/ Touch(c) \/ Expire(c) \/ Age(c)
      PROVE  LeaseOf' = LeaseOf /\ FenceOf' = FenceOf
  BY <1>2 DEF Sleep, Wake, Touch, Expire, Age, LeaseOf, FenceOf
<1>3. ASSUME NEW w \in Watcher, WatchBusy(w) \/ WatchIdle(w) \/ WatchTimeout(w)
      PROVE  LeaseOf' = LeaseOf /\ FenceOf' = FenceOf
  BY <1>3 DEF WatchBusy, WatchIdle, WatchTimeout, LeaseOf, FenceOf
<1>4. CASE UNCHANGED vars
  BY <1>4 DEF vars, LeaseOf, FenceOf
<1>5. QED
  BY <1>1, <1>2, <1>3, <1>4 DEF Next
-----------------------------------------------------------------------------
(* The arbiter implements the abstract card access: initial states map to  *)
(* initial states and every step to a step or a stutter.                   *)
THEOREM Refinement == Spec => ImplementsCardAccess
<1>1. Init => TicketInv
  BY DEF Init, TicketInv
<1>2. Init => Access!Init
  BY DEF Init, Access!Init
<1>3. Inv /\ TicketInv /\ [Next]_vars => TicketInv'
  BY TicketStep, ArbiterAssumption
<1>4. Inv /\ TicketInv /\ [Next]_vars => [Access!Next]_<<LeaseOf, FenceOf>>
  BY GrantRefines, RaiseRefines, ReleaseRefines, LowerRefines, StutterRefines, ArbiterAssumption
<1>5. QED
  BY <1>1, <1>2, <1>3, <1>4, Invariance, PTL
  DEF Spec, ImplementsCardAccess, Access!Spec, LeaseOf, FenceOf
=============================================================================
