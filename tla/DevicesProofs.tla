---------------------------- MODULE DevicesProofs ----------------------------
(***************************************************************************)
(* Proofs about the MBIM control channel and the services the backends     *)
(* build on devices, for any callers, clients, messages and bounds.  The   *)
(* channel's names are bare, B is the services.                            *)
(***************************************************************************)
EXTENDS MCDevices, SequenceTheorems, FiniteSetTheorems, TLAPS

-----------------------------------------------------------------------------
(***************************************************************************)
(* The control channel.  A transaction number is used once, and the module *)
(* sends one message of a number at a time: what a collector holds is the  *)
(* beginning of the one message whose next fragment may be read.           *)
(***************************************************************************)
Active   == {"write", "writing", "wait"}
Stages   == {"none", "config", "open", "plain", "alloc", "use", "release"}
Kinds    == {"open", "done", "ind"}
Fragment == [tx : Nat, id : Nat, kind : Kinds, part : Nat, of : Nat]
Command  == [tx : Nat, stage : Stages, client : Nat]
Answer   == [tx : Nat, ok : BOOLEAN, ids : Seq(Fragment)]

DeviceType ==
    /\ nextTx \in 0 .. MaxTx /\ inds \in Nat /\ pending \subseteq 1 .. nextTx
    /\ transport \in {"open", "broken", "closed"}
    /\ mpc \in [Caller -> Active \cup {"idle", "next"}]
    /\ stage \in [Caller -> Stages]
    /\ tx \in [Caller -> Nat] /\ client \in [Caller -> Nat]
    /\ served \subseteq Command /\ out \subseteq Fragment /\ box \subseteq Answer
    /\ collector \in [DOMAIN collector -> Seq(Fragment)]
    /\ indications \in Seq(Seq(Fragment))

(* Whose transactions there are: a number belongs to one caller, who waits *)
(* in the table or has been answered.                                      *)
CallInv ==
    /\ \A p \in Caller : tx[p] <= nextTx /\ client[p] <= nextTx
    /\ \A p \in Caller : tx[p] # 0 <=> mpc[p] \in Active
    /\ \A p \in Caller : mpc[p] = "idle" => stage[p] = "none"
    /\ \A p, q \in Caller : p # q /\ tx[p] # 0 => tx[p] # tx[q]
    /\ \A p, q \in Caller : client[p] # 0 => client[p] # tx[q]
    /\ \A p \in Caller : client[p] # 0 =>
          stage[p] \in {"use", "release"} \/ (stage[p] = "alloc" /\ mpc[p] = "next")
    /\ \A p \in Caller : mpc[p] \in Active /\ tx[p] \notin pending =>
          \E r \in box : r.tx = tx[p]

(* The number t is not on its way.                                         *)
Unused(t) ==
    /\ \A c \in served : c.tx # t
    /\ \A m \in out : m.tx # t
    /\ \A r \in box : r.ok => r.tx # t
    /\ t \notin DOMAIN collector

(* What is on its way: a command, then its answer, then the result.        *)
WireInv ==
    /\ transport # "open" => served = {} /\ out = {} /\ clients = {}
    /\ \A c \in served : c.tx \in 1 .. nextTx
    /\ \A r \in box : r.tx \in 1 .. nextTx
    /\ \A m \in out :
          /\ m.part \in 1 .. m.of
          /\ m.kind = "ind" => m.tx \in IndTx
          /\ m.kind # "ind" => m.tx \in 1 .. nextTx /\ m.id = m.tx
          /\ m.kind = "open" => m.of = 1
    /\ \A p \in Caller : mpc[p] \in {"write", "writing"} => Unused(tx[p])
    /\ \A c, d \in served : c.tx = d.tx => c = d
    /\ \A m, l \in out : m.tx = l.tx => m = l
    /\ \A c \in served : /\ \A m \in out : m.tx # c.tx
                         /\ \A r \in box : r.ok => r.tx # c.tx
                         /\ \A p \in Caller : client[p] # c.tx

(* A beginning: the first fragments of one message, in their order.        *)
Beginning(c) ==
    /\ c # <<>>
    /\ \A i \in 1 .. Len(c) : /\ c[i].part = i
                              /\ c[i].of = c[1].of /\ c[i].id = c[1].id

CollectInv ==
    /\ DOMAIN collector \subseteq pending \cup IndTx
    /\ IsFiniteSet(DOMAIN collector) /\ Cardinality(DOMAIN collector) <= MaxCollectors
    /\ \A t \in DOMAIN collector :
          /\ Beginning(collector[t])
          /\ transport = "open" => \E m \in out : m.tx = t
          /\ \A m \in out : m.tx = t =>
                /\ m.kind # "open"
                /\ m.part = Len(collector[t]) + 1 /\ m.id = collector[t][1].id

(* What has been put together is whole.                                    *)
ResultInv ==
    /\ \A r \in box : r.ok => Whole(r.ids) /\ r.ids[1].id = r.tx
    /\ \A i \in DOMAIN indications : Whole(indications[i])

(* A client in the module has a caller, or is known to be lost.            *)
ClientInv ==
    /\ clients \subseteq 1 .. nextTx
    /\ \A c \in clients : c \in lost \/ \E p \in Caller :
          client[p] = c \/ (tx[p] = c /\ stage[p] = "alloc")
    /\ \A c \in served : c.stage = "alloc" =>
          c.tx \in lost \/ \E p \in Caller : tx[p] = c.tx /\ stage[p] = "alloc"
    /\ \A c \in served, p \in Caller : tx[p] = c.tx =>
          c.client = client[p] /\ c.stage = stage[p]
    /\ \A p \in Caller : mpc[p] = "wait" /\ stage[p] = "release" =>
          client[p] \notin clients \/ \E c \in served : c.tx = tx[p]

DeviceInv == DeviceType /\ CallInv /\ WireInv /\ CollectInv /\ ResultInv /\ ClientInv

(* Before the first command there is nothing to keep apart.                *)
LEMMA DeviceInit == Init => DeviceInv
<1>1. SUFFICES ASSUME Init
               PROVE  DeviceInv
  OBVIOUS
<1>2. DOMAIN collector = {}
  BY <1>1 DEF Init
<1>3. DeviceType
  <2>1. collector \in [DOMAIN collector -> Seq(Fragment)] /\ indications \in Seq(Seq(Fragment))
    BY <1>1, <1>2 DEF Init
  <2>2. mpc \in [Caller -> Active \cup {"idle", "next"}] /\ stage \in [Caller -> Stages]
    BY <1>1 DEF Init, Active, Stages
  <2>3. QED
    BY <1>1, <2>1, <2>2, MbimAssumption DEF Init, DeviceType
<1>4. CallInv
  BY <1>1 DEF Init, CallInv, Active
<1>5. WireInv
  BY <1>1 DEF Init, WireInv, Unused
<1>6. CollectInv
  BY <1>1, <1>2, FS_EmptySet, MbimAssumption DEF CollectInv
<1>7. ResultInv
  BY <1>1 DEF Init, ResultInv
<1>8. ClientInv
  BY <1>1 DEF Init, ClientInv
<1>9. QED
  BY <1>3, <1>4, <1>5, <1>6, <1>7, <1>8 DEF DeviceInv

-----------------------------------------------------------------------------

(* commandCollector gives the collector of the message's number, which may *)
(* be new, and takes nothing else but, when there are too many, one nobody *)
(* waits for.                                                              *)
LEMMA CollectorsFound ==
    ASSUME DeviceType, CollectInv, MbimAssumption,
           NEW m \in out, NEW cs \in Collectors(m)
    PROVE  /\ DOMAIN cs \subseteq DOMAIN collector \cup {m.tx} /\ m.tx \in DOMAIN cs
           /\ cs \in [DOMAIN cs -> Seq(Fragment)]
           /\ \A t \in DOMAIN cs \cap DOMAIN collector : cs[t] = collector[t]
           /\ m.tx \notin DOMAIN collector => cs[m.tx] = <<>>
           /\ m.kind = "done" => m.tx \in pending \cup DOMAIN collector
           /\ IsFiniteSet(DOMAIN cs) /\ Cardinality(DOMAIN cs) <= MaxCollectors
<1> DEFINE new  == [x \in DOMAIN collector \cup {m.tx} |->
                     IF x \in DOMAIN collector THEN collector[x] ELSE <<>>]
           idle == DOMAIN collector \ pending
           without(v) == [x \in DOMAIN new \ {v} |-> new[x]]
<1>1. /\ collector \in [DOMAIN collector -> Seq(Fragment)]
      /\ IsFiniteSet(DOMAIN collector) /\ Cardinality(DOMAIN collector) \in Nat
      /\ Cardinality(DOMAIN collector) <= MaxCollectors /\ MaxCollectors \in Nat
  BY FS_CardinalityType DEF DeviceType, CollectInv, MbimAssumption
<1>2. CASE m.tx \in DOMAIN collector
  <2>1. cs = collector
    BY <1>2 DEF Collectors
  <2>2. QED
    BY <1>1, <1>2, <2>1
<1>3. CASE m.tx \notin DOMAIN collector
  <2>1. /\ m.kind = "done" => m.tx \in pending
        /\ \/ Cardinality(DOMAIN collector) < MaxCollectors /\ cs = new
           \/ \E v \in idle : cs = without(v)
    BY <1>3 DEF Collectors
  <2>2. DOMAIN new = DOMAIN collector \cup {m.tx}
    OBVIOUS
  <2>3. new[m.tx] = <<>> /\ \A x \in DOMAIN collector : new[x] = collector[x]
    BY <1>3
  <2>4. /\ IsFiniteSet(DOMAIN new)
        /\ Cardinality(DOMAIN new) = Cardinality(DOMAIN collector) + 1
    BY <1>1, <1>3, <2>2, FS_AddElement
  <2>5. \A x \in DOMAIN new : new[x] \in Seq(Fragment)
    BY <1>1, <2>2, <2>3
  <2>6. new = [x \in DOMAIN new |-> new[x]]
    OBVIOUS
  <2> HIDE DEF new
  <2>7. CASE Cardinality(DOMAIN collector) < MaxCollectors /\ cs = new
    <3>1. new \in [DOMAIN new -> Seq(Fragment)]
      BY <2>5, <2>6
    <3>2. QED
      BY <1>1, <1>3, <2>1, <2>2, <2>3, <2>4, <2>7, <3>1
  <2>8. ASSUME NEW v \in idle, cs = without(v)
        PROVE  /\ DOMAIN cs \subseteq DOMAIN collector \cup {m.tx} /\ m.tx \in DOMAIN cs
               /\ cs \in [DOMAIN cs -> Seq(Fragment)]
               /\ \A t \in DOMAIN cs \cap DOMAIN collector : cs[t] = collector[t]
               /\ cs[m.tx] = <<>>
               /\ IsFiniteSet(DOMAIN cs) /\ Cardinality(DOMAIN cs) <= MaxCollectors
    <3>1. DOMAIN cs = DOMAIN new \ {v} /\ \A x \in DOMAIN new \ {v} : cs[x] = new[x]
      BY <2>8
    <3>2. v # m.tx /\ v \in DOMAIN new
      BY <1>3, <2>2
    <3>3. IsFiniteSet(DOMAIN cs) /\ Cardinality(DOMAIN cs) = Cardinality(DOMAIN collector)
      <4>1. /\ IsFiniteSet(DOMAIN new \ {v})
            /\ Cardinality(DOMAIN new \ {v}) = Cardinality(DOMAIN new) - 1
        BY <2>4, <3>2, FS_RemoveElement
      <4>2. QED
        BY <1>1, <2>4, <3>1, <4>1
    <3>4. cs \in [DOMAIN cs -> Seq(Fragment)]
      BY <2>5, <2>8, <3>1
    <3>5. QED
      BY <1>1, <2>2, <2>3, <3>1, <3>2, <3>3, <3>4
  <2>9. QED
    BY <1>3, <2>1, <2>7, <2>8
<1>4. QED
  BY <1>2, <1>3

(* collector.add: what it accepts continues the message.                   *)
LEMMA Continues ==
    ASSUME NEW c \in Seq(Fragment), NEW m \in Fragment, Expected(c, m),
           c # <<>> => Beginning(c) /\ m.id = c[1].id
    PROVE  /\ Append(c, m) \in Seq(Fragment)
           /\ Beginning(Append(c, m)) /\ Len(Append(c, m)) = m.part
           /\ Append(c, m)[1].id = m.id
           /\ m.part = m.of => Whole(Append(c, m))
<1> DEFINE d == Append(c, m)
<1>1. /\ d \in Seq(Fragment) /\ Len(d) = Len(c) + 1 /\ d[Len(c) + 1] = m
      /\ \A i \in 1 .. Len(c) : d[i] = c[i]
  BY AppendProperties
<1>2. Len(c) \in Nat /\ m.part = Len(c) + 1 /\ DOMAIN d = 1 .. Len(d) /\ d # <<>>
  BY <1>1 DEF Expected
<1>3. CASE c = <<>>
  <2>1. Len(c) = 0
    BY <1>3
  <2>2. d[1] = m /\ DOMAIN d = {1} /\ Len(d) = 1 /\ m.part = 1
    BY <1>1, <1>2, <2>1
  <2> HIDE DEF d
  <2>3. Beginning(d) /\ (m.part = m.of => Whole(d))
    BY <1>2, <2>2 DEF Beginning, Whole
  <2>4. QED
    BY <1>1, <2>2, <2>3 DEF d
<1>4. CASE c # <<>>
  <2>1. 1 \in 1 .. Len(c) /\ d[1] = c[1]
    BY <1>1, <1>2, <1>4
  <2>2. m.of = c[1].of /\ m.id = c[1].id
    BY <1>4, <2>1 DEF Expected, Head
  <2>3. \A i \in 1 .. Len(c) : d[i].part = i /\ d[i].of = d[1].of /\ d[i].id = d[1].id
    BY <1>1, <1>4, <2>1 DEF Beginning
  <2>4. \A i \in 1 .. Len(d) : i \in 1 .. Len(c) \/ i = Len(c) + 1
    BY <1>1, <1>2
  <2> HIDE DEF d
  <2>5. \A i \in 1 .. Len(d) : d[i].part = i /\ d[i].of = m.of /\ d[i].id = m.id
    BY <1>1, <1>2, <2>1, <2>2, <2>3, <2>4
  <2>6. 1 \in 1 .. Len(d)
    BY <1>1, <1>2
  <2>7. Beginning(d) /\ (m.part = m.of => Whole(d))
    BY <1>1, <1>2, <2>5, <2>6 DEF Beginning, Whole
  <2>8. QED
    BY <1>1, <1>2, <2>5, <2>6, <2>7 DEF d
<1>5. QED
  BY <1>3, <1>4

(* What a fragment read may do to the table and the monitor's queue.       *)
ResultOf(r, m) ==
    /\ r.tx = m.tx /\ r \in Answer /\ m.tx \in pending /\ m.kind # "ind"
    /\ r.ok => m.part = m.of /\ Whole(r.ids) /\ r.ids[1].id = m.tx
BeginningOf(c, m) ==
    /\ c \in Seq(Fragment) /\ Beginning(c) /\ Len(c) = m.part /\ c[1].id = m.id
    /\ m.part < m.of /\ m.kind # "open"

(* deliver gives one result of one message and takes its number out of the *)
(* table.                                                                  *)
LEMMA DeliverGives ==
    ASSUME DeviceType, NEW m \in out, m.kind # "ind", NEW ok \in BOOLEAN,
           NEW ids \in Seq(Fragment), Deliver(m.tx, ok, ids),
           ok => m.part = m.of /\ Whole(ids) /\ ids[1].id = m.tx
    PROVE  /\ box \subseteq box' /\ pending' = pending \ {m.tx}
           /\ \A r \in box' : r \in box \/ ResultOf(r, m)
           /\ m.tx \in pending => \E r \in box' : r.tx = m.tx
<1> DEFINE new == Result(m.tx, ok, ids)
<1>1. new \in Answer /\ new.tx = m.tx /\ new.ok = ok /\ new.ids = ids
  BY DEF Result, Answer, DeviceType, Fragment
<1>2. pending' = pending \ {m.tx} /\ box' = IF m.tx \in pending THEN box \cup {new} ELSE box
  BY DEF Deliver
<1> HIDE DEF new
<1>3. CASE m.tx \in pending
  <2>1. ResultOf(new, m)
    BY <1>1, <1>3 DEF ResultOf
  <2>2. QED
    BY <1>1, <1>2, <1>3, <2>1
<1>4. CASE m.tx \notin pending
  BY <1>2, <1>4
<1>5. QED
  BY <1>3, <1>4

(* What one turn of readLoop does, whatever it has read: at most one       *)
(* result, about that message, and a collector for none but a number that  *)
(* is waited for or an indication.                                         *)
LEMMA ReadGives ==
    ASSUME DeviceInv, MbimAssumption, NEW m \in out, NEW b \in BOOLEAN, Read(m, b)
    PROVE  /\ box \subseteq box' /\ pending' \subseteq pending
           /\ \A r \in box' : r \in box \/ ResultOf(r, m)
           /\ \A t \in pending \ pending' : t = m.tx /\ \E r \in box' : r.tx = t
           /\ DOMAIN collector' \subseteq pending' \cup IndTx
           /\ collector' \in [DOMAIN collector' -> Seq(Fragment)]
           /\ IsFiniteSet(DOMAIN collector') /\ Cardinality(DOMAIN collector') <= MaxCollectors
           /\ \A t \in DOMAIN collector' :
                 \/ t # m.tx /\ t \in DOMAIN collector /\ collector'[t] = collector[t]
                 \/ t = m.tx /\ BeginningOf(collector'[t], m)
           /\ indications' \in Seq(Seq(Fragment))
           /\ \A i \in DOMAIN indications' : Whole(indications'[i])
<1>1. /\ DeviceType /\ CollectInv /\ ResultInv /\ WireInv
      /\ transport = "open" /\ m \in Fragment
      /\ indications \in Seq(Seq(Fragment)) /\ \A i \in DOMAIN indications : Whole(indications[i])
  BY DEF DeviceInv, DeviceType, ResultInv, Read
<1>2. /\ DOMAIN collector \subseteq pending \cup IndTx
      /\ collector \in [DOMAIN collector -> Seq(Fragment)]
      /\ IsFiniteSet(DOMAIN collector) /\ Cardinality(DOMAIN collector) <= MaxCollectors
  BY <1>1 DEF DeviceType, CollectInv
<1>3. /\ m.part \in 1 .. m.of /\ m.part \in Nat /\ m.of \in Nat /\ m.kind \in Kinds
      /\ m.kind = "ind" => m.tx \in IndTx
      /\ m.kind # "ind" => m.tx \in 1 .. nextTx /\ m.id = m.tx /\ m.tx \notin IndTx
      /\ m.kind = "open" => m.of = 1
  <2>1. nextTx \in 0 .. MaxTx /\ MaxTx \in Nat
    BY <1>1 DEF DeviceType, MbimAssumption
  <2>2. QED
    BY <1>1, <2>1 DEF WireInv, Fragment, MbimAssumption
<1>4. m.kind = "open" => m.tx \notin DOMAIN collector
  BY <1>1 DEF CollectInv
<1>5. CASE UNCHANGED <<collector, indications>> /\ m.tx \notin DOMAIN collector
           /\ m.kind # "ind" /\ \E ok \in BOOLEAN, ids \in Seq(Fragment) :
                /\ Deliver(m.tx, ok, ids)
                /\ ok => m.part = m.of /\ Whole(ids) /\ ids[1].id = m.tx
  <2>1. /\ box \subseteq box' /\ pending' = pending \ {m.tx}
        /\ \A r \in box' : r \in box \/ ResultOf(r, m)
        /\ m.tx \in pending => \E r \in box' : r.tx = m.tx
    BY <1>1, <1>5, DeliverGives
  <2>2. QED
    BY <1>1, <1>2, <1>5, <2>1
<1>6. CASE UNCHANGED <<collector, indications, pending, box>> /\ m.tx \notin DOMAIN collector
  BY <1>1, <1>2, <1>6
<1>7. ASSUME m.kind # "open", NEW cs \in Collectors(m),
             LET c == Append(cs[m.tx], m)
                 ok == ~b /\ Expected(cs[m.tx], m)
                 rest == [x \in DOMAIN cs \ {m.tx} |-> cs[x]] IN
             /\ collector' = IF ok /\ m.part < m.of THEN [cs EXCEPT ![m.tx] = c] ELSE rest
             /\ IF m.kind = "done" /\ (~ok \/ m.part = m.of) THEN Deliver(m.tx, ok, c)
                ELSE UNCHANGED <<pending, box>>
             /\ indications' =
                  IF m.kind = "ind" /\ ok /\ m.part = m.of /\ Len(indications) < IndicationCap
                  THEN Append(indications, c) ELSE indications
      PROVE  /\ box \subseteq box' /\ pending' \subseteq pending
             /\ \A r \in box' : r \in box \/ ResultOf(r, m)
             /\ \A t \in pending \ pending' : t = m.tx /\ \E r \in box' : r.tx = t
             /\ DOMAIN collector' \subseteq pending' \cup IndTx
             /\ collector' \in [DOMAIN collector' -> Seq(Fragment)]
             /\ IsFiniteSet(DOMAIN collector') /\ Cardinality(DOMAIN collector') <= MaxCollectors
             /\ \A t \in DOMAIN collector' :
                   \/ t # m.tx /\ t \in DOMAIN collector /\ collector'[t] = collector[t]
                   \/ t = m.tx /\ BeginningOf(collector'[t], m)
             /\ indications' \in Seq(Seq(Fragment))
             /\ \A i \in DOMAIN indications' : Whole(indications'[i])
  <2> DEFINE c    == Append(cs[m.tx], m)
             ok   == ~b /\ Expected(cs[m.tx], m)
             rest == [x \in DOMAIN cs \ {m.tx} |-> cs[x]]
  <2>1. /\ DOMAIN cs \subseteq DOMAIN collector \cup {m.tx} /\ m.tx \in DOMAIN cs
        /\ cs \in [DOMAIN cs -> Seq(Fragment)]
        /\ \A t \in DOMAIN cs \cap DOMAIN collector : cs[t] = collector[t]
        /\ m.tx \notin DOMAIN collector => cs[m.tx] = <<>>
        /\ m.kind = "done" => m.tx \in pending \cup DOMAIN collector
        /\ IsFiniteSet(DOMAIN cs) /\ Cardinality(DOMAIN cs) <= MaxCollectors
    BY <1>1, <1>7, CollectorsFound
  <2>2. cs[m.tx] \in Seq(Fragment)
    BY <2>1
  <2>3. cs[m.tx] # <<>> => Beginning(cs[m.tx]) /\ m.id = cs[m.tx][1].id
    BY <1>1, <2>1 DEF CollectInv
  <2>4. c \in Seq(Fragment) /\ ok \in BOOLEAN
    BY <1>1, <2>2, AppendProperties
  <2>5. ok => /\ Beginning(c) /\ Len(c) = m.part /\ c[1].id = m.id
              /\ m.part = m.of => Whole(c)
    BY <1>1, <2>2, <2>3, Continues
  <2>6. /\ collector' = IF ok /\ m.part < m.of THEN [cs EXCEPT ![m.tx] = c] ELSE rest
        /\ IF m.kind = "done" /\ (~ok \/ m.part = m.of) THEN Deliver(m.tx, ok, c)
           ELSE UNCHANGED <<pending, box>>
        /\ indications' =
             IF m.kind = "ind" /\ ok /\ m.part = m.of /\ Len(indications) < IndicationCap
             THEN Append(indications, c) ELSE indications
    BY <1>7, Zenon
  <2> HIDE DEF c, ok
  <2>7. /\ box \subseteq box' /\ pending' \subseteq pending
        /\ \A r \in box' : r \in box \/ ResultOf(r, m)
        /\ \A t \in pending \ pending' : t = m.tx /\ \E r \in box' : r.tx = t
    <3>1. CASE m.kind = "done" /\ (~ok \/ m.part = m.of)
      <4>1. Deliver(m.tx, ok, c) /\ m.kind # "ind" /\ m.id = m.tx
        BY <1>3, <2>6, <3>1
      <4>2. ok => m.part = m.of /\ Whole(c) /\ c[1].id = m.tx
        BY <2>5, <3>1, <4>1
      <4>3. QED
        BY <1>1, <2>4, <4>1, <4>2, DeliverGives
    <3>2. CASE ~(m.kind = "done" /\ (~ok \/ m.part = m.of))
      BY <2>6, <3>2
    <3>3. QED
      BY <3>1, <3>2
  <2>8. CASE ok /\ m.part < m.of
    <3>1. /\ DOMAIN collector' = DOMAIN cs /\ collector'[m.tx] = c
          /\ \A t \in DOMAIN cs : t # m.tx => collector'[t] = cs[t]
          /\ collector' \in [DOMAIN cs -> Seq(Fragment)]
      BY <2>1, <2>4, <2>6, <2>8
    <3>2. pending' = pending /\ indications' = indications
      <4>1. ok /\ m.part # m.of
        BY <1>3, <2>8
      <4>2. QED
        BY <2>6, <4>1, Zenon
    <3>3. BeginningOf(c, m)
      BY <1>7, <2>4, <2>5, <2>8 DEF BeginningOf
    <3>4. m.tx \in pending \cup IndTx
      BY <1>2, <1>3, <1>7, <2>1 DEF Kinds
    <3>5. QED
      BY <1>1, <1>2, <2>1, <2>7, <3>1, <3>2, <3>3, <3>4
  <2>9. CASE ~(ok /\ m.part < m.of)
    <3>1. collector' = rest
      BY <2>6, <2>9
    <3>2. /\ DOMAIN collector' = DOMAIN cs \ {m.tx}
          /\ \A t \in DOMAIN cs \ {m.tx} : collector'[t] = cs[t]
          /\ collector' \in [DOMAIN collector' -> Seq(Fragment)]
      BY <2>1, <3>1
    <3>3. IsFiniteSet(DOMAIN collector') /\ Cardinality(DOMAIN collector') <= MaxCollectors
      <4>1. Cardinality(DOMAIN cs) \in Nat /\ Cardinality(DOMAIN cs \ {m.tx}) \in Nat
            /\ Cardinality(DOMAIN cs \ {m.tx}) <= Cardinality(DOMAIN cs)
            /\ IsFiniteSet(DOMAIN cs \ {m.tx})
        BY <2>1, FS_Subset, FS_CardinalityType
      <4>2. QED
        BY <2>1, <3>2, <4>1 DEF MbimAssumption
    <3>4. indications' \in Seq(Seq(Fragment)) /\ \A i \in DOMAIN indications' : Whole(indications'[i])
      <4>1. CASE indications' = indications
        BY <1>1, <4>1
      <4>2. CASE ok /\ m.part = m.of /\ indications' = Append(indications, c)
        <5>1. /\ indications' \in Seq(Seq(Fragment)) /\ Len(indications') = Len(indications) + 1
              /\ indications'[Len(indications) + 1] = c
              /\ \A i \in 1 .. Len(indications) : indications'[i] = indications[i]
          BY <1>1, <2>4, <4>2, AppendProperties
        <5>2. Len(indications) \in Nat /\ DOMAIN indications = 1 .. Len(indications)
              /\ DOMAIN indications' = 1 .. Len(indications')
          BY <1>1, <5>1
        <5>3. \A i \in DOMAIN indications' : i \in DOMAIN indications \/ i = Len(indications) + 1
          BY <5>1, <5>2
        <5>4. Whole(c)
          BY <2>5, <4>2
        <5>5. QED
          BY <1>1, <5>1, <5>2, <5>3, <5>4
      <4>3. QED
        BY <2>6, <4>1, <4>2
    <3>5. DOMAIN collector' \subseteq pending' \cup IndTx
      BY <1>2, <2>1, <2>7, <3>2
    <3>6. QED
      BY <2>1, <2>7, <3>2, <3>3, <3>4, <3>5
  <2>10. QED
    BY <2>8, <2>9
<1>8. /\ \/ /\ m.kind = "open"
            /\ Deliver(m.tx, ~b, <<m>>)
            /\ UNCHANGED <<collector, indications>>
         \/ /\ m.kind # "open" /\ Collectors(m) = {}
            /\ IF m.kind = "done" THEN Deliver(m.tx, FALSE, <<>>) ELSE UNCHANGED <<pending, box>>
            /\ UNCHANGED <<collector, indications>>
         \/ /\ m.kind # "open" /\ \E cs \in Collectors(m) :
             LET c == Append(cs[m.tx], m)
                 ok == ~b /\ Expected(cs[m.tx], m)
                 rest == [x \in DOMAIN cs \ {m.tx} |-> cs[x]] IN
             /\ collector' = IF ok /\ m.part < m.of THEN [cs EXCEPT ![m.tx] = c] ELSE rest
             /\ IF m.kind = "done" /\ (~ok \/ m.part = m.of) THEN Deliver(m.tx, ok, c)
                ELSE UNCHANGED <<pending, box>>
             /\ indications' =
                  IF m.kind = "ind" /\ ok /\ m.part = m.of /\ Len(indications) < IndicationCap
                  THEN Append(indications, c) ELSE indications
  BY DEF Read
<1>9. CASE m.kind = "open" /\ Deliver(m.tx, ~b, <<m>>) /\ UNCHANGED <<collector, indications>>
  <2>1. /\ <<m>> \in Seq(Fragment) /\ m.part = 1 /\ m.of = 1 /\ m.id = m.tx
        /\ <<m>>[1] = m /\ Len(<<m>>) = 1 /\ DOMAIN <<m>> = {1}
    BY <1>1, <1>3, <1>9
  <2>2. Whole(<<m>>) /\ <<m>>[1].id = m.tx
    BY <2>1 DEF Whole
  <2>3. QED
    BY <1>4, <1>5, <1>9, <2>1, <2>2
<1>10. CASE m.kind # "open" /\ Collectors(m) = {}
            /\ (IF m.kind = "done" THEN Deliver(m.tx, FALSE, <<>>) ELSE UNCHANGED <<pending, box>>)
            /\ UNCHANGED <<collector, indications>>
  <2>1. m.tx \notin DOMAIN collector
    BY <1>10 DEF Collectors
  <2>2. <<>> \in Seq(Fragment)
    OBVIOUS
  <2>3. QED
    BY <1>5, <1>6, <1>10, <2>1, <2>2
<1>11. QED
  BY <1>7, <1>8, <1>9, <1>10, Zenon

-----------------------------------------------------------------------------

(* A fragment read leaves the callers, and the module's other messages.    *)
LEMMA ReadLeaves ==
    ASSUME DeviceInv, NEW m \in out, NEW b \in BOOLEAN, Read(m, b)
    PROVE  /\ UNCHANGED <<reader, transport, nextTx, mpc, tx, stage, opened, client, served, clients, lost>>
           /\ transport = "open" /\ inds' \in Nat
           /\ out' \subseteq Fragment
           /\ \A l \in out' : \/ l \in out /\ l # m
                              \/ /\ l.tx = m.tx /\ l.id = m.id /\ l.kind = m.kind /\ l.of = m.of
                                 /\ l.part = m.part + 1 /\ m.part < m.of
           /\ \A l \in out : l # m => l \in out'
           /\ m.part < m.of => \E l \in out' : l.tx = m.tx
<1>1. m \in Fragment /\ out \subseteq Fragment /\ inds \in Nat
  BY DEF DeviceInv, DeviceType
<1>2. /\ UNCHANGED <<reader, transport, nextTx, mpc, tx, stage, opened, client, served, clients, lost>>
      /\ transport = "open"
      /\ out' = (out \ {m}) \cup (IF m.part < m.of THEN {[m EXCEPT !.part = @ + 1]} ELSE {})
      /\ inds' \in {inds, inds + 1}
  BY DEF Read, calls
<1> DEFINE l == [m EXCEPT !.part = @ + 1]
<1>3. /\ l \in Fragment /\ l.tx = m.tx /\ l.id = m.id /\ l.kind = m.kind /\ l.of = m.of
      /\ l.part = m.part + 1
  BY <1>1 DEF Fragment
<1> HIDE DEF l
<1>4. out' = (out \ {m}) \cup (IF m.part < m.of THEN {l} ELSE {})
  BY <1>2 DEF l
<1>5. QED
  BY <1>1, <1>2, <1>3, <1>4

(* How an operation ends with an error.                                    *)
LEMMA FailedGives ==
    ASSUME DeviceType, CallInv, NEW p \in Caller, Failed(p), mpc[p] \in {"writing", "wait"}
    PROVE  /\ mpc' = [mpc EXCEPT ![p] = IF stage[p] = "use" THEN "next" ELSE "idle"]
           /\ tx' = [tx EXCEPT ![p] = 0]
           /\ stage' = [stage EXCEPT ![p] = IF stage[p] = "use" THEN "use" ELSE "none"]
           /\ client' = [client EXCEPT ![p] = IF stage[p] = "use" THEN client[p] ELSE 0]
           /\ lost \subseteq lost'
           /\ transport = "open" /\ stage[p] = "alloc" => tx[p] \in lost'
           /\ transport = "open" /\ stage[p] = "release" => client[p] \in lost'
           /\ client[p] # 0 => stage[p] \in {"use", "release"}
<1>1. DOMAIN mpc = Caller /\ DOMAIN stage = Caller /\ DOMAIN client = Caller
  BY DEF DeviceType
<1>2. /\ mpc' = [mpc EXCEPT ![p] = IF stage[p] = "use" THEN "next" ELSE "idle"]
      /\ tx' = [tx EXCEPT ![p] = 0]
      /\ stage' = [stage EXCEPT ![p] = IF mpc'[p] = "idle" THEN "none" ELSE stage[p]]
      /\ client' = [client EXCEPT ![p] = IF stage[p] = "use" THEN client[p] ELSE 0]
      /\ lost' = lost \cup (CASE transport # "open" -> {}
                              [] stage[p] = "alloc" -> {tx[p]}
                              [] stage[p] = "release" -> {client[p]}
                              [] OTHER -> {})
  BY DEF Failed, Settle
<1>3. mpc'[p] = IF stage[p] = "use" THEN "next" ELSE "idle"
  BY <1>1, <1>2
<1>4. stage' = [stage EXCEPT ![p] = IF stage[p] = "use" THEN "use" ELSE "none"]
  <2>1. (IF mpc'[p] = "idle" THEN "none" ELSE stage[p]) = IF stage[p] = "use" THEN "use" ELSE "none"
    BY <1>3
  <2>2. QED
    BY <1>2, <2>1
<1>5. client[p] # 0 => stage[p] \in {"use", "release"}
  BY DEF CallInv
<1>6. QED
  BY <1>2, <1>4, <1>5

(* What a caller whose answer was no error goes on with.                   *)
LEMMA AnsweredGives ==
    ASSUME DeviceType, NEW p \in Caller, Receive(p)
    PROVE  \E r \in box :
             /\ r.tx = tx[p] /\ box' = box \ {r} /\ mpc[p] = "wait"
             /\ \/ /\ r.ok
                   /\ mpc' = [mpc EXCEPT ![p] =
                         IF stage[p] \in {"config", "alloc", "use"} THEN "next" ELSE "idle"]
                   /\ tx' = [tx EXCEPT ![p] = 0]
                   /\ stage' = [stage EXCEPT ![p] =
                         IF stage[p] \in {"config", "alloc", "use"} THEN stage[p] ELSE "none"]
                   /\ client' = [client EXCEPT ![p] = CASE stage[p] = "alloc" -> tx[p]
                                                        [] stage[p] = "use" -> client[p]
                                                        [] OTHER -> 0]
                   /\ lost' = lost
                \/ ~r.ok /\ Failed(p)
<1>1. DOMAIN mpc = Caller
  BY DEF DeviceType
<1>2. PICK r \in box :
         /\ r.tx = tx[p] /\ box' = box \ {r} /\ mpc[p] = "wait"
         /\ IF r.ok THEN
              /\ mpc' = [mpc EXCEPT ![p] = IF stage[p] \in {"config", "alloc", "use"} THEN "next" ELSE "idle"]
              /\ client' = [client EXCEPT ![p] = CASE stage[p] = "alloc" -> tx[p]
                                                   [] stage[p] = "use" -> @ [] OTHER -> 0]
              /\ Settle(p)
              /\ UNCHANGED lost
            ELSE Failed(p)
  BY DEF Receive
<1>3. CASE r.ok
  <2>1. /\ mpc' = [mpc EXCEPT ![p] = IF stage[p] \in {"config", "alloc", "use"} THEN "next" ELSE "idle"]
        /\ tx' = [tx EXCEPT ![p] = 0] /\ lost' = lost
        /\ stage' = [stage EXCEPT ![p] = IF mpc'[p] = "idle" THEN "none" ELSE stage[p]]
        /\ client' = [client EXCEPT ![p] = CASE stage[p] = "alloc" -> tx[p]
                                             [] stage[p] = "use" -> client[p]
                                             [] OTHER -> 0]
    BY <1>2, <1>3 DEF Settle
  <2>2. mpc'[p] = IF stage[p] \in {"config", "alloc", "use"} THEN "next" ELSE "idle"
    BY <1>1, <2>1
  <2>3. stage' = [stage EXCEPT ![p] =
                    IF stage[p] \in {"config", "alloc", "use"} THEN stage[p] ELSE "none"]
    <3>1. (IF mpc'[p] = "idle" THEN "none" ELSE stage[p])
            = IF stage[p] \in {"config", "alloc", "use"} THEN stage[p] ELSE "none"
      BY <2>2
    <3>2. QED
      BY <2>1, <3>1
  <2>4. QED
    BY <1>2, <1>3, <2>1, <2>3
<1>4. CASE ~r.ok
  BY <1>2, <1>4
<1>5. QED
  BY <1>3, <1>4

(* A caller registers a transaction.                                       *)
Registers(p) ==
    \/ \E s \in {"config", "open", "plain", "alloc"} : Begin(p, s)
    \/ \E s \in {"open", "use", "release"} : GoOn(p, s)

(* Registering takes a number nobody has had and puts it in the table.     *)
LEMMA RegisterGives ==
    ASSUME DeviceType, CallInv, MbimAssumption, NEW p \in Caller, Registers(p)
    PROVE  /\ nextTx' = nextTx + 1 /\ nextTx' \in 1 .. MaxTx
           /\ pending' = pending \cup {nextTx'}
           /\ tx' = [tx EXCEPT ![p] = nextTx'] /\ mpc' = [mpc EXCEPT ![p] = "write"]
           /\ mpc[p] \notin Active
           /\ \E s \in Stages : /\ stage' = [stage EXCEPT ![p] = s]
                                /\ client[p] # 0 => s \in {"use", "release"}
           /\ UNCHANGED <<reader, transport, collector, box, client, served, out, clients, lost, indications, inds>>
<1>1. PICK s \in Stages :
         /\ Register(p, s)
         /\ UNCHANGED <<reader, transport, collector, box, client, modem, monitor>>
         /\ \/ mpc[p] = "idle"
            \/ /\ mpc[p] = "next"
               /\ s = CASE stage[p] = "config" -> "open" [] stage[p] = "alloc" -> "use"
                        [] OTHER -> "release"
  BY DEF Registers, Begin, GoOn, Stages
<1>2. client[p] # 0 => s \in {"use", "release"}
  <2>1. CASE mpc[p] = "idle"
    BY <2>1 DEF CallInv
  <2>2. CASE mpc[p] = "next"
    BY <1>1, <2>2 DEF CallInv
  <2>3. QED
    BY <1>1, <2>1, <2>2
<1>3. nextTx \in Nat /\ nextTx < MaxTx /\ nextTx' = nextTx + 1
  BY <1>1 DEF DeviceType, Register
<1>4. nextTx' \in 1 .. MaxTx
  BY <1>3, MbimAssumption
<1>5. mpc[p] \notin Active
  BY <1>1 DEF Active
<1>6. /\ pending' = pending \cup {nextTx'}
      /\ tx' = [tx EXCEPT ![p] = nextTx'] /\ mpc' = [mpc EXCEPT ![p] = "write"]
      /\ stage' = [stage EXCEPT ![p] = s]
  BY <1>1 DEF Register
<1>7. UNCHANGED <<reader, transport, collector, box, client, served, out, clients, lost, indications, inds>>
  BY <1>1 DEF modem, monitor
<1>8. QED
  BY <1>2, <1>3, <1>4, <1>5, <1>6, <1>7

(* What the steps below keep needing of the types.                         *)
LEMMA DeviceFacts ==
    ASSUME DeviceType
    PROVE  /\ nextTx \in Nat /\ pending \subseteq 1 .. nextTx
           /\ DOMAIN mpc = Caller /\ DOMAIN tx = Caller /\ DOMAIN client = Caller
           /\ \A q \in Caller : tx[q] \in Nat /\ client[q] \in Nat
           /\ \A r \in box : r.tx \in Nat
           /\ \A c \in served : c.tx \in Nat
           /\ \A m \in out : m.tx \in Nat /\ m.part \in Nat /\ m.of \in Nat
<1>1. \A m \in Fragment : m.tx \in Nat /\ m.part \in Nat /\ m.of \in Nat
  BY DEF Fragment
<1>2. (\A r \in Answer : r.tx \in Nat) /\ (\A c \in Command : c.tx \in Nat)
  BY DEF Answer, Command
<1>3. QED
  BY <1>1, <1>2 DEF DeviceType

(* Every way a step can change what the invariants are about.              *)
LEMMA DeviceCases ==
    ASSUME [Next]_vars
    PROVE  \/ \E p \in Caller : \/ Registers(p) \/ Write(p) \/ Written(p) \/ WriteFails(p)
                                \/ ContextEnds(p) \/ Receive(p)
           \/ \E c \in served : Serve(c)
           \/ \E t \in IndTx : Indicate(t)
           \/ \E m \in out, b \in BOOLEAN : Read(m, b)
           \/ CloseTransport \/ Break \/ ReaderEnds \/ Apply
           \/ UNCHANGED <<reader, transport, table, calls, modem, monitor>>
BY DEF Next, vars, Registers, Close

(* Every step keeps the types.                                             *)
LEMMA DeviceTypeStep ==
    ASSUME DeviceInv, MbimAssumption, [Next]_vars
    PROVE  DeviceType'
<1>1. DeviceType /\ CallInv /\ nextTx \in Nat /\ MaxTx \in Nat /\ DOMAIN mpc = Caller
  BY DEF DeviceInv, DeviceType, MbimAssumption
<1> USE <1>1
<1>2. CASE UNCHANGED <<reader, transport, table, calls, modem, monitor>>
  BY <1>2 DEF DeviceType, table, calls, modem, monitor
<1>3. ASSUME NEW p \in Caller, Registers(p)
      PROVE  DeviceType'
  <2>1. /\ nextTx' = nextTx + 1 /\ nextTx' \in 1 .. MaxTx
        /\ pending' = pending \cup {nextTx'}
        /\ tx' = [tx EXCEPT ![p] = nextTx'] /\ mpc' = [mpc EXCEPT ![p] = "write"]
        /\ \E s \in Stages : stage' = [stage EXCEPT ![p] = s]
        /\ UNCHANGED <<transport, collector, box, client, served, out, indications, inds>>
    BY <1>3, RegisterGives
  <2>2. /\ nextTx' \in 0 .. MaxTx /\ pending' \subseteq 1 .. nextTx' /\ nextTx' \in Nat
    BY <2>1 DEF DeviceType
  <2>3. "write" \in Active \cup {"idle", "next"}
    BY DEF Active
  <2>4. mpc' \in [Caller -> Active \cup {"idle", "next"}]
    BY <2>1, <2>3 DEF DeviceType
  <2>5. stage' \in [Caller -> Stages] /\ tx' \in [Caller -> Nat]
    BY <2>1, <2>2 DEF DeviceType
  <2>6. QED
    BY <2>1, <2>2, <2>4, <2>5 DEF DeviceType
<1>4. ASSUME NEW p \in Caller, Write(p)
      PROVE  DeviceType'
  BY <1>4 DEF DeviceType, Write, Active, table, modem, monitor
<1>5. ASSUME NEW p \in Caller, Written(p)
      PROVE  DeviceType'
  <2>1. [tx |-> tx[p], stage |-> stage[p], client |-> client[p]] \in Command
    BY DEF DeviceType, Command
  <2>2. served' \subseteq Command
    BY <1>5, <2>1 DEF Written, DeviceType
  <2>3. QED
    BY <1>5, <2>2 DEF DeviceType, Written, Active, table, monitor
<1>6. ASSUME NEW p \in Caller, Failed(p), mpc[p] \in {"writing", "wait"}
      PROVE  /\ mpc' \in [Caller -> Active \cup {"idle", "next"}]
             /\ stage' \in [Caller -> Stages] /\ tx' \in [Caller -> Nat] /\ client' \in [Caller -> Nat]
  <2>1. "idle" \in Active \cup {"idle", "next"} /\ "next" \in Active \cup {"idle", "next"}
        /\ "use" \in Stages /\ "none" \in Stages
    BY DEF Stages
  <2>2. /\ mpc' = [mpc EXCEPT ![p] = IF stage[p] = "use" THEN "next" ELSE "idle"]
        /\ tx' = [tx EXCEPT ![p] = 0]
        /\ stage' = [stage EXCEPT ![p] = IF stage[p] = "use" THEN "use" ELSE "none"]
        /\ client' = [client EXCEPT ![p] = IF stage[p] = "use" THEN client[p] ELSE 0]
    BY <1>6, FailedGives
  <2>3. QED
    BY <2>1, <2>2 DEF DeviceType
<1>7. ASSUME NEW p \in Caller, WriteFails(p)
      PROVE  DeviceType'
  BY <1>6, <1>7 DEF DeviceType, WriteFails, TransportFails
<1>8. ASSUME NEW p \in Caller, ContextEnds(p)
      PROVE  DeviceType'
  <2>1. collector' \in [DOMAIN collector' -> Seq(Fragment)]
    BY <1>8 DEF ContextEnds, Forget, DeviceType
  <2>2. QED
    BY <1>6, <1>8, <2>1 DEF DeviceType, ContextEnds, monitor
<1>9. ASSUME NEW p \in Caller, Receive(p)
      PROVE  DeviceType'
  <2>1. UNCHANGED <<transport, nextTx, pending, collector, served, out, indications, inds>>
    BY <1>9 DEF Receive, monitor
  <2>2. /\ box' \subseteq Answer
        /\ mpc' \in [Caller -> Active \cup {"idle", "next"}]
        /\ stage' \in [Caller -> Stages] /\ tx' \in [Caller -> Nat] /\ client' \in [Caller -> Nat]
    <3>1. PICK r \in box :
             /\ box' = box \ {r} /\ mpc[p] = "wait"
             /\ \/ /\ mpc' = [mpc EXCEPT ![p] =
                         IF stage[p] \in {"config", "alloc", "use"} THEN "next" ELSE "idle"]
                   /\ tx' = [tx EXCEPT ![p] = 0]
                   /\ stage' = [stage EXCEPT ![p] =
                         IF stage[p] \in {"config", "alloc", "use"} THEN stage[p] ELSE "none"]
                   /\ client' = [client EXCEPT ![p] = CASE stage[p] = "alloc" -> tx[p]
                                                        [] stage[p] = "use" -> client[p]
                                                        [] OTHER -> 0]
                \/ Failed(p)
      BY <1>9, AnsweredGives
    <3>2. CASE Failed(p)
      BY <1>6, <3>1, <3>2 DEF DeviceType
    <3>3. CASE ~Failed(p)
      <4>1. "idle" \in Active \cup {"idle", "next"} /\ "next" \in Active \cup {"idle", "next"}
            /\ "none" \in Stages
        BY DEF Stages
      <4>2. tx[p] \in Nat /\ client[p] \in Nat /\ stage[p] \in Stages
        BY DEF DeviceType
      <4>3. (CASE stage[p] = "alloc" -> tx[p] [] stage[p] = "use" -> client[p] [] OTHER -> 0) \in Nat
        BY <4>2
      <4>4. client' \in [Caller -> Nat]
        BY <3>1, <3>3, <4>3 DEF DeviceType
      <4>5. mpc' \in [Caller -> Active \cup {"idle", "next"}]
        BY <3>1, <3>3, <4>1 DEF DeviceType
      <4>6. stage' \in [Caller -> Stages] /\ tx' \in [Caller -> Nat]
        <5>1. tx' = [tx EXCEPT ![p] = 0]
          BY <3>1, <3>3
        <5>2. stage' = [stage EXCEPT ![p] = stage[p]] \/ stage' = [stage EXCEPT ![p] = "none"]
          BY <3>1, <3>3
        <5>3. QED
          BY <4>1, <4>2, <5>1, <5>2 DEF DeviceType
      <4>7. QED
        BY <3>1, <4>4, <4>5, <4>6 DEF DeviceType
    <3>4. QED
      BY <3>2, <3>3
  <2>3. QED
    BY <2>1, <2>2 DEF DeviceType
<1>10. ASSUME NEW c \in served, Serve(c)
       PROVE  DeviceType'
  <2>1. \A n1 \in {1, 2}, k \in {"open", "done"} : Begun(c.tx, c.tx, k, n1) \in Fragment
    BY DEF Begun, Fragment, Kinds, Command, DeviceType
  <2>2. out' \subseteq Fragment /\ served' \subseteq Command
    BY <1>10, <2>1 DEF Serve, DeviceType
  <2>3. QED
    BY <1>10, <2>2 DEF DeviceType, Serve, table, calls, monitor
<1>11. ASSUME NEW t \in IndTx, Indicate(t)
       PROVE  DeviceType'
  <2>1. inds' \in Nat /\ t \in Nat /\ MaxTx + inds' \in Nat
    BY <1>11, MbimAssumption DEF Indicate, DeviceType
  <2>2. \A x \in Nat, n1 \in {1, 2} : Begun(t, x, "ind", n1) \in Fragment
    BY <2>1 DEF Begun, Fragment, Kinds
  <2>3. out' \subseteq Fragment
    <3>1. PICK n1 \in {1, 2} : out' = out \cup {Begun(t, MaxTx + inds', "ind", n1)}
      BY <1>11 DEF Indicate
    <3>2. Begun(t, MaxTx + inds', "ind", n1) \in Fragment
      BY <2>1, <2>2
    <3>3. QED
      BY <3>1, <3>2 DEF DeviceType
  <2>4. QED
    BY <1>11, <2>1, <2>3 DEF DeviceType, Indicate, table, calls
<1>12. ASSUME NEW m \in out, NEW b \in BOOLEAN, Read(m, b)
       PROVE  DeviceType'
  <2>1. /\ box' \subseteq Answer /\ pending' \subseteq pending
        /\ collector' \in [DOMAIN collector' -> Seq(Fragment)]
        /\ indications' \in Seq(Seq(Fragment))
    BY <1>12, ReadGives DEF ResultOf, DeviceType
  <2>2. UNCHANGED <<transport, nextTx, mpc, tx, stage, client, served>>
        /\ inds' \in Nat /\ out' \subseteq Fragment
    BY <1>12, ReadLeaves
  <2>3. QED
    BY <2>1, <2>2 DEF DeviceType
<1>13. CASE CloseTransport \/ Break
  BY <1>13 DEF DeviceType, CloseTransport, Break, table, calls, monitor
<1>14. CASE ReaderEnds
  <2>1. \A t \in pending : Result(t, FALSE, <<>>) \in Answer
    BY DEF Result, Answer, DeviceType
  <2>2. box' \subseteq Answer /\ collector' \in [DOMAIN collector' -> Seq(Fragment)]
    <3>1. collector' = <<>> /\ DOMAIN collector' = {}
      BY <1>14 DEF ReaderEnds
    <3>2. collector' \in [{} -> Seq(Fragment)]
      BY <3>1
    <3>3. box' = box \cup {Result(t, FALSE, <<>>) : t \in pending}
      BY <1>14 DEF ReaderEnds
    <3>4. QED
      BY <2>1, <3>1, <3>2, <3>3 DEF DeviceType
  <2>3. QED
    <3>1. inds' \in Nat /\ pending' = {} /\ UNCHANGED <<nextTx, transport, indications, calls, modem>>
      BY <1>14 DEF DeviceType, ReaderEnds, TransportFails
    <3>2. QED
      BY <2>2, <3>1 DEF DeviceType, calls, modem
<1>15. CASE Apply
  BY <1>15 DEF DeviceType, Apply, table, calls, modem
<1>16. QED
  BY DeviceCases, <1>2, <1>3, <1>4, <1>5, <1>7, <1>8, <1>9, <1>10, <1>11, <1>12, <1>13, <1>14, <1>15

(* Every step keeps who owns which transaction.                            *)
LEMMA CallStep ==
    ASSUME DeviceInv, MbimAssumption, [Next]_vars
    PROVE  CallInv'
<1>1. /\ DeviceType /\ CallInv /\ WireInv /\ nextTx \in Nat /\ pending \subseteq 1 .. nextTx
      /\ DOMAIN mpc = Caller /\ DOMAIN tx = Caller /\ DOMAIN client = Caller /\ DOMAIN stage = Caller
      /\ stage \in [Caller -> Stages]
      /\ \A q \in Caller : tx[q] \in Nat /\ client[q] \in Nat
      /\ \A r \in box : r.tx \in Nat
  BY DEF DeviceInv, DeviceType, Answer
<1>2. CASE UNCHANGED <<nextTx, pending, box, mpc, tx, stage, client>>
  BY <1>1, <1>2 DEF CallInv
<1>3. ASSUME NEW p \in Caller, Registers(p)
      PROVE  CallInv'
  BY <1>1, <1>3, RegisterGives DEF CallInv, Registers, Active
<1>4. ASSUME NEW p \in Caller, mpc[p] \in Active,
             mpc' = [mpc EXCEPT ![p] = "wait"] \/ mpc' = [mpc EXCEPT ![p] = "writing"],
             UNCHANGED <<nextTx, pending, box, tx, stage, client>>
      PROVE  CallInv'
  BY <1>1, <1>4 DEF CallInv, Active
<1>5. ASSUME NEW p \in Caller, tx[p] # 0, nextTx' = nextTx,
             tx' = [tx EXCEPT ![p] = 0],
             \/ mpc' = [mpc EXCEPT ![p] = "idle"] /\ stage' = [stage EXCEPT ![p] = "none"]
             \/ mpc' = [mpc EXCEPT ![p] = "next"] /\ stage' = stage,
             \/ client'[p] = 0
             \/ client'[p] = client[p] /\ stage[p] = "use" /\ mpc'[p] = "next"
             \/ client'[p] = tx[p] /\ stage[p] = "alloc" /\ mpc'[p] = "next",
             client' = [client EXCEPT ![p] = client'[p]],
             \A t \in pending \ pending' : t = tx[p],
             \A r \in box \ box' : r.tx = tx[p]
      PROVE  CallInv'
  <2>1. /\ \A q \in Caller : q # p => /\ mpc'[q] = mpc[q] /\ tx'[q] = tx[q]
                                      /\ stage'[q] = stage[q] /\ client'[q] = client[q]
        /\ tx'[p] = 0 /\ mpc'[p] \in {"idle", "next"}
        /\ mpc'[p] = "idle" => stage'[p] = "none" /\ client'[p] = 0
        /\ mpc'[p] = "next" => stage'[p] = stage[p]
    BY <1>1, <1>5
  <2>2. \A q \in Caller : tx'[q] <= nextTx' /\ client'[q] <= nextTx'
    BY <1>1, <1>5, <2>1 DEF CallInv
  <2>3. \A q \in Caller : tx'[q] # 0 <=> mpc'[q] \in Active
    BY <1>1, <2>1 DEF CallInv, Active
  <2>4. \A q \in Caller : mpc'[q] = "idle" => stage'[q] = "none"
    BY <1>1, <2>1 DEF CallInv
  <2>5. \A q, z \in Caller : q # z /\ tx'[q] # 0 => tx'[q] # tx'[z]
    BY <1>1, <2>1 DEF CallInv
  <2>6. \A q, z \in Caller : client'[q] # 0 => client'[q] # tx'[z]
    BY <1>1, <1>5, <2>1 DEF CallInv
  <2>7. \A q \in Caller : client'[q] # 0 =>
          stage'[q] \in {"use", "release"} \/ (stage'[q] = "alloc" /\ mpc'[q] = "next")
    BY <1>1, <1>5, <2>1 DEF CallInv
  <2>8. \A q \in Caller : mpc'[q] \in Active /\ tx'[q] \notin pending' =>
          \E r \in box' : r.tx = tx'[q]
    <3>1. SUFFICES ASSUME NEW q \in Caller, q # p, mpc[q] \in Active, tx[q] \notin pending'
                   PROVE  \E r \in box' : r.tx = tx[q]
      BY <2>1 DEF Active
    <3>2. tx[q] # tx[p]
      BY <1>1, <1>5, <3>1 DEF CallInv
    <3>3. PICK r \in box : r.tx = tx[q]
      BY <1>1, <1>5, <3>1, <3>2 DEF CallInv
    <3>4. QED
      BY <1>5, <3>2, <3>3
  <2>9. QED
    BY <2>2, <2>3, <2>4, <2>5, <2>6, <2>7, <2>8 DEF CallInv
<1>6. ASSUME NEW p \in Caller, Failed(p), mpc[p] \in {"writing", "wait"}, nextTx' = nextTx,
             \A t \in pending \ pending' : t = tx[p],
             \A r \in box \ box' : r.tx = tx[p]
      PROVE  CallInv'
  <2>1. tx[p] # 0
    BY <1>1, <1>6 DEF CallInv, Active
  <2>2. /\ mpc' = [mpc EXCEPT ![p] = IF stage[p] = "use" THEN "next" ELSE "idle"]
        /\ tx' = [tx EXCEPT ![p] = 0]
        /\ stage' = [stage EXCEPT ![p] = IF stage[p] = "use" THEN "use" ELSE "none"]
        /\ client' = [client EXCEPT ![p] = IF stage[p] = "use" THEN client[p] ELSE 0]
    BY <1>1, <1>6, FailedGives
  <2>3. CASE stage[p] = "use"
    <3>1. mpc' = [mpc EXCEPT ![p] = "next"] /\ stage' = stage /\ mpc'[p] = "next"
      BY <1>1, <2>2, <2>3
    <3>2. client'[p] = client[p] /\ client' = [client EXCEPT ![p] = client'[p]]
      BY <1>1, <2>2, <2>3
    <3>3. QED
      BY <1>5, <1>6, <2>1, <2>2, <2>3, <3>1, <3>2
  <2>4. CASE stage[p] # "use"
    <3>1. mpc' = [mpc EXCEPT ![p] = "idle"] /\ stage' = [stage EXCEPT ![p] = "none"]
      BY <2>2, <2>4
    <3>2. client'[p] = 0 /\ client' = [client EXCEPT ![p] = client'[p]]
      BY <1>1, <2>2, <2>4
    <3>3. QED
      BY <1>5, <1>6, <2>1, <2>2, <3>1, <3>2
  <2>5. QED
    BY <2>3, <2>4
<1>7. ASSUME NEW p \in Caller, WriteFails(p)
      PROVE  CallInv'
  BY <1>6, <1>7 DEF WriteFails
<1>8. ASSUME NEW p \in Caller, ContextEnds(p)
      PROVE  CallInv'
  BY <1>6, <1>8 DEF ContextEnds
<1>9. ASSUME NEW p \in Caller, Receive(p)
      PROVE  CallInv'
  <2>1. nextTx' = nextTx /\ pending' = pending
    BY <1>9 DEF Receive
  <2>2. PICK r \in box :
             /\ r.tx = tx[p] /\ box' = box \ {r} /\ mpc[p] = "wait"
             /\ \/ /\ r.ok
                   /\ mpc' = [mpc EXCEPT ![p] =
                         IF stage[p] \in {"config", "alloc", "use"} THEN "next" ELSE "idle"]
                   /\ tx' = [tx EXCEPT ![p] = 0]
                   /\ stage' = [stage EXCEPT ![p] =
                         IF stage[p] \in {"config", "alloc", "use"} THEN stage[p] ELSE "none"]
                   /\ client' = [client EXCEPT ![p] = CASE stage[p] = "alloc" -> tx[p]
                                                        [] stage[p] = "use" -> client[p]
                                                        [] OTHER -> 0]
                   /\ lost' = lost
                \/ ~r.ok /\ Failed(p)
    BY <1>1, <1>9, AnsweredGives
  <2>3. CASE Failed(p)
    BY <1>6, <2>1, <2>2, <2>3
  <2>4. CASE r.ok /\ stage[p] \in {"config", "alloc", "use"} /\ ~Failed(p)
    <3>1. /\ mpc' = [mpc EXCEPT ![p] = "next"] /\ stage' = stage /\ mpc'[p] = "next"
          /\ tx' = [tx EXCEPT ![p] = 0]
      BY <1>1, <2>2, <2>4
    <3>2. /\ client' = [client EXCEPT ![p] = client'[p]]
          /\ \/ client'[p] = 0
             \/ client'[p] = client[p] /\ stage[p] = "use"
             \/ client'[p] = tx[p] /\ stage[p] = "alloc"
      BY <1>1, <2>2, <2>4
    <3>3. tx[p] # 0
      BY <1>1, <2>2 DEF CallInv, Active
    <3>4. QED
      BY <1>5, <2>1, <2>2, <3>1, <3>2, <3>3
  <2>5. CASE r.ok /\ stage[p] \notin {"config", "alloc", "use"} /\ ~Failed(p)
    <3>1. /\ mpc' = [mpc EXCEPT ![p] = "idle"] /\ stage' = [stage EXCEPT ![p] = "none"]
          /\ tx' = [tx EXCEPT ![p] = 0] /\ client' = [client EXCEPT ![p] = 0]
      BY <2>2, <2>5
    <3>2. client' = [client EXCEPT ![p] = client'[p]] /\ client'[p] = 0
      BY <1>1, <3>1
    <3>3. tx[p] # 0
      BY <1>1, <2>2 DEF CallInv, Active
    <3>4. QED
      BY <1>5, <2>1, <2>2, <3>1, <3>2, <3>3
  <2>6. QED
    BY <2>2, <2>3, <2>4, <2>5
<1>10. ASSUME UNCHANGED <<nextTx, mpc, tx, stage, client>>, box \subseteq box',
              \A t \in pending \ pending' : \E r \in box' : r.tx = t
       PROVE  CallInv'
  BY <1>1, <1>10 DEF CallInv
<1>11. ASSUME NEW m \in out, NEW b \in BOOLEAN, Read(m, b)
       PROVE  CallInv'
  <2>1. UNCHANGED <<nextTx, mpc, tx, stage, client>>
    BY <1>11, ReadLeaves
  <2>2. box \subseteq box' /\ \A t \in pending \ pending' : \E r \in box' : r.tx = t
    BY <1>11, ReadGives
  <2>3. QED
    BY <1>10, <2>1, <2>2
<1>12. CASE ReaderEnds
  <2>1. ASSUME NEW t \in pending
        PROVE  \E r \in box' : r.tx = t
    <3>1. Result(t, FALSE, <<>>) \in box' /\ Result(t, FALSE, <<>>).tx = t
      BY <1>12 DEF ReaderEnds, Result
    <3>2. QED
      BY <3>1
  <2>2. QED
    BY <1>10, <1>12, <2>1 DEF ReaderEnds, calls
<1>13. ASSUME NEW p \in Caller, Write(p) \/ Written(p)
       PROVE  CallInv'
  BY <1>4, <1>13 DEF Write, Written, table, Active
<1>14. (\/ \E c \in served : Serve(c)
        \/ \E t \in IndTx : Indicate(t)
        \/ CloseTransport \/ Break \/ Apply
        \/ UNCHANGED <<reader, transport, table, calls, modem, monitor>>)
       => CallInv'
  BY <1>2 DEF Serve, Indicate, CloseTransport, Break, Apply, table, calls
<1>15. QED
  BY DeviceCases, <1>3, <1>7, <1>8, <1>9, <1>11, <1>12, <1>13, <1>14

(* What the wire is asked about: nothing of a number is left behind where  *)
(* the number is taken up.                                                 *)
LEMMA WireStep ==
    ASSUME DeviceInv, MbimAssumption, [Next]_vars
    PROVE  WireInv'
<1>1. /\ DeviceType /\ CallInv /\ WireInv /\ CollectInv /\ nextTx \in Nat /\ pending \subseteq 1 .. nextTx
      /\ DOMAIN mpc = Caller /\ DOMAIN tx = Caller /\ DOMAIN client = Caller
      /\ \A q \in Caller : tx[q] \in Nat /\ client[q] \in Nat
      /\ \A r \in box : r.tx \in Nat
      /\ \A c \in served : c.tx \in Nat
      /\ \A m \in out : m.tx \in Nat /\ m.part \in Nat /\ m.of \in Nat
  BY DeviceFacts DEF DeviceInv
<1>2. nextTx \in 0 .. MaxTx /\ MaxTx \in Nat /\ IndTx \cap (1 .. MaxTx) = {} /\ IndTx \subseteq Nat
  BY <1>1 DEF DeviceType, MbimAssumption
<1>3. DOMAIN collector \subseteq (1 .. nextTx) \cup IndTx
  BY <1>1 DEF CollectInv
<1>4. CASE UNCHANGED <<transport, nextTx, collector, box, mpc, tx, client, served, out, clients>>
  BY <1>1, <1>4 DEF WireInv, Unused
<1>5. ASSUME NEW p \in Caller, Registers(p)
      PROVE  WireInv'
  <2>1. /\ nextTx' = nextTx + 1 /\ nextTx' \in 1 .. MaxTx
        /\ tx' = [tx EXCEPT ![p] = nextTx'] /\ mpc' = [mpc EXCEPT ![p] = "write"]
        /\ UNCHANGED <<transport, collector, box, client, served, out, clients>>
    BY <1>1, <1>5, RegisterGives
  <2>2. Unused(nextTx')
    BY <1>1, <1>2, <1>3, <2>1 DEF WireInv, Unused
  <2>3. /\ tx'[p] = nextTx'
        /\ \A q \in Caller : q # p => tx'[q] = tx[q] /\ mpc'[q] = mpc[q]
    BY <1>1, <2>1
  <2>4. \A q \in Caller : mpc'[q] \in {"write", "writing"} => Unused(tx'[q])
    BY <1>1, <2>2, <2>3 DEF WireInv
  <2>5. \A q \in Caller : mpc'[q] \in {"write", "writing"} => Unused(tx[q])'
    BY <2>1, <2>4 DEF Unused
  <2>6. QED
    BY <1>1, <2>1, <2>5 DEF WireInv
<1>6. ASSUME NEW p \in Caller, Write(p)
      PROVE  WireInv'
  <2>1. /\ UNCHANGED <<transport, nextTx, collector, box, tx, client, served, out, clients>>
        /\ mpc' = [mpc EXCEPT ![p] = "writing"] /\ mpc[p] = "write"
    BY <1>6 DEF Write, table, modem
  <2>2. \A q \in Caller : mpc'[q] \in {"write", "writing"} => mpc[q] \in {"write", "writing"}
    BY <1>1, <2>1
  <2>3. QED
    BY <1>1, <2>1, <2>2 DEF WireInv, Unused
<1>7. ASSUME NEW p \in Caller, Written(p)
      PROVE  WireInv'
  <2> DEFINE c == [tx |-> tx[p], stage |-> stage[p], client |-> client[p]]
  <2>1. /\ UNCHANGED <<transport, nextTx, collector, box, tx, client, out, clients>>
        /\ mpc' = [mpc EXCEPT ![p] = "wait"] /\ mpc[p] = "writing"
        /\ served' = IF transport = "broken" THEN served ELSE served \cup {c}
        /\ transport # "closed"
    BY <1>7 DEF Written, table
  <2>2. c.tx = tx[p] /\ Unused(tx[p]) /\ tx[p] \in 1 .. nextTx
    <3>1. tx[p] # 0 /\ tx[p] <= nextTx
      BY <1>1, <2>1 DEF CallInv, Active
    <3>2. QED
      BY <1>1, <2>1, <3>1 DEF WireInv
  <2>3. \A q \in Caller : /\ mpc'[q] \in {"write", "writing"} => mpc[q] \in {"write", "writing"} /\ q # p
                          /\ q # p => tx[q] # tx[p]
                          /\ client[q] # tx[p]
    <3>1. tx[p] # 0
      BY <1>1, <2>2
    <3>2. QED
      BY <1>1, <2>1, <3>1 DEF CallInv
  <2> HIDE DEF c
  <2>4. transport' # "open" => served' = {} /\ out' = {} /\ clients' = {}
    BY <1>1, <2>1 DEF WireInv, DeviceType
  <2>5. \A q \in Caller : mpc'[q] \in {"write", "writing"} => Unused(tx[q])'
    BY <1>1, <2>1, <2>2, <2>3 DEF WireInv, Unused
  <2>6. served' \subseteq served \cup {c}
    BY <2>1
  <2>7. \A d, e \in served' : d.tx = e.tx => d = e
    BY <1>1, <2>2, <2>6 DEF WireInv, Unused
  <2>8. \A d \in served' : /\ d.tx \in 1 .. nextTx
                           /\ \A m \in out : m.tx # d.tx
                           /\ \A r \in box : r.ok => r.tx # d.tx
                           /\ \A q \in Caller : client[q] # d.tx
    BY <1>1, <2>2, <2>3, <2>6 DEF WireInv, Unused
  <2>9. QED
    BY <1>1, <2>1, <2>4, <2>5, <2>7, <2>8 DEF WireInv
(* A caller whose command ends.                                            *)
<1>8. ASSUME NEW p \in Caller, mpc[p] \in Active,
             mpc' = [mpc EXCEPT ![p] = "idle"] \/ mpc' = [mpc EXCEPT ![p] = "next"],
             tx' = [tx EXCEPT ![p] = 0],
             client' = [client EXCEPT ![p] = client'[p]],
             \/ client'[p] \in {0, client[p]}
             \/ client'[p] = tx[p] /\ \E r \in box : r.ok /\ r.tx = tx[p],
             UNCHANGED <<transport, nextTx, served, out, clients>>,
             box' \subseteq box, DOMAIN collector' \subseteq DOMAIN collector
      PROVE  WireInv'
  <2>1. \A q \in Caller : mpc'[q] \in {"write", "writing"} =>
          mpc[q] \in {"write", "writing"} /\ tx'[q] = tx[q]
    BY <1>1, <1>8
  <2>2. \A q \in Caller : mpc'[q] \in {"write", "writing"} => Unused(tx[q])'
    BY <1>1, <1>8, <2>1 DEF WireInv, Unused
  <2>3. ASSUME NEW c \in served, NEW q \in Caller
        PROVE  client'[q] # c.tx
    <3>1. CASE q # p
      BY <1>1, <1>8, <3>1 DEF WireInv
    <3>2. CASE q = p
      BY <1>1, <1>8, <3>2 DEF WireInv
    <3>3. QED
      BY <3>1, <3>2
  <2>4. QED
    BY <1>1, <1>8, <2>2, <2>3 DEF WireInv
<1>9. ASSUME NEW p \in Caller, Failed(p), mpc[p] \in {"writing", "wait"},
             UNCHANGED <<transport, nextTx, served, out, clients>>,
             box' \subseteq box, DOMAIN collector' \subseteq DOMAIN collector
      PROVE  WireInv'
  <2>1. /\ mpc' = [mpc EXCEPT ![p] = IF stage[p] = "use" THEN "next" ELSE "idle"]
        /\ tx' = [tx EXCEPT ![p] = 0]
        /\ client' = [client EXCEPT ![p] = IF stage[p] = "use" THEN client[p] ELSE 0]
    BY <1>1, <1>9, FailedGives
  <2>2. mpc' = [mpc EXCEPT ![p] = "idle"] \/ mpc' = [mpc EXCEPT ![p] = "next"]
    BY <2>1
  <2>3. client' = [client EXCEPT ![p] = client'[p]] /\ client'[p] \in {0, client[p]}
    BY <1>1, <2>1
  <2>4. mpc[p] \in Active
    BY <1>9 DEF Active
  <2>5. QED
    BY <1>8, <1>9, <2>1, <2>2, <2>3, <2>4
<1>10. ASSUME NEW p \in Caller, WriteFails(p)
       PROVE  WireInv'
  BY <1>9, <1>10 DEF WriteFails
<1>11. ASSUME NEW p \in Caller, ContextEnds(p)
       PROVE  WireInv'
  BY <1>9, <1>11 DEF ContextEnds, Forget
<1>12. ASSUME NEW p \in Caller, Receive(p)
       PROVE  WireInv'
  <2>1. UNCHANGED <<transport, nextTx, collector, served, out, clients>>
    BY <1>12 DEF Receive
  <2>2. PICK r \in box :
             /\ r.tx = tx[p] /\ box' = box \ {r} /\ mpc[p] = "wait"
             /\ \/ /\ r.ok
                   /\ mpc' = [mpc EXCEPT ![p] =
                         IF stage[p] \in {"config", "alloc", "use"} THEN "next" ELSE "idle"]
                   /\ tx' = [tx EXCEPT ![p] = 0]
                   /\ client' = [client EXCEPT ![p] = CASE stage[p] = "alloc" -> tx[p]
                                                        [] stage[p] = "use" -> client[p]
                                                        [] OTHER -> 0]
                \/ Failed(p)
    BY <1>1, <1>12, AnsweredGives
  <2>3. CASE Failed(p)
    BY <1>9, <2>1, <2>2, <2>3
  <2>4. CASE ~Failed(p)
    <3>1. mpc' = [mpc EXCEPT ![p] = "idle"] \/ mpc' = [mpc EXCEPT ![p] = "next"]
      BY <2>2, <2>4
    <3>2. client' = [client EXCEPT ![p] = client'[p]] /\ client'[p] \in {0, client[p], tx[p]}
      BY <1>1, <2>2, <2>4
    <3>3. mpc[p] \in Active /\ tx' = [tx EXCEPT ![p] = 0] /\ box' \subseteq box
          /\ \E x \in box : x.ok /\ x.tx = tx[p]
      BY <2>2, <2>4 DEF Active
    <3>4. QED
      BY <1>8, <2>1, <3>1, <3>2, <3>3
  <2>5. QED
    BY <2>3, <2>4
<1>13. ASSUME NEW c \in served, Serve(c)
       PROVE  WireInv'
  <2>1. PICK n1 \in {1, 2} : \E k \in {"open", "done"} :
          /\ out' = out \cup {Begun(c.tx, c.tx, k, n1)} /\ (k = "open" => n1 = 1)
    BY <1>13 DEF Serve
  <2>2. PICK k \in {"open", "done"} :
          /\ out' = out \cup {Begun(c.tx, c.tx, k, n1)} /\ (k = "open" => n1 = 1)
    BY <2>1
  <2> DEFINE m == Begun(c.tx, c.tx, k, n1)
  <2>3. /\ m.tx = c.tx /\ m.id = c.tx /\ m.kind = k /\ m.part = 1 /\ m.of = n1
        /\ k # "ind" /\ n1 \in {1, 2}
    BY DEF Begun
  <2>4. /\ UNCHANGED <<nextTx, collector, box, mpc, tx, client>>
        /\ transport' = "open" /\ served' = served \ {c} /\ out' = out \cup {m}
    BY <1>13, <2>2 DEF Serve, table, calls
  <2> HIDE DEF m
  <2>5. /\ c.tx \in 1 .. nextTx
        /\ \A l \in out : l.tx # c.tx
        /\ \A q \in Caller : mpc[q] \in {"write", "writing"} => tx[q] # c.tx
        /\ \A d \in served \ {c} : d.tx # c.tx
    BY <1>1 DEF WireInv, Unused
  <2>6. \A q \in Caller : mpc'[q] \in {"write", "writing"} => Unused(tx[q])'
    BY <1>1, <2>3, <2>4, <2>5 DEF WireInv, Unused
  <2>7. \A l \in out' :
          /\ l.part \in 1 .. l.of
          /\ l.kind = "ind" => l.tx \in IndTx
          /\ l.kind # "ind" => l.tx \in 1 .. nextTx /\ l.id = l.tx
          /\ l.kind = "open" => l.of = 1
    BY <1>1, <2>2, <2>3, <2>4, <2>5 DEF WireInv
  <2>8. \A l, z \in out' : l.tx = z.tx => l = z
    BY <1>1, <2>3, <2>4, <2>5 DEF WireInv
  <2>9. \A d \in served' : \A l \in out' : l.tx # d.tx
    BY <1>1, <2>3, <2>4, <2>5 DEF WireInv
  <2>10. QED
    BY <1>1, <2>4, <2>6, <2>7, <2>8, <2>9 DEF WireInv
<1>14. ASSUME NEW t \in IndTx, Indicate(t)
       PROVE  WireInv'
  <2>1. PICK n1 \in {1, 2} : out' = out \cup {Begun(t, MaxTx + inds', "ind", n1)}
    BY <1>14 DEF Indicate
  <2> DEFINE m == Begun(t, MaxTx + inds', "ind", n1)
  <2>2. m.tx = t /\ m.kind = "ind" /\ m.part = 1 /\ m.of = n1 /\ n1 \in {1, 2}
    BY DEF Begun
  <2>3. /\ UNCHANGED <<nextTx, collector, box, mpc, tx, client, served>>
        /\ transport' = "open" /\ out' = out \cup {m} /\ \A l \in out : l.tx # t
    BY <1>14, <2>1 DEF Indicate, table, calls
  <2> HIDE DEF m
  <2>4. t \notin 1 .. nextTx
    BY <1>2
  <2>5. \A q \in Caller : mpc[q] \in {"write", "writing"} => tx[q] \in 1 .. nextTx
    BY <1>1 DEF CallInv, Active
  <2>6. \A q \in Caller : mpc'[q] \in {"write", "writing"} => Unused(tx[q])'
    BY <1>1, <2>2, <2>3, <2>4, <2>5 DEF WireInv, Unused
  <2>7. \A l \in out' :
          /\ l.part \in 1 .. l.of
          /\ l.kind = "ind" => l.tx \in IndTx
          /\ l.kind # "ind" => l.tx \in 1 .. nextTx /\ l.id = l.tx
          /\ l.kind = "open" => l.of = 1
    BY <1>1, <2>2, <2>3 DEF WireInv
  <2>8. /\ \A l, z \in out' : l.tx = z.tx => l = z
        /\ \A d \in served' : \A l \in out' : l.tx # d.tx
    BY <1>1, <2>2, <2>3, <2>4 DEF WireInv
  <2>9. QED
    BY <1>1, <2>3, <2>6, <2>7, <2>8 DEF WireInv
<1>15. ASSUME NEW m \in out, NEW b \in BOOLEAN, Read(m, b)
       PROVE  WireInv'
  <2>1. /\ UNCHANGED <<transport, nextTx, mpc, tx, client, served, clients>> /\ transport = "open"
        /\ \A l \in out' : \/ l \in out
                           \/ /\ l.tx = m.tx /\ l.id = m.id /\ l.kind = m.kind /\ l.of = m.of
                              /\ l.part = m.part + 1 /\ m.part < m.of
        /\ \A l, z \in out' : l.tx = z.tx => l = z
    <3>1. /\ UNCHANGED <<transport, nextTx, mpc, tx, client, served, clients>> /\ transport = "open"
          /\ \A l \in out' : \/ l \in out /\ l # m
                             \/ /\ l.tx = m.tx /\ l.id = m.id /\ l.kind = m.kind /\ l.of = m.of
                                /\ l.part = m.part + 1 /\ m.part < m.of
      BY <1>15, ReadLeaves
    <3>2. /\ \A l \in out : l # m => l.tx # m.tx
          /\ \A l, z \in out : l.tx = z.tx => l = z
      BY <1>1 DEF WireInv
    <3>3. out' = (out \ {m}) \cup (IF m.part < m.of THEN {[m EXCEPT !.part = @ + 1]} ELSE {})
      BY <1>15 DEF Read
    <3>4. \A l, z \in out' : l \notin out \ {m} /\ z \notin out \ {m} => l = z
      BY <3>3
    <3>5. QED
      BY <3>1, <3>2, <3>4
  <2>2. \A t \in DOMAIN collector' : t \in DOMAIN collector \/ t = m.tx
    BY <1>1, <1>15, ReadGives
  <2>3. \A r \in box' : r \in box \/ (r.tx = m.tx /\ m.kind # "ind")
    BY <1>15, ReadGives DEF ResultOf
  <2>4. \A l \in out' :
          /\ l.part \in 1 .. l.of
          /\ l.kind = "ind" => l.tx \in IndTx
          /\ l.kind # "ind" => l.tx \in 1 .. nextTx /\ l.id = l.tx
          /\ l.kind = "open" => l.of = 1
    BY <1>1, <2>1 DEF WireInv
  <2>5. \A q \in Caller : mpc'[q] \in {"write", "writing"} => Unused(tx[q])'
    BY <1>1, <2>1, <2>2, <2>3 DEF WireInv, Unused
  <2>6. \A c \in served' : /\ \A l \in out' : l.tx # c.tx
                           /\ \A r \in box' : r.ok => r.tx # c.tx
    BY <1>1, <2>1, <2>3 DEF WireInv
  <2>7. \A r \in box' : r.tx \in 1 .. nextTx
    BY <1>1, <2>3 DEF WireInv
  <2>8. QED
    BY <1>1, <2>1, <2>4, <2>5, <2>6, <2>7 DEF WireInv
<1>16. CASE CloseTransport \/ Break
  BY <1>1, <1>16 DEF WireInv, CloseTransport, Break, table, calls, Unused
<1>17. CASE ReaderEnds
  <2>1. /\ UNCHANGED <<transport, nextTx, mpc, tx, client, served, out, clients>>
        /\ DOMAIN collector' = {}
    BY <1>17 DEF ReaderEnds, calls, modem
  <2>2. \A r \in box' : r \in box \/ (r.tx \in pending /\ ~r.ok)
    BY <1>17 DEF ReaderEnds, Result
  <2>3. \A q \in Caller : mpc'[q] \in {"write", "writing"} => Unused(tx[q])'
    BY <1>1, <2>1, <2>2 DEF WireInv, Unused
  <2>4. QED
    BY <1>1, <2>1, <2>2, <2>3 DEF WireInv
<1>18. CASE Apply
  BY <1>4, <1>18 DEF Apply, table, calls, modem
<1>19. UNCHANGED <<reader, transport, table, calls, modem, monitor>> => WireInv'
  BY <1>4 DEF table, calls, modem
<1>20. QED
  BY DeviceCases, <1>5, <1>6, <1>7, <1>10, <1>11, <1>12, <1>13, <1>14, <1>15, <1>16, <1>17, <1>18, <1>19

(* Every step keeps a collector the beginning of the one message that is   *)
(* being sent.                                                             *)
LEMMA CollectStep ==
    ASSUME DeviceInv, MbimAssumption, [Next]_vars
    PROVE  CollectInv'
<1>1. /\ DeviceType /\ CallInv /\ WireInv /\ CollectInv /\ nextTx \in Nat /\ pending \subseteq 1 .. nextTx
      /\ nextTx \in 0 .. MaxTx /\ IndTx \cap (1 .. nextTx) = {}
  BY DeviceFacts DEF DeviceInv, DeviceType, MbimAssumption
<1>2. \A p \in Caller : mpc[p] \in Active => tx[p] \in 1 .. nextTx
  BY <1>1, DeviceFacts DEF CallInv
<1>3. CASE UNCHANGED <<transport, pending, collector, out>>
  BY <1>1, <1>3 DEF CollectInv
<1>4. ASSUME NEW p \in Caller, Registers(p)
      PROVE  CollectInv'
  BY <1>1, <1>4, RegisterGives DEF CollectInv
<1>5. ASSUME NEW p \in Caller, WriteFails(p)
      PROVE  CollectInv'
  <2>1. UNCHANGED <<transport, collector, out>> /\ pending' = pending \ {tx[p]} /\ mpc[p] = "writing"
    BY <1>5 DEF WriteFails
  <2>2. tx[p] \notin DOMAIN collector
    BY <1>1, <2>1 DEF WireInv, Unused
  <2>3. QED
    BY <1>1, <2>1, <2>2 DEF CollectInv
<1>6. ASSUME NEW p \in Caller, ContextEnds(p)
      PROVE  CollectInv'
  <2>1. /\ UNCHANGED <<transport, out>> /\ pending' = pending \ {tx[p]}
        /\ DOMAIN collector' = DOMAIN collector \ {tx[p]}
        /\ \A t \in DOMAIN collector' : collector'[t] = collector[t]
    BY <1>6 DEF ContextEnds, Forget
  <2>2. IsFiniteSet(DOMAIN collector') /\ Cardinality(DOMAIN collector') <= MaxCollectors
    <3>1. IsFiniteSet(DOMAIN collector) /\ Cardinality(DOMAIN collector) \in Nat
          /\ Cardinality(DOMAIN collector) <= MaxCollectors
      BY <1>1, FS_CardinalityType DEF CollectInv
    <3>2. /\ IsFiniteSet(DOMAIN collector \ {tx[p]})
          /\ Cardinality(DOMAIN collector \ {tx[p]}) <= Cardinality(DOMAIN collector)
          /\ Cardinality(DOMAIN collector \ {tx[p]}) \in Nat
      BY <3>1, FS_Subset, FS_CardinalityType
    <3>3. QED
      BY <2>1, <3>1, <3>2 DEF MbimAssumption
  <2>3. QED
    BY <1>1, <2>1, <2>2 DEF CollectInv
<1>7. ASSUME NEW c \in served, Serve(c)
      PROVE  CollectInv'
  <2>1. PICK n1 \in {1, 2}, k \in {"open", "done"} : out' = out \cup {Begun(c.tx, c.tx, k, n1)}
    BY <1>7 DEF Serve
  <2>2. UNCHANGED <<transport, pending, collector>> /\ transport = "open"
    BY <1>7 DEF Serve, table
  <2>3. c.tx \notin DOMAIN collector
    <3>1. \A m \in out : m.tx # c.tx
      BY <1>1 DEF WireInv
    <3>2. QED
      BY <1>1, <2>2, <3>1 DEF CollectInv
  <2>4. Begun(c.tx, c.tx, k, n1).tx = c.tx
    BY DEF Begun
  <2>5. QED
    BY <1>1, <2>1, <2>2, <2>3, <2>4 DEF CollectInv
<1>8. ASSUME NEW t \in IndTx, Indicate(t)
      PROVE  CollectInv'
  <2>1. PICK n1 \in {1, 2} : out' = out \cup {Begun(t, MaxTx + inds', "ind", n1)}
    BY <1>8 DEF Indicate
  <2>2. UNCHANGED <<transport, pending, collector>> /\ transport = "open" /\ \A m \in out : m.tx # t
    BY <1>8 DEF Indicate, table
  <2>3. t \notin DOMAIN collector
    BY <1>1, <2>2 DEF CollectInv
  <2>4. Begun(t, MaxTx + inds', "ind", n1).tx = t
    BY DEF Begun
  <2>5. QED
    BY <1>1, <2>1, <2>2, <2>3, <2>4 DEF CollectInv
<1>9. ASSUME NEW m \in out, NEW b \in BOOLEAN, Read(m, b)
      PROVE  CollectInv'
  <2>1. /\ DOMAIN collector' \subseteq pending' \cup IndTx
        /\ IsFiniteSet(DOMAIN collector') /\ Cardinality(DOMAIN collector') <= MaxCollectors
        /\ \A t \in DOMAIN collector' :
                 \/ t # m.tx /\ t \in DOMAIN collector /\ collector'[t] = collector[t]
                 \/ t = m.tx /\ BeginningOf(collector'[t], m)
    BY <1>9, ReadGives
  <2>2. /\ transport = "open" /\ transport' = transport
        /\ \A l \in out' : \/ l \in out /\ l # m
                           \/ /\ l.tx = m.tx /\ l.id = m.id /\ l.kind = m.kind /\ l.of = m.of
                              /\ l.part = m.part + 1 /\ m.part < m.of
        /\ \A l \in out : l # m => l \in out'
        /\ m.part < m.of => \E l \in out' : l.tx = m.tx
    BY <1>9, ReadLeaves
  <2>3. \A l \in out : l # m => l.tx # m.tx
    BY <1>1 DEF WireInv
  <2>4. ASSUME NEW t \in DOMAIN collector'
        PROVE  /\ Beginning(collector'[t])
               /\ \E l \in out' : l.tx = t
               /\ \A l \in out' : l.tx = t =>
                     /\ l.kind # "open"
                     /\ l.part = Len(collector'[t]) + 1 /\ l.id = collector'[t][1].id
    <3>1. CASE t # m.tx /\ t \in DOMAIN collector /\ collector'[t] = collector[t]
      <4>1. /\ Beginning(collector[t]) /\ \E l \in out : l.tx = t
            /\ \A l \in out : l.tx = t =>
                  /\ l.kind # "open"
                  /\ l.part = Len(collector[t]) + 1 /\ l.id = collector[t][1].id
        BY <1>1, <2>2, <3>1 DEF CollectInv
      <4>2. QED
        BY <2>2, <3>1, <4>1
    <3>2. CASE t = m.tx /\ BeginningOf(collector'[t], m)
      BY <2>2, <2>3, <3>2 DEF BeginningOf
    <3>3. QED
      BY <2>1, <3>1, <3>2
  <2>5. QED
    BY <2>1, <2>2, <2>4 DEF CollectInv
<1>10. CASE CloseTransport \/ Break
  BY <1>1, <1>10 DEF CollectInv, CloseTransport, Break, table
<1>11. CASE ReaderEnds
  <2>1. DOMAIN collector' = {}
    BY <1>11 DEF ReaderEnds
  <2>2. QED
    BY <2>1, FS_EmptySet DEF CollectInv, MbimAssumption
<1>12. ASSUME NEW p \in Caller, Write(p) \/ Written(p) \/ Receive(p)
       PROVE  CollectInv'
  BY <1>3, <1>12 DEF Write, Written, Receive, table, modem
<1>13. Apply \/ (UNCHANGED <<reader, transport, table, calls, modem, monitor>>) => CollectInv'
  BY <1>3 DEF Apply, table, modem
<1>14. QED
  BY DeviceCases, <1>4, <1>5, <1>6, <1>7, <1>8, <1>9, <1>10, <1>11, <1>12, <1>13

(* Every step keeps results whole and their caller's own.                  *)
LEMMA ResultStep ==
    ASSUME DeviceInv, MbimAssumption, [Next]_vars
    PROVE  ResultInv'
<1>1. DeviceType /\ ResultInv /\ indications \in Seq(Seq(Fragment))
  BY DEF DeviceInv, DeviceType
<1>2. CASE box' \subseteq box /\ indications' = indications
  BY <1>1, <1>2 DEF ResultInv
<1>3. ASSUME NEW p \in Caller, Registers(p)
      PROVE  ResultInv'
  BY <1>2, <1>3 DEF Registers, Register, Begin, GoOn, monitor
<1>4. ASSUME NEW p \in Caller,
             Write(p) \/ Written(p) \/ WriteFails(p) \/ ContextEnds(p) \/ Receive(p)
      PROVE  ResultInv'
  BY <1>2, <1>4 DEF Write, Written, WriteFails, ContextEnds, Receive, table, monitor
<1>5. ASSUME NEW m \in out, NEW b \in BOOLEAN, Read(m, b)
      PROVE  ResultInv'
  <2>1. /\ \A r \in box' : r \in box \/ ResultOf(r, m)
        /\ \A i \in DOMAIN indications' : Whole(indications'[i])
    BY <1>5, ReadGives
  <2>2. QED
    BY <1>1, <2>1 DEF ResultInv, ResultOf
<1>6. CASE ReaderEnds
  <2>1. \A r \in box' : r \in box \/ r.ok = FALSE
    BY <1>6 DEF ReaderEnds, Result
  <2>2. indications' = indications
    BY <1>6 DEF ReaderEnds, monitor
  <2>3. QED
    BY <1>1, <2>1, <2>2 DEF ResultInv
<1>7. CASE Apply
  <2>1. box' = box /\ indications # <<>> /\ indications' = Tail(indications)
    BY <1>7 DEF Apply, table
  <2>2. \A i \in DOMAIN indications' : i + 1 \in DOMAIN indications /\ indications'[i] = indications[i + 1]
    BY <1>1, <2>1, HeadTailProperties
  <2>3. QED
    BY <1>1, <2>1, <2>2 DEF ResultInv
<1>8. (\/ \E c \in served : Serve(c)
       \/ \E t \in IndTx : Indicate(t)
       \/ CloseTransport \/ Break
       \/ UNCHANGED <<reader, transport, table, calls, modem, monitor>>)
      => ResultInv'
  BY <1>2 DEF Serve, Indicate, CloseTransport, Break, table, monitor
<1>9. QED
  BY DeviceCases, <1>3, <1>4, <1>5, <1>6, <1>7, <1>8

(* Every step keeps track of the QMI clients the module has given out.     *)
LEMMA ClientStep ==
    ASSUME DeviceInv, MbimAssumption, [Next]_vars
    PROVE  ClientInv'
<1>1. /\ DeviceType /\ CallInv /\ WireInv /\ ClientInv /\ nextTx \in Nat
      /\ DOMAIN mpc = Caller /\ DOMAIN tx = Caller /\ DOMAIN client = Caller /\ DOMAIN stage = Caller
      /\ transport \in {"open", "broken", "closed"}
  BY DeviceFacts DEF DeviceInv, DeviceType
<1>2. /\ \A p \in Caller : tx[p] \in Nat /\ client[p] \in Nat
      /\ \A c \in clients : c # 0
      /\ \A c \in served : c.tx # 0
  BY <1>1, DeviceFacts DEF ClientInv, WireInv
<1>3. CASE UNCHANGED <<nextTx, mpc, tx, stage, client, served, clients, lost>>
  BY <1>1, <1>3 DEF ClientInv
<1>4. ASSUME NEW p \in Caller, Registers(p)
      PROVE  ClientInv'
  <2>1. /\ nextTx' = nextTx + 1 /\ tx' = [tx EXCEPT ![p] = nextTx'] /\ mpc' = [mpc EXCEPT ![p] = "write"]
        /\ mpc[p] \notin Active
        /\ \E s \in Stages : stage' = [stage EXCEPT ![p] = s]
        /\ UNCHANGED <<client, served, clients, lost>>
    BY <1>1, <1>4, RegisterGives
  <2>2. /\ \A q \in Caller : q # p => tx'[q] = tx[q] /\ mpc'[q] = mpc[q] /\ stage'[q] = stage[q]
        /\ tx'[p] = nextTx + 1 /\ mpc'[p] = "write" /\ tx[p] = 0
    BY <1>1, <2>1 DEF CallInv
  <2>3. \A c \in served : c.tx # nextTx + 1
    BY <1>1 DEF WireInv
  <2>4. clients' \subseteq 1 .. nextTx'
    BY <1>1, <2>1 DEF ClientInv
  <2>5. \A c \in clients' : c \in lost' \/ \E q \in Caller :
          client'[q] = c \/ (tx'[q] = c /\ stage'[q] = "alloc")
    BY <1>1, <1>2, <2>1, <2>2 DEF ClientInv
  <2>6. \A c \in served' : c.stage = "alloc" =>
          c.tx \in lost' \/ \E q \in Caller : tx'[q] = c.tx /\ stage'[q] = "alloc"
    BY <1>1, <1>2, <2>1, <2>2 DEF ClientInv
  <2>7. \A c \in served', q \in Caller : tx'[q] = c.tx =>
          c.client = client'[q] /\ c.stage = stage'[q]
    BY <1>1, <2>1, <2>2, <2>3 DEF ClientInv
  <2>8. \A q \in Caller : mpc'[q] = "wait" /\ stage'[q] = "release" =>
          client'[q] \notin clients' \/ \E c \in served' : c.tx = tx'[q]
    BY <1>1, <2>1, <2>2 DEF ClientInv
  <2>9. QED
    BY <2>4, <2>5, <2>6, <2>7, <2>8 DEF ClientInv
<1>5. ASSUME NEW p \in Caller, Write(p)
      PROVE  ClientInv'
  <2>1. /\ UNCHANGED <<nextTx, tx, stage, client, served, clients, lost>>
        /\ \A q \in Caller : mpc'[q] = "wait" => mpc[q] = "wait"
    BY <1>1, <1>5 DEF Write, table, modem
  <2>2. QED
    BY <1>1, <2>1 DEF ClientInv
<1>6. ASSUME NEW p \in Caller, Written(p)
      PROVE  ClientInv'
  <2> DEFINE c == [tx |-> tx[p], stage |-> stage[p], client |-> client[p]]
  <2>1. /\ UNCHANGED <<nextTx, tx, stage, client, clients, lost>>
        /\ mpc' = [mpc EXCEPT ![p] = "wait"] /\ mpc[p] = "writing"
        /\ served' = IF transport = "broken" THEN served ELSE served \cup {c}
        /\ transport # "closed"
    BY <1>6 DEF Written, table
  <2>2. c.tx = tx[p] /\ c.stage = stage[p] /\ c.client = client[p]
    OBVIOUS
  <2> HIDE DEF c
  <2>3. \A q \in Caller : tx[q] = tx[p] => q = p
    BY <1>1, <2>1 DEF CallInv, Active
  <2>4. \A q \in Caller : q # p => mpc'[q] = mpc[q]
    BY <1>1, <2>1
  <2>5. \A d \in served' : d.stage = "alloc" =>
          d.tx \in lost' \/ \E q \in Caller : tx'[q] = d.tx /\ stage'[q] = "alloc"
    BY <1>1, <2>1, <2>2 DEF ClientInv
  <2>6. \A d \in served', q \in Caller : tx'[q] = d.tx =>
          d.client = client'[q] /\ d.stage = stage'[q]
    BY <1>1, <2>1, <2>2, <2>3 DEF ClientInv
  <2>7. \A q \in Caller : mpc'[q] = "wait" /\ stage'[q] = "release" =>
          client'[q] \notin clients' \/ \E d \in served' : d.tx = tx'[q]
    <3>1. CASE transport = "open"
      <4>1. served' = served \cup {c}
        BY <2>1, <3>1
      <4>2. QED
        BY <1>1, <2>1, <2>2, <2>4, <4>1 DEF ClientInv
    <3>2. CASE transport # "open"
      BY <1>1, <2>1, <3>2 DEF WireInv
    <3>3. QED
      BY <3>1, <3>2
  <2>8. QED
    BY <1>1, <2>1, <2>5, <2>6, <2>7 DEF ClientInv
(* A caller whose command ends: what it had it keeps, has lost or released. *)
<1>7. ASSUME NEW p \in Caller, mpc[p] \in Active,
             mpc' = [mpc EXCEPT ![p] = mpc'[p]], mpc'[p] # "wait",
             tx' = [tx EXCEPT ![p] = 0],
             stage' = [stage EXCEPT ![p] = stage'[p]],
             client' = [client EXCEPT ![p] = client'[p]],
             UNCHANGED <<nextTx, served, clients>>, lost \subseteq lost',
             client[p] \in clients => client'[p] = client[p] \/ client[p] \in lost',
             stage[p] = "alloc" /\ tx[p] \in clients => client'[p] = tx[p] \/ tx[p] \in lost',
             stage[p] = "alloc" /\ (\E c \in served : c.tx = tx[p]) => tx[p] \in lost'
      PROVE  ClientInv'
  <2>1. /\ \A q \in Caller : q # p => /\ mpc'[q] = mpc[q] /\ tx'[q] = tx[q]
                                      /\ stage'[q] = stage[q] /\ client'[q] = client[q]
        /\ tx'[p] = 0
    BY <1>1, <1>7
  <2>2. \A c \in clients : c \in lost' \/ \E q \in Caller :
          client'[q] = c \/ (tx'[q] = c /\ stage'[q] = "alloc")
    BY <1>1, <1>7, <2>1 DEF ClientInv
  <2>3. \A c \in served : c.stage = "alloc" =>
          c.tx \in lost' \/ \E q \in Caller : tx'[q] = c.tx /\ stage'[q] = "alloc"
    BY <1>1, <1>7, <2>1 DEF ClientInv
  <2>4. \A c \in served, q \in Caller : tx'[q] = c.tx =>
          c.client = client'[q] /\ c.stage = stage'[q]
    BY <1>1, <1>2, <2>1 DEF ClientInv
  <2>5. \A q \in Caller : mpc'[q] = "wait" /\ stage'[q] = "release" =>
          client'[q] \notin clients \/ \E c \in served : c.tx = tx'[q]
    BY <1>1, <1>7, <2>1 DEF ClientInv
  <2>6. QED
    BY <1>1, <1>7, <2>2, <2>3, <2>4, <2>5 DEF ClientInv
<1>8. ASSUME NEW p \in Caller, Failed(p), mpc[p] \in {"writing", "wait"},
             UNCHANGED <<nextTx, served, clients>>
      PROVE  ClientInv'
  <2>1. /\ mpc' = [mpc EXCEPT ![p] = IF stage[p] = "use" THEN "next" ELSE "idle"]
        /\ tx' = [tx EXCEPT ![p] = 0]
        /\ stage' = [stage EXCEPT ![p] = IF stage[p] = "use" THEN "use" ELSE "none"]
        /\ client' = [client EXCEPT ![p] = IF stage[p] = "use" THEN client[p] ELSE 0]
        /\ lost \subseteq lost'
        /\ transport = "open" /\ stage[p] = "alloc" => tx[p] \in lost'
        /\ transport = "open" /\ stage[p] = "release" => client[p] \in lost'
        /\ client[p] # 0 => stage[p] \in {"use", "release"}
    BY <1>1, <1>8, FailedGives
  <2>2. mpc[p] \in Active
    BY <1>8 DEF Active
  <2>3. /\ mpc' = [mpc EXCEPT ![p] = mpc'[p]] /\ mpc'[p] # "wait"
        /\ stage' = [stage EXCEPT ![p] = stage'[p]]
        /\ client' = [client EXCEPT ![p] = client'[p]]
        /\ stage[p] = "use" => client'[p] = client[p]
    BY <1>1, <2>1
  <2>4. transport # "open" => served = {} /\ clients = {}
    BY <1>1 DEF WireInv
  <2>5. client[p] \in clients => client'[p] = client[p] \/ client[p] \in lost'
    BY <1>2, <2>1, <2>3, <2>4
  <2>6. /\ stage[p] = "alloc" /\ tx[p] \in clients => client'[p] = tx[p] \/ tx[p] \in lost'
        /\ stage[p] = "alloc" /\ (\E c \in served : c.tx = tx[p]) => tx[p] \in lost'
    BY <2>1, <2>4
  <2>7. QED
    BY <1>7, <1>8, <2>1, <2>2, <2>3, <2>5, <2>6
<1>9. ASSUME NEW p \in Caller, WriteFails(p) \/ ContextEnds(p)
      PROVE  ClientInv'
  BY <1>8, <1>9 DEF WriteFails, ContextEnds
<1>10. ASSUME NEW p \in Caller, Receive(p)
       PROVE  ClientInv'
  <2>1. UNCHANGED <<nextTx, served, clients>>
    BY <1>10 DEF Receive
  <2>2. PICK r \in box :
             /\ r.tx = tx[p] /\ mpc[p] = "wait"
             /\ \/ /\ r.ok
                   /\ mpc' = [mpc EXCEPT ![p] =
                         IF stage[p] \in {"config", "alloc", "use"} THEN "next" ELSE "idle"]
                   /\ tx' = [tx EXCEPT ![p] = 0]
                   /\ stage' = [stage EXCEPT ![p] =
                         IF stage[p] \in {"config", "alloc", "use"} THEN stage[p] ELSE "none"]
                   /\ client' = [client EXCEPT ![p] = CASE stage[p] = "alloc" -> tx[p]
                                                        [] stage[p] = "use" -> client[p]
                                                        [] OTHER -> 0]
                   /\ lost' = lost
                \/ Failed(p)
    BY <1>1, <1>10, AnsweredGives
  <2>3. CASE Failed(p)
    BY <1>8, <2>1, <2>2, <2>3
  <2>4. CASE ~Failed(p)
    <3>1. mpc[p] \in Active /\ tx' = [tx EXCEPT ![p] = 0] /\ lost' = lost
      BY <2>2, <2>4 DEF Active
    <3>2. mpc'[p] # "wait" /\ mpc' = [mpc EXCEPT ![p] = mpc'[p]]
      BY <1>1, <2>2, <2>4
    <3>3. stage' = [stage EXCEPT ![p] = stage'[p]]
      BY <1>1, <2>2, <2>4
    <3>4. /\ client' = [client EXCEPT ![p] = client'[p]]
          /\ stage[p] = "alloc" => client'[p] = tx[p]
          /\ stage[p] = "use" => client'[p] = client[p]
      BY <1>1, <2>2, <2>4
    <3>5. \A c \in served : c.tx # tx[p]
      BY <1>1, <2>2, <2>4 DEF WireInv
    <3>6. client[p] \in clients => client'[p] = client[p]
      <4>1. SUFFICES ASSUME client[p] \in clients, stage[p] # "use"
                     PROVE  FALSE
        BY <3>4
      <4>2. stage[p] = "release"
        BY <1>1, <1>2, <2>2, <4>1 DEF CallInv
      <4>3. QED
        BY <1>1, <2>2, <3>5, <4>1, <4>2 DEF ClientInv
    <3>7. QED
      BY <1>7, <2>1, <3>1, <3>2, <3>3, <3>4, <3>5, <3>6
  <2>5. QED
    BY <2>3, <2>4
<1>11. ASSUME NEW c \in served, Serve(c)
       PROVE  ClientInv'
  <2>1. /\ UNCHANGED <<nextTx, mpc, tx, stage, client, lost>>
        /\ served' = served \ {c}
        /\ clients' = CASE c.stage = "alloc" -> clients \cup {c.tx}
                        [] c.stage = "release" -> clients \ {c.client}
                        [] OTHER -> clients
    BY <1>11 DEF Serve, table, calls
  <2>2. /\ clients' \subseteq clients \cup {c.tx}
        /\ c.tx \in clients' => c.stage = "alloc" \/ c.tx \in clients
        /\ c.stage = "release" => clients' = clients \ {c.client}
    BY <2>1
  <2>3. /\ c.tx \in 1 .. nextTx /\ \A q \in Caller : client[q] # c.tx
        /\ \A d \in served : d.tx = c.tx => d = c
    BY <1>1 DEF WireInv
  <2>4. \A d \in clients' : d \in lost \/ \E q \in Caller :
          client[q] = d \/ (tx[q] = d /\ stage[q] = "alloc")
    BY <1>1, <2>2 DEF ClientInv
  <2>5. ASSUME NEW q \in Caller, mpc[q] = "wait", stage[q] = "release", client[q] \in clients'
        PROVE  \E d \in served' : d.tx = tx[q]
    <3>1. client[q] \in clients
      BY <2>2, <2>3, <2>5
    <3>2. PICK d \in served : d.tx = tx[q]
      BY <1>1, <2>5, <3>1 DEF ClientInv
    <3>3. d # c
      BY <1>1, <2>2, <2>5, <3>2 DEF ClientInv
    <3>4. QED
      BY <2>1, <3>2, <3>3
  <2>6. clients' \subseteq 1 .. nextTx
    BY <1>1, <2>2, <2>3 DEF ClientInv
  <2>7. QED
    BY <1>1, <2>1, <2>4, <2>5, <2>6 DEF ClientInv
<1>12. CASE CloseTransport \/ Break
  BY <1>12 DEF ClientInv, CloseTransport, Break
<1>13. ASSUME NEW m \in out, NEW b \in BOOLEAN, Read(m, b)
       PROVE  ClientInv'
  BY <1>3, <1>13, ReadLeaves
<1>14. (\/ \E t \in IndTx : Indicate(t)
        \/ ReaderEnds \/ Apply
        \/ UNCHANGED <<reader, transport, table, calls, modem, monitor>>)
       => ClientInv'
  BY <1>3 DEF Indicate, ReaderEnds, Apply, table, calls, modem
<1>15. QED
  BY DeviceCases, <1>4, <1>5, <1>6, <1>9, <1>10, <1>11, <1>12, <1>13, <1>14

(* The five parts together are inductive.                                  *)
LEMMA DeviceInvariance == Spec => []DeviceInv
<1>1. Init => DeviceInv
  BY DeviceInit
<1>2. DeviceInv /\ [Next]_vars => DeviceInv'
  BY DeviceTypeStep, CallStep, WireStep, CollectStep, ResultStep, ClientStep, MbimAssumption DEF DeviceInv
<1>3. QED
  BY <1>1, <1>2, PTL DEF Spec

(* A result is put together from all the fragments of the caller's own     *)
(* answer, an indication from those of one indication, however the         *)
(* fragments alternate and whatever collectors are given up between them.  *)
THEOREM MessagesWhole == Spec => []MessagesAreWhole
<1>1. DeviceInv => MessagesAreWhole
  BY DEF DeviceInv, ResultInv, CollectInv, MessagesAreWhole
<1>2. QED
  BY <1>1, DeviceInvariance, PTL

(* A caller that waits is registered or has been answered: when the read   *)
(* loop ends, nobody that was registered is left.                          *)
THEOREM NobodyIsForgotten == Spec => []NobodyForgotten
<1>1. DeviceInv => NobodyForgotten
  BY DEF DeviceInv, CallInv, NobodyForgotten, Active
<1>2. QED
  BY <1>1, DeviceInvariance, PTL

(* A QMI client the module has given out is held by a session, or was lost *)
(* to an allocation that nobody waited for or a release that failed.       *)
THEOREM ClientsKept == Spec => []ClientsAccounted
<1>1. DeviceInv => ClientsAccounted
  BY DEF DeviceInv, ClientInv, ClientsAccounted
<1>2. QED
  BY <1>1, DeviceInvariance, PTL

-----------------------------------------------------------------------------
(***************************************************************************)
(* QMI USSD.  A session is clean as long as no session up to it returned   *)
(* before the network released it, otherwise than by a time-out.  Of the   *)
(* clean sessions only the last one can still be open or have something in *)
(* the channels, and if it has, the next one is not admitted.              *)
(***************************************************************************)
Phases   == {"none", "reset", "drained", "originate", "wait"}
Clean(i) == \A j \in hung : j > i

USSDType ==
    /\ n \in 0 .. MaxSessions /\ phase \in Phases /\ await \in BOOLEAN
    /\ result \in 0 .. n /\ error \in 0 .. n /\ release \in 0 .. n
    /\ hung \subseteq 1 .. n
    /\ net \in [B!Session -> {"none", "open", "answered", "over"}]
    /\ phase \in {"reset", "drained"} => n < MaxSessions
    /\ phase \in {"originate", "wait"} => n > 0

SessionInv ==
    /\ \A i \in B!Session : i > n => net[i] = "none"
    /\ phase = "originate" => net[n] = "none"
    /\ phase \in {"originate", "wait"} => ~await
    /\ await => n > 0
    /\ \A i \in B!Session : Clean(i) /\ net[i] \in {"open", "answered"} =>
          i = n /\ (phase = "wait" \/ await)

ChannelsInv ==
    /\ result # 0 /\ Clean(result) =>
          /\ result = n
          /\ phase \in {"reset", "drained"} => await
          /\ phase # "originate"
    /\ release # 0 /\ Clean(release) =>
          /\ release = n /\ net[n] = "over"
          /\ phase = "drained" => await
          /\ phase # "originate"
    /\ phase = "wait" \/ await => (n \in B!Session => (net[n] = "over" => release # 0))
    /\ \A r \in results : r[2] \in Nat /\ (r[1] = r[2] \/ ~Clean(r[2]))

USSDInv == USSDType /\ SessionInv /\ ChannelsInv

(* No session has begun.                                                   *)
LEMMA USSDInit == ASSUME DevicesConfiguration, B!Init PROVE USSDInv
<1>1. /\ n = 0 /\ phase = "none" /\ result = 0 /\ error = 0 /\ release = 0 /\ await = FALSE
      /\ net = [i \in B!Session |-> "none"] /\ results = {} /\ hung = {}
      /\ MaxSessions \in Nat
  BY DevicesConfiguration DEF B!Init, B!BackendAssumption
<1>2. USSDType
  <2>1. await \in BOOLEAN
    BY <1>1, Zenon
  <2>2. QED
    BY <1>1, <2>1 DEF USSDType, Phases
<1>3. SessionInv /\ ChannelsInv
  BY <1>1 DEF SessionInv, ChannelsInv, Clean
<1>4. QED
  BY <1>2, <1>3 DEF USSDInv

(* What a step may do to USSD; all others leave it alone.                  *)
LEMMA USSDCases ==
    ASSUME [B!Next]_(B!vars)
    PROVE  \/ B!Reset \/ B!DrainReleases \/ B!Admit \/ B!Originate \/ B!Wait
           \/ \E i \in B!Session : B!Answers(i) \/ B!Releases(i)
           \/ UNCHANGED B!ussd
<1>1. B!SMSNext => UNCHANGED B!ussd
  BY DEF B!SMSNext, B!Arrive, B!ListSMS, B!ReadSMS, B!DeleteSMS, B!DeleteAllSMS, B!DeleteAllOf
<1>2. B!SelectionNext => UNCHANGED B!ussd
  BY DEF B!SelectionNext, B!SetManual, B!SetAutomatic
<1>3. QED
  BY <1>1, <1>2 DEF B!Next, B!USSDNext, B!vars

(* Every step keeps the types of a session.                                *)
LEMMA USSDTypeStep ==
    ASSUME USSDInv, DevicesConfiguration, [B!Next]_(B!vars)
    PROVE  USSDType'
<1>1. USSDType /\ SessionInv /\ ChannelsInv /\ MaxSessions \in Nat
  BY DevicesConfiguration DEF USSDInv, B!BackendAssumption
<1> USE <1>1 DEF B!Session
<1>2. CASE B!Reset
  BY <1>2 DEF B!Reset, USSDType, Phases
<1>3. CASE B!DrainReleases
  BY <1>3 DEF B!DrainReleases, USSDType, Phases
<1>4. CASE B!Admit
  BY <1>4 DEF B!Admit, USSDType, Phases
<1>5. CASE B!Originate
  <2>1. PICK s \in {"none", "open", "answered"} : net' = [net EXCEPT ![n] = s]
    BY <1>5 DEF B!Originate
  <2>2. net' \in [B!Session -> {"none", "open", "answered", "over"}]
    BY <2>1 DEF USSDType
  <2>3. /\ n \in 1 .. n /\ phase' \in {"none", "wait"} /\ hung' \subseteq hung \cup {n}
        /\ UNCHANGED <<n, result, error, release>>
    BY <1>5 DEF B!Originate, B!TimedOut, B!Return, USSDType
  <2>4. await' \in BOOLEAN
    <3>1. await' = await \/ await' = TRUE
      BY <1>5, Zenon DEF B!Originate, B!TimedOut, B!Return
    <3>2. QED
      BY <3>1, Zenon DEF USSDType
  <2>5. QED
    BY <2>2, <2>3, <2>4 DEF USSDType, Phases
<1>6. CASE B!Wait
  <2>1. /\ n \in 1 .. n /\ phase' = "none" /\ hung' \subseteq hung \cup {n}
        /\ result' \in {0, result} /\ error' \in {0, error} /\ release' \in {0, release}
        /\ UNCHANGED <<n, net>>
    BY <1>6 DEF B!Wait, B!TimedOut, B!Return, USSDType
  <2>2. await' \in {await, TRUE, FALSE}
    BY <1>6 DEF B!Wait, B!TimedOut
  <2>3. await' \in BOOLEAN
    BY <2>2, Zenon DEF USSDType
  <2>4. QED
    BY <2>1, <2>3 DEF USSDType, Phases
<1>7. ASSUME NEW i \in B!Session, B!Answers(i)
      PROVE  USSDType'
  <2>1. /\ \E s \in {"answered", "over"} : net' = [net EXCEPT ![i] = s]
        /\ result' \in {result, i} /\ error' \in {error, i} /\ UNCHANGED release
        /\ UNCHANGED <<n, phase, await, hung>>
    BY <1>7 DEF B!Answers, B!Fill
  <2>2. i \in 0 .. n
    BY <1>7 DEF B!Answers, SessionInv, USSDType
  <2>3. net' \in [B!Session -> {"none", "open", "answered", "over"}]
    BY <2>1 DEF USSDType
  <2>4. QED
    BY <2>1, <2>2, <2>3 DEF USSDType
<1>8. ASSUME NEW i \in B!Session, B!Releases(i)
      PROVE  USSDType'
  <2>1. /\ \E s \in {"answered", "over"} : net' = [net EXCEPT ![i] = s]
        /\ UNCHANGED <<result, error>> /\ release' \in {release, i}
        /\ UNCHANGED <<n, phase, await, hung>>
    BY <1>8 DEF B!Releases, B!Fill
  <2>2. i \in 0 .. n
    BY <1>8 DEF B!Releases, SessionInv, USSDType
  <2>3. net' \in [B!Session -> {"none", "open", "answered", "over"}]
    BY <2>1 DEF USSDType
  <2>4. QED
    BY <2>1, <2>2, <2>3 DEF USSDType
<1>9. CASE UNCHANGED B!ussd
  BY <1>9 DEF B!ussd, USSDType, Phases
<1>10. QED
  BY USSDCases, <1>2, <1>3, <1>4, <1>5, <1>6, <1>7, <1>8, <1>9

(* Every step keeps what a session has been given and what is still due to *)
(* it.                                                                     *)
LEMMA SessionStep ==
    ASSUME USSDInv, DevicesConfiguration, [B!Next]_(B!vars)
    PROVE  SessionInv'
<1>1. USSDType /\ SessionInv /\ ChannelsInv /\ MaxSessions \in Nat
  BY DevicesConfiguration DEF USSDInv, B!BackendAssumption
<1> USE <1>1 DEF B!Session
<1>2. CASE B!Reset
  BY <1>2 DEF B!Reset, USSDType, SessionInv, ChannelsInv, Clean
<1>3. CASE B!DrainReleases
  BY <1>3 DEF B!DrainReleases, USSDType, SessionInv, ChannelsInv, Clean
<1>4. CASE B!Admit
  BY <1>4 DEF B!Admit, USSDType, SessionInv, ChannelsInv, Clean
<1>5. CASE B!Originate
  BY <1>5 DEF B!Originate, B!TimedOut, B!Return, USSDType, SessionInv, ChannelsInv, Clean
<1>6. CASE B!Wait
  BY <1>6 DEF B!Wait, B!TimedOut, B!Return, USSDType, SessionInv, ChannelsInv, Clean
<1>7. ASSUME NEW i \in B!Session, B!Answers(i)
      PROVE  SessionInv'
  BY <1>7 DEF B!Answers, B!Fill, USSDType, SessionInv, ChannelsInv, Clean
<1>8. ASSUME NEW i \in B!Session, B!Releases(i)
      PROVE  SessionInv'
  BY <1>8 DEF B!Releases, B!Fill, USSDType, SessionInv, ChannelsInv, Clean
<1>9. CASE UNCHANGED B!ussd
  BY <1>9 DEF B!ussd, USSDType, SessionInv, ChannelsInv, Clean
<1>10. QED
  BY USSDCases, <1>2, <1>3, <1>4, <1>5, <1>6, <1>7, <1>8, <1>9

(* Every step keeps what lies in the one-place channels.                   *)
LEMMA ChannelsStep ==
    ASSUME USSDInv, DevicesConfiguration, [B!Next]_(B!vars)
    PROVE  ChannelsInv'
<1>1. USSDType /\ SessionInv /\ ChannelsInv /\ MaxSessions \in Nat
  BY DevicesConfiguration DEF USSDInv, B!BackendAssumption
<1> USE <1>1 DEF B!Session
<1>2. CASE B!Reset
  BY <1>2 DEF B!Reset, USSDType, SessionInv, ChannelsInv, Clean
<1>3. CASE B!DrainReleases
  BY <1>3 DEF B!DrainReleases, USSDType, SessionInv, ChannelsInv, Clean
<1>4. CASE B!Admit
  BY <1>4 DEF B!Admit, USSDType, SessionInv, ChannelsInv, Clean
<1>5. CASE B!Originate
  BY <1>5 DEF B!Originate, B!TimedOut, B!Return, USSDType, SessionInv, ChannelsInv, Clean
<1>6. CASE B!Wait
  BY <1>6 DEF B!Wait, B!TimedOut, B!Return, USSDType, SessionInv, ChannelsInv, Clean
<1>7. ASSUME NEW i \in B!Session, B!Answers(i)
      PROVE  ChannelsInv'
  BY <1>7 DEF B!Answers, B!Fill, USSDType, SessionInv, ChannelsInv, Clean
<1>8. ASSUME NEW i \in B!Session, B!Releases(i)
      PROVE  ChannelsInv'
  BY <1>8 DEF B!Releases, B!Fill, USSDType, SessionInv, ChannelsInv, Clean
<1>9. CASE UNCHANGED B!ussd
  BY <1>9 DEF B!ussd, USSDType, SessionInv, ChannelsInv, Clean
<1>10. QED
  BY USSDCases, <1>2, <1>3, <1>4, <1>5, <1>6, <1>7, <1>8, <1>9

(* The USSD invariant holds in every behaviour of the services.            *)
LEMMA USSDInvariance == B!Spec => []USSDInv
<1>1. B!Init => USSDInv
  BY USSDInit, DevicesConfiguration
<1>2. USSDInv /\ [B!Next]_(B!vars) => USSDInv'
  BY USSDTypeStep, SessionStep, ChannelsStep, DevicesConfiguration DEF USSDInv
<1>3. QED
  BY <1>1, <1>2, PTL DEF B!Spec

(* A session is given its own result, unless a session before it, or it    *)
(* itself, returned early; and it is refused for no release that has come. *)
THEOREM SessionsSound == B!Spec => []USSDSessionsSound
<1>1. ASSUME USSDInv
      PROVE  USSDSessionsSound
  <2>1. B!USSDResultIsOwn
    <3>1. SUFFICES ASSUME NEW r \in results, r[1] # r[2]
                   PROVE  \E i \in hung : i <= r[2]
      BY DEF B!USSDResultIsOwn
    <3>2. PICK i \in hung : ~(i > r[2])
      BY <1>1, <3>1 DEF USSDInv, ChannelsInv, Clean
    <3>3. QED
      BY <1>1, <3>2 DEF USSDInv, ChannelsInv, USSDType
  <2>2. B!RefusalHasReason
    <3>1. await => n \in B!Session
      BY <1>1 DEF USSDInv, SessionInv, USSDType, B!Session
    <3>2. QED
      BY <1>1, <3>1 DEF USSDInv, ChannelsInv, B!RefusalHasReason
  <2>3. QED
    BY <2>1, <2>2 DEF USSDSessionsSound, B!USSDSessionsSound
<1>2. QED
  BY <1>1, USSDInvariance, PTL

-----------------------------------------------------------------------------
(***************************************************************************)
(* SMS behind one index.  What a client that nothing has disturbed is      *)
(* about to delete it has read, or it is gone; and a client that sweeps    *)
(* the storages has left nothing of what it was to erase, but outgoing     *)
(* messages over QMI, in the one it has done.                              *)
(***************************************************************************)
SMSType ==
    /\ DOMAIN store = B!Storage /\ \A s \in B!Storage : DOMAIN store[s] = Index
    /\ DOMAIN job = Client /\ DOMAIN at = Client
    /\ DOMAIN todo = Client /\ DOMAIN doomed = Client
    /\ \A c \in Client : job[c] \in {"read", "delete"} => at[c] \in Index

ReadInv ==
    /\ \A c \in Client : job[c] = "delete" /\ c \notin disturbed =>
          store["NV"][at[c]] \in read \cup {None}
    /\ unread \subseteq astray

(* What may be left of the messages that were to be erased.                *)
Spared == IF backend = "qmi" THEN Outgoing ELSE {}

SweepInv ==
    /\ backend # "qmi" => \A i \in Index : store["SIM"][i] = None
    /\ \A c \in Client : None \notin doomed[c]
    /\ \A c \in Client : todo[c] \in {{}, {"NV"}, B!Storage}
    /\ \A c \in Client, i \in Index :
          todo[c] = {"NV"} /\ store["SIM"][i] \in doomed[c] => store["SIM"][i] \in Spared
    /\ left \subseteq Spared

SMSInv == SMSType /\ ReadInv /\ SweepInv

(* No client has listed a message.                                         *)
LEMMA SMSInit == ASSUME B!Init PROVE SMSInv
BY DEF B!Init, SMSInv, SMSType, ReadInv, SweepInv, B!Storage

(* What a step may do to the stored messages; all others leave them alone. *)
LEMMA SMSCases ==
    ASSUME [B!Next]_(B!vars)
    PROVE  \/ \E m \in Message, s \in B!Storage, i \in Index : B!Arrive(m, s, i)
           \/ \E c \in Client : \/ \E i \in Index : B!ListSMS(c, i)
                                \/ B!ReadSMS(c) \/ B!DeleteSMS(c) \/ B!DeleteAllSMS(c)
                                \/ \E s \in B!Storage : B!DeleteAllOf(c, s)
           \/ UNCHANGED <<B!sms, backend>>
<1>1. B!USSDNext => UNCHANGED <<B!sms, backend>>
  BY DEF B!USSDNext, B!Reset, B!DrainReleases, B!Admit, B!Originate, B!Wait, B!Answers, B!Releases
<1>2. B!SelectionNext => UNCHANGED <<B!sms, backend>>
  BY DEF B!SelectionNext, B!SetManual, B!SetAutomatic
<1>3. QED
  BY <1>1, <1>2 DEF B!Next, B!SMSNext, B!vars

(* DeleteAllOf leaves of a storage what it had there, and no more than it  *)
(* spares if it reports no failure; nothing is left to do after the        *)
(* module's storage.                                                       *)
LEMMA SweptGives ==
    ASSUME SMSType, SweepInv, NEW c \in Client, NEW s \in B!Storage, B!DeleteAllOf(c, s)
    PROVE  /\ \A t \in B!Storage, i \in Index : store'[t][i] \in {store[t][i], None}
           /\ DOMAIN store' = B!Storage /\ \A t \in B!Storage : DOMAIN store'[t] = Index
           /\ backend' = backend /\ DOMAIN doomed' = Client
           /\ todo' = [todo EXCEPT ![c] = IF s = "SIM" THEN {"NV"} ELSE {}]
           /\ \/ /\ doomed' = [doomed EXCEPT ![c] = {}] /\ left' = left
              \/ /\ \A i \in Index : store'[s][i] \in Spared \cup {None}
                 /\ IF s = "SIM" THEN left' = left /\ \A d \in Client : doomed'[d] = doomed[d]
                    ELSE /\ doomed' = [doomed EXCEPT ![c] = {}]
                         /\ \A m \in left' : \/ m \in left
                                             \/ /\ m \in doomed[c]
                                                /\ \E t \in B!Storage, i \in Index :
                                                      store'[t][i] = m
<1>1. /\ s \in todo[c] /\ (s = "SIM" \/ "SIM" \notin todo[c]) /\ backend' = backend
      /\ todo' = [todo EXCEPT ![c] = @ \ {s}]
  BY DEF B!DeleteAllOf
<1>2. PICK gone \in SUBSET B!Swept(s), ok \in BOOLEAN :
         /\ ok => gone = B!Swept(s)
         /\ store' = [store EXCEPT ![s] = [i \in Index |-> IF @[i] \in gone THEN None ELSE @[i]]]
         /\ left' = IF ok /\ todo'[c] = {}
                    THEN left \cup (doomed[c] \cap UNION {B!Range(store'[t]) : t \in B!Storage})
                    ELSE left
         /\ doomed' = [doomed EXCEPT ![c] = IF ok /\ todo'[c] # {} THEN @ ELSE {}]
  BY DEF B!DeleteAllOf
<1>3. todo[c] = IF s = "SIM" THEN B!Storage ELSE {"NV"}
  BY <1>1 DEF SweepInv, B!Storage
<1>4. todo[c] \ {s} = IF s = "SIM" THEN {"NV"} ELSE {}
  BY <1>3 DEF B!Storage
<1>5. /\ todo' = [todo EXCEPT ![c] = IF s = "SIM" THEN {"NV"} ELSE {}]
      /\ todo'[c] = {} <=> s # "SIM"
  BY <1>1, <1>4 DEF SMSType
<1>6. /\ DOMAIN store' = B!Storage /\ \A t \in B!Storage : DOMAIN store'[t] = Index
      /\ \A i \in Index : store'[s][i] = IF store[s][i] \in gone THEN None ELSE store[s][i]
      /\ \A t \in B!Storage : t # s => store'[t] = store[t]
  BY <1>2 DEF SMSType
<1>7. \A t \in B!Storage, i \in Index : store'[t][i] \in {store[t][i], None}
  BY <1>6
<1>8. ASSUME ok, NEW i \in Index
      PROVE  store'[s][i] \in Spared \cup {None}
  <2>1. store[s][i] \in B!Range(store[s])
    BY DEF SMSType, B!Range
  <2>2. store[s][i] \in B!Held(s) \cup {None}
    BY <2>1 DEF B!Held
  <2>3. store[s][i] \in gone \cup Spared \cup {None}
    BY <1>2, <1>8, <2>2 DEF B!Swept, Spared
  <2>4. QED
    BY <1>6, <2>3
<1>9. ASSUME NEW m \in UNION {B!Range(store'[t]) : t \in B!Storage}
      PROVE  \E t \in B!Storage, i \in Index : store'[t][i] = m
  <2>1. PICK t \in B!Storage : m \in B!Range(store'[t])
    OBVIOUS
  <2>2. QED
    BY <1>6, <2>1 DEF B!Range
<1>10. ok /\ s = "SIM" => left' = left /\ \A d \in Client : doomed'[d] = doomed[d]
  BY <1>2, <1>5 DEF SMSType
<1>11. s # "SIM" \/ ~ok => doomed' = [doomed EXCEPT ![c] = {}]
  BY <1>2, <1>5
<1>12. \A m \in left' : \/ m \in left
                       \/ /\ m \in doomed[c]
                          /\ \E t \in B!Storage, i \in Index : store'[t][i] = m
  BY <1>2, <1>9
<1>13. ~ok => left' = left
  BY <1>2
<1>14. DOMAIN doomed' = Client
  BY <1>2 DEF SMSType
<1>15. QED
  BY <1>1, <1>5, <1>6, <1>7, <1>14, <1>8, <1>10, <1>11, <1>12, <1>13

(* Every step keeps the types of the storages.                             *)
LEMMA SMSTypeStep ==
    ASSUME SMSInv, [B!Next]_(B!vars)
    PROVE  SMSType'
<1>1. SMSType /\ SweepInv
  BY DEF SMSInv
<1> USE <1>1 DEF SMSType
<1>2. ASSUME NEW m \in Message, NEW s \in B!Storage, NEW i \in Index, B!Arrive(m, s, i)
      PROVE  SMSType'
  BY <1>2 DEF B!Arrive
<1>3. ASSUME NEW c \in Client, NEW i \in Index, B!ListSMS(c, i)
      PROVE  SMSType'
  BY <1>3 DEF B!ListSMS
<1>4. ASSUME NEW c \in Client, B!ReadSMS(c)
      PROVE  SMSType'
  BY <1>4 DEF B!ReadSMS, B!Done
<1>5. ASSUME NEW c \in Client, B!DeleteSMS(c)
      PROVE  SMSType'
  BY <1>5 DEF B!DeleteSMS, B!Done, B!DeleteFrom
<1>6. ASSUME NEW c \in Client, B!DeleteAllSMS(c)
      PROVE  SMSType'
  BY <1>6 DEF B!DeleteAllSMS
<1>7. ASSUME NEW c \in Client, NEW s \in B!Storage, B!DeleteAllOf(c, s)
      PROVE  SMSType'
  <2>1. /\ DOMAIN store' = B!Storage /\ \A t \in B!Storage : DOMAIN store'[t] = Index
        /\ DOMAIN todo' = Client /\ DOMAIN doomed' = Client
    BY <1>7, SweptGives
  <2>2. /\ at' = at /\ DOMAIN job' = Client
        /\ \A d \in Client : job'[d] \in {"read", "delete"} => job[d] \in {"read", "delete"}
    BY <1>7 DEF B!DeleteAllOf
  <2>3. QED
    BY <2>1, <2>2
<1>8. CASE UNCHANGED B!sms
  BY <1>8 DEF B!sms
<1>9. QED
  BY SMSCases, <1>2, <1>3, <1>4, <1>5, <1>6, <1>7, <1>8

(* Every step keeps what a client knows of the index it is about to erase. *)
LEMMA ReadStep ==
    ASSUME SMSInv, [B!Next]_(B!vars)
    PROVE  ReadInv'
<1>1. SMSType /\ ReadInv /\ SweepInv /\ "NV" \in B!Storage
  BY DEF SMSInv, B!Storage
<1> USE <1>1 DEF SMSType, ReadInv
<1>2. ASSUME NEW m \in Message, NEW s \in B!Storage, NEW i \in Index, B!Arrive(m, s, i)
      PROVE  ReadInv'
  BY <1>2 DEF B!Arrive
<1>3. ASSUME NEW c \in Client, NEW i \in Index, B!ListSMS(c, i)
      PROVE  ReadInv'
  BY <1>3 DEF B!ListSMS
<1>4. ASSUME NEW c \in Client, B!ReadSMS(c)
      PROVE  ReadInv'
  BY <1>4 DEF B!ReadSMS, B!Done, B!Storage
<1>5. ASSUME NEW c \in Client, B!DeleteSMS(c)
      PROVE  ReadInv'
  BY <1>5 DEF B!DeleteSMS, B!Done, B!DeleteFrom
<1>6. ASSUME NEW c \in Client, B!DeleteAllSMS(c)
      PROVE  ReadInv'
  BY <1>6 DEF B!DeleteAllSMS
<1>7. ASSUME NEW c \in Client, NEW s \in B!Storage, B!DeleteAllOf(c, s)
      PROVE  ReadInv'
  <2>1. \A i \in Index : store'["NV"][i] \in {store["NV"][i], None}
    BY <1>7, SweptGives
  <2>2. /\ UNCHANGED <<at, read, unread, disturbed, astray>>
        /\ \A d \in Client : job'[d] = "delete" => job[d] = "delete"
    BY <1>7 DEF B!DeleteAllOf
  <2>3. QED
    BY <2>1, <2>2
<1>8. CASE UNCHANGED B!sms
  BY <1>8 DEF B!sms
<1>9. QED
  BY SMSCases, <1>2, <1>3, <1>4, <1>5, <1>6, <1>7, <1>8

(* Every step keeps what DeleteAllSMS has left so far.                     *)
LEMMA SweepStep ==
    ASSUME SMSInv, [B!Next]_(B!vars)
    PROVE  SweepInv'
<1>1. SMSType /\ SweepInv /\ B!Storage = {"NV", "SIM"}
  BY DEF SMSInv, B!Storage
<1> USE <1>1 DEF SMSType, SweepInv, Spared
<1>2. ASSUME NEW m \in Message, NEW s \in B!Storage, NEW i \in Index, B!Arrive(m, s, i)
      PROVE  SweepInv'
  <2>1. /\ backend' = backend /\ (backend = "qmi" \/ s = "NV")
        /\ store' = [store EXCEPT ![s][i] = m]
        /\ UNCHANGED <<todo, doomed, left>>
    BY <1>2 DEF B!Arrive
  <2>2. \A c \in Client : m \notin doomed[c]
    BY <1>2 DEF B!Arrive, B!Range
  <2>3. QED
    BY <2>1, <2>2
<1>3. ASSUME NEW c \in Client, NEW i \in Index, B!ListSMS(c, i)
      PROVE  SweepInv'
  BY <1>3 DEF B!ListSMS
<1>4. ASSUME NEW c \in Client, B!ReadSMS(c)
      PROVE  SweepInv'
  BY <1>4 DEF B!ReadSMS
<1>5. ASSUME NEW c \in Client, B!DeleteSMS(c)
      PROVE  SweepInv'
  BY <1>5 DEF B!DeleteSMS, B!DeleteFrom
<1>6. ASSUME NEW c \in Client, B!DeleteAllSMS(c)
      PROVE  SweepInv'
  <2>1. /\ UNCHANGED <<store, left, backend>>
        /\ todo' = [todo EXCEPT ![c] = IF backend = "qmi" THEN B!Storage ELSE {"NV"}]
        /\ doomed' = [doomed EXCEPT ![c] = B!Held("NV") \cup B!Held("SIM")]
    BY <1>6 DEF B!DeleteAllSMS
  <2>2. None \notin doomed'[c]
    BY <2>1 DEF B!Held
  <2>3. QED
    BY <2>1, <2>2
<1>7. ASSUME NEW c \in Client, NEW s \in B!Storage, B!DeleteAllOf(c, s)
      PROVE  SweepInv'
  <2>1. /\ \A t \in B!Storage, i \in Index : store'[t][i] \in {store[t][i], None}
        /\ backend' = backend
        /\ todo' = [todo EXCEPT ![c] = IF s = "SIM" THEN {"NV"} ELSE {}]
    BY <1>7, SweptGives
  <2>2. CASE doomed' = [doomed EXCEPT ![c] = {}] /\ left' = left
    BY <2>1, <2>2
  <2>3. CASE /\ \A i \in Index : store'["SIM"][i] \in Spared \cup {None}
             /\ s = "SIM" /\ left' = left
             /\ \A d \in Client : doomed'[d] = doomed[d]
    BY <2>1, <2>3
  <2>4. CASE /\ \A i \in Index : store'["NV"][i] \in Spared \cup {None}
             /\ s = "NV" /\ doomed' = [doomed EXCEPT ![c] = {}]
             /\ \A m \in left' : \/ m \in left
                                 \/ /\ m \in doomed[c]
                                    /\ \E t \in B!Storage, i \in Index : store'[t][i] = m
    <3>1. todo[c] = {"NV"}
      BY <1>7, <2>4 DEF B!DeleteAllOf
    <3>2. ASSUME NEW m \in left', m \notin left
          PROVE  m \in Spared
      <4>1. PICK t \in B!Storage, i \in Index : store'[t][i] = m
        BY <2>4, <3>2
      <4>2. m \in doomed[c] /\ m # None
        BY <2>4, <3>2
      <4>3. CASE t = "NV"
        BY <2>4, <4>1, <4>2, <4>3
      <4>4. CASE t = "SIM"
        <5>1. store["SIM"][i] = m
          BY <2>1, <4>1, <4>2, <4>4
        <5>2. QED
          BY <3>1, <4>2, <5>1
      <4>5. QED
        BY <4>3, <4>4
    <3>3. left' \subseteq Spared'
      BY <2>1, <3>2
    <3>4. QED
      BY <2>1, <2>4, <3>3
  <2>5. QED
    BY <1>7, <2>2, <2>3, <2>4, SweptGives
<1>8. CASE UNCHANGED <<B!sms, backend>>
  BY <1>8 DEF B!sms
<1>9. QED
  BY SMSCases, <1>2, <1>3, <1>4, <1>5, <1>6, <1>7, <1>8

(* The SMS invariant holds in every behaviour of the services.             *)
LEMMA SMSInvariance == B!Spec => []SMSInv
<1>1. B!Init => SMSInv
  BY SMSInit
<1>2. SMSInv /\ [B!Next]_(B!vars) => SMSInv'
  BY SMSTypeStep, ReadStep, SweepStep DEF SMSInv
<1>3. QED
  BY <1>1, <1>2, PTL DEF B!Spec

(* However many clients list, read and delete by index and erase           *)
(* everything at once: what is erased unread was erased by a client whose  *)
(* read fell over to the SIM card, or whose index was filled anew; and     *)
(* DeleteAllSMS reports success with nothing left of what there was, but   *)
(* outgoing messages over QMI.                                             *)
THEOREM ErasedWasRead == B!Spec => []ErasedBackendSMSWasRead
<1>1. SMSInv => ErasedBackendSMSWasRead
  BY DEF SMSInv, ReadInv, SweepInv, Spared, ErasedBackendSMSWasRead, B!ErasedBackendSMSWasRead
<1>2. QED
  BY <1>1, SMSInvariance, PTL

-----------------------------------------------------------------------------

Choice == {"unset", "yes", "no"}
Access == B!RAT \cup {"any"}

(* What SetOperatorSelection gives the device, field by field.             *)
LEMMA KeptFields ==
    ASSUME NEW p \in B!PLMN, NEW pcs \in Choice, NEW rat \in Access
    PROVE  LET s == B!Kept(p, pcs, rat)
               r == B!Normalized(p, pcs, rat) IN
           /\ s # B!Automatic /\ s.mnc = p.mnc
           /\ s.three = IF backend = "qmi" THEN r.three ELSE p.len = 3
           /\ s.rat = IF backend = "mbim" THEN "any" ELSE rat
           /\ r # B!Automatic /\ r.mnc = p.mnc /\ r.len = p.len /\ r.rat = rat
<1> DEFINE s == B!Kept(p, pcs, rat)
           r == B!Normalized(p, pcs, rat)
           three == IF backend = "qmi" THEN r.three ELSE p.len = 3
           access == IF backend = "mbim" THEN "any" ELSE rat
           own == IF pcs = "unset" THEN p.len = 3 ELSE pcs = "yes"
<1>1. r = [mode |-> "manual", mnc |-> p.mnc, len |-> p.len, rat |-> rat, three |-> own]
  BY Zenon DEF B!Normalized
<1>2. s = [mode |-> "manual", mnc |-> p.mnc, three |-> three, rat |-> access]
  BY Zenon DEF B!Kept
<1>3. B!Automatic = [mode |-> "automatic"]
  BY DEF B!Automatic
<1> HIDE DEF r, s, three, access, own
<1>4. s.mnc = p.mnc /\ s.three = three /\ s.rat = access /\ s # B!Automatic
  <2>1. s.mode = "manual" /\ (B!Automatic).mode = "automatic"
    BY <1>2, <1>3
  <2>2. s.mnc = p.mnc /\ s.three = three /\ s.rat = access
    BY <1>2
  <2>3. QED
    BY <2>1, <2>2
<1>5. r.mnc = p.mnc /\ r.len = p.len /\ r.rat = rat /\ r # B!Automatic
  <2>1. r.mode = "manual" /\ (B!Automatic).mode = "automatic"
    BY <1>1, <1>3
  <2>2. r.mnc = p.mnc /\ r.len = p.len /\ r.rat = rat
    BY <1>1
  <2>3. QED
    BY <2>1, <2>2
<1>6. QED
  BY <1>4, <1>5, Zenon DEF r, s, three, access

(* What GetOperatorSelection finds of a selection that is manual.          *)
LEMMA ToldFields ==
    ASSUME NEW s, s # B!Automatic, NEW x \in B!Told(s)
    PROVE  /\ x # B!Automatic /\ x.mnc = s.mnc
           /\ x.three = (s.three \/ s.mnc >= 100)
           /\ x.rat \in B!ReadBack(s)
<1> DEFINE three == s.three \/ s.mnc >= 100
           len == IF three THEN 3 ELSE 2
<1>1. PICK r \in B!ReadBack(s) :
         x = [mode |-> "manual", mnc |-> s.mnc, len |-> len, three |-> three, rat |-> r]
  BY Zenon DEF B!Told
<1> HIDE DEF three, len
<1>2. x.mode = "manual" /\ x.mnc = s.mnc /\ x.three = three /\ x.rat = r
  BY <1>1
<1>3. x # B!Automatic
  <2>1. (B!Automatic).mode = "automatic"
    BY DEF B!Automatic
  <2>2. QED
    BY <1>2, <2>1
<1>4. QED
  BY <1>2, <1>3, Zenon DEF three

(* What a selection reported as done was told is what the device was       *)
(* given, digits and access technology, but where the request contradicts  *)
(* itself, over MBIM, and where AT names no access technology.             *)
(* (SetOperatorSelection, GetOperatorSelection)                            *)
THEOREM SelectionReported == B!Spec => []SelectionAsReported
<1> USE DEF SelectionAsReported
<1>1. B!Init => SelectionAsReported
  BY DEF B!Init, B!SelectionAsReported
<1>2. SelectionAsReported /\ [B!Next]_(B!vars) => SelectionAsReported'
  <2>1. SUFFICES ASSUME SelectionAsReported, [B!Next]_(B!vars)
                 PROVE  SelectionAsReported'
    OBVIOUS
  <2>2. ASSUME NEW p \in B!PLMN, NEW pcs \in Choice, NEW rat \in Access, B!SetManual(p, pcs, rat)
        PROVE  SelectionAsReported'
    <3>1. CASE shown' = None
      BY <3>1 DEF B!SelectionAsReported
    <3>2. CASE /\ backend = "at" /\ backend' = "at" /\ stored' # B!Automatic
               /\ shown' \in B!Told(stored')
      <4>1. /\ shown' # B!Automatic /\ shown'.mnc = stored'.mnc
            /\ shown'.three = (stored'.three \/ stored'.mnc >= 100)
            /\ shown'.rat \in B!ReadBack(stored')
        BY <3>2, ToldFields
      <4>2. shown'.rat \in {"gsm", stored'.rat} \/ stored'.rat = "any"
        BY <3>2, <4>1 DEF B!ReadBack
      <4>3. QED
        BY <3>2, <4>1, <4>2 DEF B!SelectionAsReported, B!SamePLMN
    <3>3. CASE /\ stored' = B!Kept(p, pcs, rat) /\ shown' = B!Normalized(p, pcs, rat)
               /\ backend' = backend
      <4>1. /\ stored' # B!Automatic /\ stored'.mnc = p.mnc
            /\ stored'.three = IF backend = "qmi" THEN shown'.three ELSE p.len = 3
            /\ stored'.rat = IF backend = "mbim" THEN "any" ELSE rat
            /\ shown' # B!Automatic /\ shown'.mnc = p.mnc /\ shown'.len = p.len
            /\ shown'.rat = rat
        BY <3>3, KeptFields
      <4>2. p.mnc \in Nat /\ (p.mnc >= 100 => p.len = 3)
        BY DEF B!PLMN
      <4>3. shown'.three = (p.len = 3) => shown'.three = (stored'.three \/ stored'.mnc >= 100)
        BY <4>1, <4>2
      <4>4. QED
        BY <3>3, <4>1, <4>3 DEF B!SelectionAsReported, B!SamePLMN
    <3>4. QED
      <4>1. \/ shown' = None
            \/ stored' = B!Kept(p, pcs, rat) /\ shown' \in B!Report(p, pcs, rat)
        BY <2>2 DEF B!SetManual
      <4>2. backend' = backend /\ B!Kept(p, pcs, rat) # B!Automatic
        BY <2>2, KeptFields DEF B!SetManual
      <4>3. QED
        BY <3>1, <3>2, <3>3, <4>1, <4>2 DEF B!Report, B!Found
  <2>3. CASE B!SetAutomatic
    <3>1. B!Told(B!Automatic) = {B!Automatic}
      BY DEF B!Told
    <3>2. shown' = None \/ (shown' = B!Automatic /\ stored' = B!Automatic)
      BY <2>3, <3>1 DEF B!SetAutomatic, B!Found
    <3>3. QED
      BY <3>2 DEF B!SelectionAsReported
  <2>4. CASE UNCHANGED <<B!selection, backend>>
    BY <2>1, <2>4 DEF B!selection, B!SelectionAsReported, B!SamePLMN
  <2>5. B!USSDNext \/ B!SMSNext => UNCHANGED <<B!selection, backend>>
    BY DEF B!USSDNext, B!Reset, B!DrainReleases, B!Admit, B!Originate, B!Wait,
           B!Answers, B!Releases, B!SMSNext, B!Arrive, B!ListSMS, B!ReadSMS, B!DeleteSMS,
           B!DeleteAllSMS, B!DeleteAllOf
  <2>6. QED
    BY <2>1, <2>2, <2>3, <2>4, <2>5 DEF B!Next, B!SelectionNext, B!vars, Choice, Access
<1>3. QED
  BY <1>1, <1>2, PTL DEF B!Spec
=============================================================================
