----------------------------- MODULE MbimDevice -----------------------------
(***************************************************************************)
(* pkg/mbim: commands multiplexed over one control channel.  Callers       *)
(* register a transaction, write the command's fragments under writeMu and *)
(* wait for the read loop, which puts the fragments of answers and of      *)
(* indications together, one collector for each transaction number; a      *)
(* monitor takes the indications from a queue.  A caller may also tunnel   *)
(* a QMI UIM session: allocate a client, use it, release it.  The order in *)
(* which fragments are read is that in which the module sends them, which  *)
(* is any: a fragment is read as it is sent.                               *)
(***************************************************************************)
EXTENDS Naturals, Sequences, FiniteSets, SequencesExt

CONSTANTS
    Caller, Nobody,
    IndTx,         \* transaction numbers the module uses for indications
    MaxCollectors, \* maxFragmentCollectors
    IndicationCap, \* capacity of Device.indications
    MaxTx,         \* bound: transactions
    MaxInd         \* bound: indications, malformed messages and failures of the
                   \* transport while the module is there

\* Indications do not use the numbers of transactions.
ASSUME MbimAssumption ==
    /\ MaxCollectors \in Nat /\ MaxTx \in Nat
    /\ IndTx \subseteq Nat \ (1 .. MaxTx)

VARIABLES
    reader,      \* readLoop: "run", "ended"
    transport,   \* "open", "broken", "closed"
    closed,      \* Device.closed
    writing,     \* the holder of writeMu
    nextTx, pending, collector,
    box,         \* results in the channels of the callers
    mpc, tx, stage, \* control state, transaction, purpose of each caller
    opened,      \* Open has returned without error
    client,      \* the QMI client each caller holds: the tx that allocated it
    served,      \* commands the module has not looked at
    out,         \* messages it has begun to send
    clients,     \* QMI clients it has allocated
    lost,        \* history: clients whose allocation or release went wrong
    indications, \* Device.indications
    inds

calls == <<mpc, tx, stage, opened, client>>
modem == <<served, out, clients, lost>>
monitor == <<indications, inds>>
table == <<nextTx, pending, collector, box>>
vars == <<reader, transport, closed, writing, table, calls, modem, monitor>>

Init ==
    /\ reader = "run" /\ transport = "open" /\ closed = FALSE /\ writing = Nobody
    /\ nextTx = 0 /\ pending = {} /\ collector = <<>> /\ box = {}
    /\ mpc = [p \in Caller |-> "idle"] /\ tx = [p \in Caller |-> 0]
    /\ stage = [p \in Caller |-> "none"] /\ client = [p \in Caller |-> 0]
    /\ opened = FALSE
    /\ served = {} /\ out = {} /\ clients = {} /\ lost = {}
    /\ indications = <<>> /\ inds = 0

-----------------------------------------------------------------------------
\* Callers

\* allocTx, registerPending.
Register(p, s) ==
    /\ nextTx < MaxTx /\ nextTx' = nextTx + 1
    /\ pending' = pending \cup {nextTx'}
    /\ tx' = [tx EXCEPT ![p] = nextTx']
    /\ stage' = [stage EXCEPT ![p] = s]
    /\ mpc' = [mpc EXCEPT ![p] = "write"]

\* Open: over a proxy the configuration comes first.  Then any command, or a
\* UIM session.
Begin(p, s) ==
    /\ mpc[p] = "idle"
    /\ s \in IF opened THEN {"plain", "alloc"} ELSE {"config", "open"}
    /\ ~opened => \A q \in Caller : mpc[q] = "idle"
    /\ Register(p, s)
    /\ UNCHANGED <<reader, transport, closed, writing, collector, box, opened, client, modem, monitor>>

\* The session's next command.
GoOn(p, s) ==
    /\ mpc[p] = "next"
    /\ s = CASE stage[p] = "config" -> "open" [] stage[p] = "alloc" -> "use" [] OTHER -> "release"
    /\ Register(p, s)
    /\ UNCHANGED <<reader, transport, closed, writing, collector, box, opened, client, modem, monitor>>

Write(p) ==
    /\ mpc[p] = "write" /\ (writing = Nobody \/ stage[p] = "open")
    /\ mpc' = [mpc EXCEPT ![p] = "writing"]
    /\ writing' = IF stage[p] = "open" THEN writing ELSE p
    /\ UNCHANGED <<reader, transport, closed, table, tx, stage, opened, client, modem, monitor>>

Unlock(p) == writing' = IF writing = p THEN Nobody ELSE writing

Written(p) ==
    /\ mpc[p] = "writing" /\ transport # "closed"
    /\ Unlock(p)
    /\ mpc' = [mpc EXCEPT ![p] = "wait"]
    /\ served' = IF transport = "broken" THEN served
                 ELSE served \cup {[tx |-> tx[p], stage |-> stage[p], client |-> client[p]]}
    /\ UNCHANGED <<reader, transport, closed, table, tx, stage, opened, client, out, clients, lost, monitor>>

\* Nothing is awaited any more.
Settle(p) ==
    /\ tx' = [tx EXCEPT ![p] = 0]
    /\ stage' = [stage EXCEPT ![p] = IF mpc'[p] = "idle" THEN "none" ELSE @]

BugFailed(p) ==
    /\ mpc' = [mpc EXCEPT ![p] = "idle"]
    /\ lost' = lost \cup (IF stage[p] = "alloc" THEN {tx[p]} ELSE {})
    /\ client' = [client EXCEPT ![p] = 0]
    /\ Settle(p)
    /\ UNCHANGED opened

\* An operation ends with an error.  A session that has a client releases it
\* all the same (the deferred releaseUIMClient).
Failed(p) ==
    /\ mpc' = [mpc EXCEPT ![p] = IF stage[p] = "use" THEN "next" ELSE "idle"]
    /\ lost' = lost \cup (CASE transport # "open" -> {}
                            [] stage[p] = "alloc" -> {tx[p]}
                            [] stage[p] = "release" -> {client[p]}
                            [] OTHER -> {})
    /\ client' = [client EXCEPT ![p] = IF stage[p] = "use" THEN @ ELSE 0]
    /\ Settle(p)
    /\ UNCHANGED opened

\* A failure of the transport: the module is gone, or not - a short write, a
\* read without data, a length that is none.
TransportFails ==
    IF transport = "open" THEN inds < MaxInd /\ inds' = inds + 1 ELSE UNCHANGED inds

WriteFails(p) ==
    /\ mpc[p] = "writing" /\ TransportFails
    /\ Unlock(p)
    /\ pending' = pending \ {tx[p]}
    /\ Failed(p)
    /\ UNCHANGED <<reader, transport, closed, nextTx, collector, box, served, out, clients>>
    /\ UNCHANGED indications

Forget(t) == collector' = [x \in DOMAIN collector \ {t} |-> collector[x]]

\* The context ends: removeTransaction.  The release of a client has none.
ContextEnds(p) ==
    /\ mpc[p] = "wait" /\ stage[p] # "release"
    /\ pending' = pending \ {tx[p]}
    /\ Forget(tx[p])
    /\ box' = {r \in box : r.tx # tx[p]}
    /\ Failed(p)
    /\ UNCHANGED <<reader, transport, closed, writing, nextTx, served, out, clients, monitor>>

Receive(p) ==
    /\ mpc[p] = "wait"
    /\ \E r \in box :
         /\ r.tx = tx[p]
         /\ box' = box \ {r}
         /\ IF r.ok THEN
              /\ mpc' = [mpc EXCEPT ![p] = IF stage[p] \in {"config", "alloc", "use"} THEN "next" ELSE "idle"]
              /\ client' = [client EXCEPT ![p] = CASE stage[p] = "alloc" -> tx[p]
                                                   [] stage[p] = "use" -> @ [] OTHER -> 0]
              /\ opened' = (opened \/ stage[p] = "open")
              /\ Settle(p)
              /\ UNCHANGED lost
            ELSE Failed(p)
    /\ UNCHANGED <<reader, transport, closed, writing, nextTx, pending, collector, served, out, clients, monitor>>

\* Close: the message and the transport wait for writeMu.
Close ==
    /\ opened /\ ~closed
    /\ closed' = TRUE
    /\ UNCHANGED <<reader, transport, writing, table, calls, modem, monitor>>

CloseTransport ==
    /\ closed /\ transport # "closed" /\ writing = Nobody
    /\ transport' = "closed"
    /\ served' = {} /\ out' = {} /\ clients' = {} /\ lost' = {}
    /\ UNCHANGED <<reader, closed, writing, table, calls, monitor>>

-----------------------------------------------------------------------------
\* The module

Begun(t, id, kind, n) == [tx |-> t, id |-> id, kind |-> kind, part |-> 1, of |-> n]

\* It carries out a command and begins an answer of one or two fragments.
Serve(c) ==
    /\ c \in served /\ transport = "open"
    /\ served' = served \ {c}
    /\ \E n \in IF c.stage = "open" THEN {1} ELSE {1, 2} :
         out' = out \cup {Begun(c.tx, c.tx, IF c.stage = "open" THEN "open" ELSE "done", n)}
    /\ clients' = CASE c.stage = "alloc" -> clients \cup {c.tx}
                    [] c.stage = "release" -> clients \ {c.client}
                    [] OTHER -> clients
    /\ UNCHANGED <<reader, transport, closed, writing, table, calls, lost, monitor>>

\* An indication; the module ends one before it begins the next of the same
\* number.
Indicate(t) ==
    /\ transport = "open" /\ opened /\ inds < MaxInd
    /\ \A m \in out : m.tx # t
    /\ inds' = inds + 1
    /\ \E n \in {1, 2} : out' = out \cup {Begun(t, MaxTx + inds', "ind", n)}
    /\ UNCHANGED <<reader, transport, closed, writing, table, calls, served, clients, lost, indications>>

\* The module goes, and everything it holds.
Break ==
    /\ transport = "open"
    /\ transport' = "broken"
    /\ served' = {} /\ out' = {} /\ clients' = {} /\ lost' = {}
    /\ UNCHANGED <<reader, closed, writing, table, calls, monitor>>

-----------------------------------------------------------------------------
\* readLoop

Result(t, ok, ids) == [tx |-> t, ok |-> ok, ids |-> ids]

\* deliver, deliverError: to a caller that is still registered.
Deliver(t, ok, ids) ==
    /\ pending' = pending \ {t}
    /\ box' = IF t \in pending THEN box \cup {Result(t, ok, ids)} ELSE box

\* commandCollector: the collectors there may be after it, none if refused.
Collectors(m) ==
    LET new == [x \in DOMAIN collector \cup {m.tx} |->
                  IF x \in DOMAIN collector THEN collector[x] ELSE <<>>]
        idle == DOMAIN collector \ pending IN
    IF m.tx \in DOMAIN collector THEN {collector}
    ELSE IF m.kind = "done" /\ m.tx \notin pending THEN {}
    ELSE IF Cardinality(DOMAIN collector) < MaxCollectors THEN {new}
    ELSE {[x \in DOMAIN new \ {v} |-> new[x]] : v \in idle}

BugExpected(c, m) == c = <<>> \/ (m.part = Len(c) + 1 /\ Head(c).of = m.of)

\* collector.add: fragments come in order, the first one first.
Expected(c, m) == m.part = Len(c) + 1 /\ (c = <<>> \/ Head(c).of = m.of)

\* handleCommandDoneFragment, handleIndicationFragment, OPEN_DONE.
Read(m, malformed) ==
    /\ m \in out /\ reader = "run" /\ transport = "open"
    /\ out' = (out \ {m}) \cup (IF m.part < m.of THEN {[m EXCEPT !.part = @ + 1]} ELSE {})
    /\ IF malformed THEN inds < MaxInd /\ inds' = inds + 1 ELSE UNCHANGED inds
    /\ \/ /\ m.kind = "open"
          /\ Deliver(m.tx, ~malformed, <<m>>)
          /\ UNCHANGED <<collector, indications>>
       \/ /\ m.kind # "open" /\ Collectors(m) = {}
          /\ IF m.kind = "done" THEN Deliver(m.tx, FALSE, <<>>) ELSE UNCHANGED <<pending, box>>
          /\ UNCHANGED <<collector, indications>>
       \/ /\ m.kind # "open"
          /\ \E cs \in Collectors(m) :
               LET c == Append(cs[m.tx], m)
                   ok == ~malformed /\ Expected(cs[m.tx], m)
                   rest == [x \in DOMAIN cs \ {m.tx} |-> cs[x]] IN
               /\ collector' = IF ok /\ m.part < m.of THEN [cs EXCEPT ![m.tx] = c] ELSE rest
               /\ IF m.kind = "done" /\ (~ok \/ m.part = m.of) THEN Deliver(m.tx, ok, c)
                  ELSE UNCHANGED <<pending, box>>
               /\ indications' =
                    IF m.kind = "ind" /\ ok /\ m.part = m.of /\ Len(indications) < IndicationCap
                    THEN Append(indications, c) ELSE indications
    /\ UNCHANGED <<reader, transport, closed, writing, nextTx, calls, served, clients, lost>>

BugReaderEnds ==
    /\ reader = "run" /\ TransportFails
    /\ reader' = "ended"
    /\ pending' = {} /\ collector' = <<>>
    /\ UNCHANGED <<transport, closed, writing, nextTx, box, calls, modem, indications>>

\* failPending; the module may be there yet, with all it holds.
ReaderEnds ==
    /\ reader = "run" /\ TransportFails
    /\ reader' = "ended"
    /\ box' = box \cup {Result(t, FALSE, <<>>) : t \in pending}
    /\ pending' = {} /\ collector' = <<>>
    /\ UNCHANGED <<transport, closed, writing, nextTx, calls, modem, indications>>

\* The monitor takes an indication.
Apply ==
    /\ indications # <<>>
    /\ indications' = Tail(indications)
    /\ UNCHANGED <<reader, transport, closed, writing, table, calls, modem, inds>>

Next ==
    \/ \E p \in Caller :
         \/ \E s \in {"config", "open", "plain", "alloc"} : Begin(p, s)
         \/ \E s \in {"open", "use", "release"} : GoOn(p, s)
         \/ Write(p) \/ Written(p) \/ WriteFails(p) \/ ContextEnds(p) \/ Receive(p)
    \/ \E c \in served : Serve(c)
    \/ \E t \in IndTx : Indicate(t)
    \/ \E m \in out, b \in BOOLEAN : Read(m, b)
    \/ Close \/ CloseTransport \/ Break \/ ReaderEnds \/ Apply

Spec == Init /\ [][Next]_vars

-----------------------------------------------------------------------------

Whole(c) == \A i \in DOMAIN c : c[i].part = i /\ c[i].of = Len(c) /\ c[i].id = c[1].id

\* A result is put together from all the fragments of the caller's own
\* answer, an indication from those of one indication, however the fragments
\* of several messages alternate; and fragments are kept only for callers
\* that wait and for indications.
\* (readLoop, commandCollector, collector.add, removeTransaction)
MessagesAreWhole ==
    /\ \A r \in box : r.ok => Whole(r.ids) /\ r.ids[1].id = r.tx
    /\ \A i \in DOMAIN indications : Whole(indications[i])
    /\ DOMAIN collector \subseteq pending \cup IndTx
    /\ Cardinality(DOMAIN collector) <= MaxCollectors

\* When the read loop ends everybody who waits is told.  Not those who
\* register after it: they wait for their context, and the release of a QMI
\* client, which has none, for ever (see the README).
\* (failPending, registerPending, removeTransaction)
NobodyForgotten ==
    \A p \in Caller : mpc[p] = "wait" /\ tx[p] \notin pending =>
        \E r \in box : r.tx = tx[p]

\* A QMI client the program was given is released by the session that got
\* it, whatever became of the session's command and of the read loop; lost are
\* those whose allocation was not answered in time or to nobody, and those
\* whose release failed.
\* (allocUIMClient, releaseUIMClient, UIMPowerOffSIM, QMIUIMGetCardStatus)
ClientsAccounted ==
    \A c \in clients : c \in lost \/ \E p \in Caller : c \in {client[p], tx[p]}
=============================================================================
