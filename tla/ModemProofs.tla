----------------------------- MODULE ModemProofs -----------------------------
(***************************************************************************)
(* Proofs about the modem manager's command loop (ModemLink) and what is   *)
(* built on it (ModemServices).  Each of MCModem's parts has its inductive *)
(* invariant; a step of another part leaves it alone, or only lets the     *)
(* count of events grow.                                                   *)
(*                                                                         *)
(* The last part is about AnswersInOrder.  Its invariant has four layers:  *)
(* a number is one call's, and is written once (NumberInv); what is on its *)
(* way is about calls that were written (TraceParts, HandParts); an answer *)
(* channel is one call's (BoxInv); and every line on its way has a number  *)
(* that bounds the command it will end (FlowInv), so that an answer that   *)
(* is given fits the caller's command (GivenInv).                          *)
(***************************************************************************)
EXTENDS MCModem, Integers, SequenceTheorems, FiniteSetTheorems, TLAPS

-----------------------------------------------------------------------------
\* Reading SMS

ReadingState == {"idle", "query", "select", "read", "erase", "restore"}

SMSType ==
    /\ selected \in S!Storage
    /\ DOMAIN slot = S!Storage
    /\ jpc \in [Job -> ReadingState]
    /\ want \in [Job -> S!Storage \cup {None}]
    /\ prev \in [Job -> S!Storage \cup {None}]
    /\ check \in {"idle", "erase"}
    /\ \A j \in Job : jpc[j] \in {"query", "select"} => want[j] \in S!Storage

\* What stands at the index in the selected storage has been read, or each of
\* those about to erase is counted among the disturbed.
Covered == slot[selected] \in read \cup garbled \cup {None}

ReadSound ==
    /\ Covered \/ S!Erasing \subseteq disturbed
    /\ erased \subseteq read \cup astray \cup garbled

ReadInv == SMSType /\ ReadSound

\* Nobody is reading.
LEMMA ReadInit == MCInit => ReadInv
BY DEF MCInit, S!Init, ReadInv, SMSType, ReadSound, Covered, ReadingState, S!Storage, S!Erasing

\* The steps of the other parts.
LEMMA ReadFrame ==
    ASSUME ReadInv, UNCHANGED S!sms
    PROVE  ReadInv'
BY DEF ReadInv, SMSType, ReadSound, Covered, S!sms, S!Storage, S!Erasing

\* Selecting another storage disturbs all who are about to erase.
LEMMA SwitchSound ==
    ASSUME ReadInv, NEW s \in S!Storage, S!Switch(s),
           S!Erasing' \subseteq S!Erasing, UNCHANGED <<slot, read, erased, garbled, astray>>
    PROVE  ReadSound'
<1>1. CASE s = selected
  BY <1>1 DEF S!Switch, ReadInv, ReadSound, Covered
<1>2. CASE s # selected
  BY <1>2 DEF S!Switch, ReadInv, ReadSound, Covered
<1> QED
  BY <1>1, <1>2

\* Whoever erases was not disturbed, and erases what was read, or goes astray.
LEMMA EraseSound ==
    ASSUME ReadInv, NEW x \in S!Erasing, S!Erases(x),
           S!Erasing' = S!Erasing \ {x}, UNCHANGED <<selected, read, garbled>>
    PROVE  ReadSound' /\ DOMAIN slot' = S!Storage
<1>1. CASE UNCHANGED <<erased, astray, slot>>
  BY <1>1 DEF S!Erases, ReadInv, ReadSound, Covered, SMSType
<1>2. CASE /\ erased' = erased \cup ({slot[selected]} \ {None})
           /\ astray' = IF x \in disturbed THEN astray \cup ({slot[selected]} \ {None})
                        ELSE astray
           /\ slot' = [slot EXCEPT ![selected] = None]
  <2>1. selected \in DOMAIN slot /\ DOMAIN slot' = S!Storage /\ slot'[selected'] = None
    BY <1>2 DEF ReadInv, SMSType
  <2>2. Covered'
    BY <2>1 DEF Covered
  <2>3. CASE x \in disturbed
    BY <1>2, <2>1, <2>2, <2>3 DEF ReadInv, ReadSound
  <2>4. CASE x \notin disturbed
    <3>1. Covered
      BY <2>4 DEF ReadInv, ReadSound
    <3> QED
      BY <1>2, <2>1, <2>2, <2>4, <3>1 DEF ReadInv, ReadSound, Covered
  <2> QED
    BY <2>3, <2>4
<1> QED
  BY <1>1, <1>2 DEF S!Erases

\* One case for each step of the jobs, of CheckAllSMS and of the module.
LEMMA ReadStep ==
    ASSUME ReadInv, S!SMSNext
    PROVE  ReadInv'
<1>1. ASSUME NEW m \in Message, NEW s \in S!Storage, S!Arrive(m, s)
      PROVE  ReadInv'
  <2>1. SMSType'
    BY <1>1 DEF S!Arrive, S!Busy, ReadInv, SMSType, ReadingState
  <2>2. S!Erasing' = S!Erasing
    BY <1>1 DEF S!Arrive, S!Erasing, S!Busy, ReadInv, SMSType
  <2>3. /\ UNCHANGED <<selected, read, erased, garbled, astray>>
        /\ s # selected => UNCHANGED disturbed /\ slot'[selected] = slot[selected]
        /\ s = selected => disturbed' = disturbed \cup S!Erasing
    BY <1>1 DEF S!Arrive, ReadInv, SMSType
  <2>4. ReadSound'
    BY <2>2, <2>3 DEF ReadInv, ReadSound, Covered
  <2> QED
    BY <2>1, <2>4 DEF ReadInv
<1>2. ASSUME NEW j \in Job, S!Query(j)
      PROVE  ReadInv'
  <2>1. jpc[j] = "query" /\ want[j] \in S!Storage /\ selected \in S!Storage
    BY <1>2 DEF S!Query, S!Step, ReadInv, SMSType
  <2>2. PICK to \in {"read", "select"} : S!Step(j, "query", to)
    BY <1>2 DEF S!Query
  <2>3. prev' \in [Job -> S!Storage \cup {None}]
    BY <1>2, <2>1 DEF S!Query, ReadInv, SMSType
  <2>4. SMSType'
    BY <1>2, <2>1, <2>2, <2>3 DEF S!Query, S!Step, ReadInv, SMSType, ReadingState
  <2>5. S!Erasing' = S!Erasing
    BY <1>2, <2>2 DEF S!Query, S!Step, S!Erasing, ReadInv, SMSType
  <2>6. ReadSound'
    BY <1>2, <2>5 DEF S!Query, ReadInv, ReadSound, Covered
  <2> QED
    BY <2>4, <2>6 DEF ReadInv
<1>3. ASSUME NEW j \in Job, S!Select(j)
      PROVE  ReadInv'
  <2>1. jpc[j] = "select" /\ want[j] \in S!Storage
    BY <1>3 DEF S!Select, S!Step, ReadInv, SMSType
  <2>2. S!Erasing' = S!Erasing
    BY <1>3 DEF S!Select, S!Step, S!Erasing, ReadInv, SMSType
  <2>3. CASE S!Step(j, "select", "read") /\ S!Switch(want[j]) /\ UNCHANGED <<want, prev>>
    <3>1. SMSType'
      BY <1>3, <2>1, <2>3 DEF S!Select, S!Step, S!Switch, ReadInv, SMSType, ReadingState
    <3>2. ReadSound'
      BY <1>3, <2>1, <2>2, <2>3, SwitchSound DEF S!Select
    <3> QED
      BY <3>1, <3>2 DEF ReadInv
  <2>4. CASE /\ S!Step(j, "select", "idle")
             /\ want' = [want EXCEPT ![j] = None] /\ prev' = [prev EXCEPT ![j] = None]
             /\ UNCHANGED <<selected, disturbed>>
    <3>1. SMSType'
      BY <1>3, <2>1, <2>4 DEF S!Select, S!Step, ReadInv, SMSType, ReadingState
    <3>2. ReadSound'
      BY <1>3, <2>2, <2>4 DEF S!Select, ReadInv, ReadSound, Covered
    <3> QED
      BY <3>1, <3>2 DEF ReadInv
  <2> QED
    BY <1>3, <2>3, <2>4 DEF S!Select
<1>4. ASSUME NEW j \in Job, S!ReadMessage(j)
      PROVE  ReadInv'
  <2>1. SMSType'
    BY <1>4 DEF S!ReadMessage, S!Step, ReadInv, SMSType, ReadingState
  <2>2. UNCHANGED <<selected, slot, erased, garbled, disturbed, astray>>
    BY <1>4 DEF S!ReadMessage
  <2>3. ASSUME S!Decoded({slot[selected]})
        PROVE  ReadSound'
    BY <2>2, <2>3 DEF S!Decoded, ReadInv, ReadSound, Covered
  <2>4. ASSUME S!Step(j, "read", "restore"), UNCHANGED read
        PROVE  ReadSound'
    <3>1. S!Erasing' = S!Erasing
      BY <1>4, <2>4 DEF S!ReadMessage, S!Step, S!Erasing, ReadInv, SMSType
    <3> QED
      BY <2>2, <2>4, <3>1 DEF ReadInv, ReadSound, Covered
  <2>5. ReadSound'
    BY <1>4, <2>3, <2>4 DEF S!ReadMessage
  <2> QED
    BY <2>1, <2>5 DEF ReadInv
<1>5. ASSUME NEW j \in Job, S!Erase(j)
      PROVE  ReadInv'
  <2>1. j \in S!Erasing /\ S!Erasing' = S!Erasing \ {j}
    BY <1>5, ModemConfiguration
    DEF S!Erase, S!Step, S!Erasing, S!ServicesAssumption, ReadInv, SMSType
  <2>2. ReadSound' /\ DOMAIN slot' = S!Storage
    BY <1>5, <2>1, EraseSound DEF S!Erase
  <2>3. SMSType'
    BY <1>5, <2>2 DEF S!Erase, S!Step, ReadInv, SMSType, ReadingState
  <2> QED
    BY <2>2, <2>3 DEF ReadInv
<1>6. ASSUME NEW j \in Job, S!Restore(j)
      PROVE  ReadInv'
  <2>1. PICK s \in {selected, IF prev[j] = None THEN selected ELSE prev[j]} : S!Switch(s)
    BY <1>6 DEF S!Restore
  <2>2. s \in S!Storage
    BY <2>1 DEF ReadInv, SMSType
  <2>3. S!Erasing' \subseteq S!Erasing
    BY <1>6 DEF S!Restore, S!Step, S!Erasing, ReadInv, SMSType
  <2>4. SMSType'
    BY <1>6, <2>1, <2>2 DEF S!Restore, S!Step, S!Switch, ReadInv, SMSType, ReadingState
  <2>5. ReadSound'
    BY <1>6, <2>1, <2>2, <2>3, SwitchSound DEF S!Restore
  <2> QED
    BY <2>4, <2>5 DEF ReadInv
<1>7. ASSUME S!ListAll
      PROVE  ReadInv'
  <2>1. SMSType'
    BY <1>7 DEF S!ListAll, ReadInv, SMSType
  <2>2. Covered'
    BY <1>7 DEF S!ListAll, S!Decoded, Covered
  <2>3. erased' = erased /\ astray' = astray
        /\ read \subseteq read' /\ garbled \subseteq garbled'
    BY <1>7 DEF S!ListAll, S!Decoded
  <2> QED
    BY <2>1, <2>2, <2>3 DEF ReadInv, ReadSound
<1>8. ASSUME S!EraseAll
      PROVE  ReadInv'
  <2>1. S!All \in S!Erasing /\ S!Erasing' = S!Erasing \ {S!All}
    BY <1>8, ModemConfiguration DEF S!EraseAll, S!Erasing, S!ServicesAssumption
  <2>2. ReadSound' /\ DOMAIN slot' = S!Storage
    BY <1>8, <2>1, EraseSound DEF S!EraseAll
  <2>3. SMSType'
    BY <1>8, <2>2 DEF S!EraseAll, ReadInv, SMSType
  <2> QED
    BY <2>2, <2>3 DEF ReadInv
<1>9. ASSUME S!Forget
      PROVE  ReadInv'
  BY <1>9 DEF S!Forget, ReadInv, SMSType, ReadSound, Covered, S!Erasing
<1> QED
  BY <1>1, <1>2, <1>3, <1>4, <1>5, <1>6, <1>7, <1>8, <1>9 DEF S!SMSNext

\* However many jobs, arrivals and erasers of everything there are, what the
\* module has erased was read, unless it was listed without its PDU or the
\* eraser's storage or index had changed under it.
\* (readAndProcessSMSFromStorage, switchSMSStorageForRead, CheckAllSMS)
THEOREM ErasedOnlyAstray == MCSpec => []UnreadErasedOnlyAstray
<1>1. ReadInv /\ [MCNext]_<<which, vars, services>> => ReadInv'
  <2> SUFFICES ASSUME ReadInv, [MCNext]_<<which, vars, services>>
               PROVE  ReadInv'
    OBVIOUS
  <2>1. CASE S!SMSNext
    BY <2>1, ReadStep
  <2>2. CASE UNCHANGED S!sms
    BY <2>2, ReadFrame
  <2>3. S!SMSNext \/ UNCHANGED S!sms
    BY Zenon DEF MCNext, services, S!USSDNext, S!StatusNext, S!IdentityNext, S!ExecuteUSSD,
       S!SendUSSD, S!ReceiveUSSD, S!USSDTimesOut, S!NetworkAnswers, S!RefreshStatus,
       S!SubscribeRDY, S!DispatchRDY, S!CardChanges, S!QueryIMSI, S!QueryNumber, S!Ask,
       S!Collected, S!sms
  <2> QED
    BY <2>1, <2>2, <2>3, Zenon
<1>2. ReadInv => UnreadErasedOnlyAstray
  BY Zenon DEF ReadInv, ReadSound, UnreadErasedOnlyAstray, S!UnreadErasedOnlyAstray
<1> QED
  BY ReadInit, <1>1, <1>2, PTL DEF MCSpec

-----------------------------------------------------------------------------
\* USSD

USSDType ==
    /\ events \in Nat
    /\ upc \in [User -> {"idle", "send", "wait"}]
    /\ session \in [User -> Nat]
    /\ ussdChan \in Nat
    /\ pending \subseteq Nat \ {0}
    /\ stray \subseteq Nat
    /\ results \subseteq Nat \X Nat

\* No number is used before its session begins.
Numbered ==
    /\ ussdChan <= events
    /\ \A i \in pending : i <= events
    /\ \A u \in User : session[u] <= events
    /\ \A u \in User : upc[u] # "idle" => session[u] # 0

GivenUpBefore(i) == \E k \in stray : k <= i

\* The session of a user at work is the only one and the newest; it has no
\* answer before it is sent.  Whatever else the network may still answer, or
\* is in the channel such a user looks at, comes after a session that was
\* given up.
SessionAlone ==
    /\ \A u, v \in User : upc[u] # "idle" /\ upc[v] # "idle" => u = v
    /\ \A u \in User : upc[u] # "idle" =>
          /\ ussdChan <= session[u]
          /\ \A i \in pending : i <= session[u]
          /\ ussdChan \in {0, session[u]} \/ GivenUpBefore(ussdChan)
    /\ ussdChan \notin pending
    /\ \A u \in User : upc[u] = "send" => session[u] \notin pending \cup {ussdChan}
    /\ \A i \in pending :
          (\E u \in User : upc[u] = "wait" /\ session[u] = i) \/ GivenUpBefore(i)
    /\ \A r \in results : r[1] = r[2] \/ (r[2] < r[1] /\ GivenUpBefore(r[2]))

SessionInv == USSDType /\ Numbered /\ (together \/ SessionAlone)

\* No session has begun.
LEMMA SessionInit == MCInit => SessionInv
BY DEF MCInit, S!Init, SessionInv, USSDType, Numbered, SessionAlone

\* The other parts only count events.
LEMMA SessionFrame ==
    ASSUME SessionInv, events' \in Nat, events' >= events,
           UNCHANGED <<upc, session, ussdChan, pending, stray, together, results>>
    PROVE  SessionInv'
<1>1. USSDType'
  BY DEF SessionInv, USSDType
<1>2. Numbered'
  <2>1. \A i \in pending : i \in Nat
    BY DEF SessionInv, USSDType
  <2>2. \A u \in User : session[u] \in Nat
    BY DEF SessionInv, USSDType
  <2> QED
    BY <2>1, <2>2 DEF SessionInv, USSDType, Numbered
<1>3. SessionAlone => SessionAlone'
  BY DEF SessionAlone, GivenUpBefore
<1> QED
  BY <1>1, <1>2, <1>3, Zenon DEF SessionInv

\* Every USSD step keeps results in the order of their sessions.
LEMMA USSDStep ==
    ASSUME SessionInv, S!USSDNext
    PROVE  SessionInv'
<1> USE DEF SessionInv
<1>0. /\ \A u \in User : session[u] \in Nat
      /\ \A i \in pending : i \in Nat /\ i # 0
      /\ ussdChan \in Nat /\ events \in Nat
  BY DEF USSDType
<1>1. ASSUME NEW u \in User, S!ExecuteUSSD(u)
      PROVE  SessionInv'
  <2>1. /\ events' = events + 1 /\ ussdChan' = 0
        /\ upc' = [upc EXCEPT ![u] = "send"] /\ session' = [session EXCEPT ![u] = events']
        /\ UNCHANGED <<pending, stray, results>>
        /\ upc[u] = "idle"
    BY <1>1 DEF S!ExecuteUSSD, S!Event
  <2>2. USSDType'
    BY <2>1 DEF USSDType
  <2>3. Numbered'
    BY <1>0, <2>1 DEF Numbered, USSDType
  <2>4. CASE \E v \in User : upc[v] # "idle"
    BY <1>1, <2>2, <2>3, <2>4, Zenon DEF S!ExecuteUSSD
  <2>5. CASE ~\E v \in User : upc[v] # "idle"
    <3>1. ASSUME SessionAlone
          PROVE  SessionAlone'
      <4>1. \A v \in User : v # u => upc'[v] = "idle"
        BY <2>1, <2>5 DEF USSDType
      <4>2. upc'[u] = "send" /\ session'[u] = events + 1
        BY <2>1 DEF USSDType
      <4>3. \A i \in pending' : i <= events /\ GivenUpBefore(i)'
        BY <2>1, <2>5, <3>1 DEF SessionAlone, Numbered, GivenUpBefore
      <4>4. \A r \in results' : r[1] = r[2] \/ (r[2] < r[1] /\ GivenUpBefore(r[2])')
        BY <2>1, <3>1 DEF SessionAlone, GivenUpBefore
      <4> QED
        BY <1>0, <2>1, <4>1, <4>2, <4>3, <4>4 DEF SessionAlone
    <3>2. together' \/ ~together
      BY <1>1, Zenon DEF S!ExecuteUSSD
    <3> QED
      BY <2>2, <2>3, <3>1, <3>2, Zenon
  <2> QED
    BY <2>4, <2>5, Zenon
<1>2. ASSUME NEW u \in User, S!SendUSSD(u)
      PROVE  SessionInv'
  <2>1. /\ upc[u] = "send" /\ UNCHANGED <<ussdChan, results, events, together>>
        /\ pending' \in {pending, pending \cup {session[u]}}
    BY <1>2 DEF S!SendUSSD
  <2>2. \/ /\ upc' = [upc EXCEPT ![u] = "wait"] /\ UNCHANGED <<session, stray>>
           /\ pending' = pending \cup {session[u]}
        \/ /\ upc' = [upc EXCEPT ![u] = "idle"] /\ session' = [session EXCEPT ![u] = 0]
           /\ stray' = stray \cup {session[u]}
    BY <1>2 DEF S!SendUSSD, S!USSDReturn
  <2>3. session[u] # 0
    BY <2>1 DEF Numbered
  <2>4. USSDType'
    <3>1. upc' \in [User -> {"idle", "send", "wait"}] /\ session' \in [User -> Nat]
      BY <2>2 DEF USSDType
    <3>2. pending' \subseteq Nat \ {0} /\ stray' \subseteq Nat
      BY <1>0, <2>1, <2>2, <2>3 DEF USSDType
    <3> QED
      BY <2>1, <3>1, <3>2 DEF USSDType
  <2>5. Numbered'
    BY <1>0, <2>1, <2>2 DEF Numbered, USSDType
  <2>6. ASSUME SessionAlone
        PROVE  SessionAlone'
    <3>1. /\ \A v \in User : v # u => upc[v] = "idle" /\ upc'[v] = "idle"
          /\ stray \subseteq stray' /\ upc'[u] \in {"wait", "idle"}
          /\ upc'[u] = "wait" => session'[u] = session[u]
          /\ upc'[u] = "idle" => session[u] \in stray'
      BY <2>1, <2>2, <2>6 DEF SessionAlone, USSDType
    <3>2. \A i : GivenUpBefore(i) => GivenUpBefore(i)'
      BY <3>1 DEF GivenUpBefore
    <3>3. \A i \in pending' : i \in pending \/ i = session[u]
      BY <2>1
    <3>4. \A i \in pending : GivenUpBefore(i)'
      BY <2>1, <2>6, <3>1, <3>2 DEF SessionAlone
    <3>5. upc'[u] = "idle" => \E k \in stray' : k <= session[u]
      BY <1>0, <3>1
    <3>6. /\ \A v, w \in User : upc'[v] # "idle" /\ upc'[w] # "idle" => v = w
          /\ ussdChan' \notin pending'
      BY <2>1, <2>6, <3>1, <3>3 DEF SessionAlone
    <3>7. ASSUME NEW v \in User, upc'[v] # "idle"
          PROVE  /\ ussdChan' <= session'[v]
                 /\ \A i \in pending' : i <= session'[v]
                 /\ ussdChan' \in {0, session'[v]} \/ \E k \in stray' : k <= ussdChan'
      BY <1>0, <2>1, <2>6, <3>1, <3>2, <3>3, <3>7 DEF SessionAlone, GivenUpBefore
    <3>8. \A i \in pending' :
            (\E v \in User : upc'[v] = "wait" /\ session'[v] = i) \/ GivenUpBefore(i)'
      BY <2>1, <3>1, <3>3, <3>4, <3>5 DEF GivenUpBefore
    <3>9. \A r \in results' : r[1] = r[2] \/ (r[2] < r[1] /\ GivenUpBefore(r[2])')
      BY <2>1, <2>6, <3>2 DEF SessionAlone
    <3>10. \A v \in User : upc'[v] # "send"
      BY <3>1
    <3> QED
      BY <3>6, <3>7, <3>8, <3>9, <3>10 DEF SessionAlone, GivenUpBefore
  <2> QED
    BY <2>1, <2>4, <2>5, <2>6, Zenon
<1>3. ASSUME NEW i \in pending, S!NetworkAnswers(i)
      PROVE  SessionInv'
  <2>1. /\ pending' = pending \ {i}
        /\ ussdChan' = IF ussdChan = 0 THEN i ELSE ussdChan
        /\ UNCHANGED <<upc, session, stray, together, results, events>>
    BY <1>3 DEF S!NetworkAnswers
  <2>2. USSDType'
    BY <1>0, <2>1 DEF USSDType
  <2>3. Numbered'
    BY <1>0, <2>1 DEF Numbered
  <2>4. ASSUME SessionAlone
        PROVE  SessionAlone'
    <3>1. ASSUME NEW u \in User, upc[u] # "idle"
          PROVE  /\ ussdChan' <= session[u]
                 /\ ussdChan' \in {0, session[u]} \/ \E k \in stray : k <= ussdChan'
      <4>1. i = session[u] \/ \E k \in stray : k <= i
        BY <2>4, <3>1 DEF SessionAlone, GivenUpBefore
      <4>2. ussdChan \in {0, session[u]} \/ \E k \in stray : k <= ussdChan
        BY <2>4, <3>1 DEF SessionAlone, GivenUpBefore
      <4> QED
        BY <2>1, <2>4, <3>1, <4>1, <4>2 DEF SessionAlone
    <3>2. ussdChan' \notin pending'
      BY <2>1, <2>4 DEF SessionAlone
    <3>3. \A u \in User : upc[u] = "send" => session[u] \notin pending' \cup {ussdChan'}
      BY <2>1, <2>4 DEF SessionAlone
    <3> QED
      BY <2>1, <2>4, <3>1, <3>2, <3>3 DEF SessionAlone, GivenUpBefore
  <2> QED
    BY <2>1, <2>2, <2>3, <2>4, Zenon
<1>4. ASSUME NEW u \in User, S!ReceiveUSSD(u)
      PROVE  SessionInv'
  <2>1. /\ upc[u] = "wait" /\ ussdChan # 0 /\ ussdChan' = 0
        /\ results' = results \cup {<<session[u], ussdChan>>}
        /\ upc' = [upc EXCEPT ![u] = "idle"] /\ session' = [session EXCEPT ![u] = 0]
        /\ UNCHANGED <<pending, stray, together, events>>
    BY <1>4 DEF S!ReceiveUSSD, S!USSDReturn
  <2>2. USSDType'
    BY <1>0, <2>1 DEF USSDType
  <2>3. Numbered'
    BY <1>0, <2>1 DEF Numbered, USSDType
  <2>4. ASSUME SessionAlone
        PROVE  SessionAlone'
    <3>1. /\ ussdChan <= session[u]
          /\ ussdChan = session[u] \/ GivenUpBefore(ussdChan)
      BY <2>1, <2>4 DEF SessionAlone
    <3>2. \A v \in User : upc'[v] = "idle"
      BY <2>1, <2>4 DEF SessionAlone, USSDType
    <3>3. \A i \in pending : GivenUpBefore(i)
      <4> SUFFICES ASSUME NEW i \in pending, ~GivenUpBefore(i)
                   PROVE  FALSE
        OBVIOUS
      <4>1. i = session[u] /\ i # ussdChan
        BY <2>1, <2>4 DEF SessionAlone
      <4>2. PICK k \in stray : k <= ussdChan
        BY <3>1, <4>1 DEF GivenUpBefore
      <4> QED
        BY <1>0, <3>1, <4>1, <4>2 DEF GivenUpBefore, USSDType
    <3>4. \A r \in results' : r[1] = r[2] \/ (r[2] < r[1] /\ GivenUpBefore(r[2]))
      <4> SUFFICES ASSUME NEW r \in results'
                   PROVE  r[1] = r[2] \/ (r[2] < r[1] /\ GivenUpBefore(r[2]))
        OBVIOUS
      <4>1. CASE r \in results
        BY <2>4, <4>1 DEF SessionAlone
      <4>2. CASE r = <<session[u], ussdChan>>
        BY <1>0, <3>1, <4>2
      <4> QED
        BY <2>1, <4>1, <4>2
    <3>5. ussdChan' \notin pending'
      BY <1>0, <2>1
    <3> QED
      BY <2>1, <3>2, <3>3, <3>4, <3>5 DEF SessionAlone, GivenUpBefore
  <2> QED
    BY <2>1, <2>2, <2>3, <2>4, Zenon
<1>5. ASSUME NEW u \in User, S!USSDTimesOut(u)
      PROVE  SessionInv'
  <2>1. /\ upc[u] = "wait" /\ UNCHANGED <<ussdChan, together, results, events>>
        /\ upc' = [upc EXCEPT ![u] = "idle"] /\ session' = [session EXCEPT ![u] = 0]
        /\ \/ pending' = {} /\ stray' = stray
           \/ pending' = pending /\ stray' = stray \cup {session[u]}
    BY <1>5 DEF S!USSDTimesOut, S!USSDReturn
  <2>2. USSDType'
    <3>1. upc' \in [User -> {"idle", "send", "wait"}] /\ session' \in [User -> Nat]
      BY <2>1 DEF USSDType
    <3>2. pending' \subseteq Nat \ {0} /\ stray' \subseteq Nat
      BY <1>0, <2>1 DEF USSDType
    <3> QED
      BY <2>1, <3>1, <3>2 DEF USSDType
  <2>3. Numbered'
    <3>1. pending' \subseteq pending /\ ussdChan' = ussdChan /\ events' = events
      BY <2>1
    <3>2. \A v \in User : session'[v] <= events /\ (upc'[v] # "idle" => session'[v] # 0)
      BY <1>0, <2>1 DEF Numbered, USSDType
    <3> QED
      BY <3>1, <3>2 DEF Numbered
  <2>4. ASSUME SessionAlone
        PROVE  SessionAlone'
    <3>1. /\ \A v \in User : upc'[v] = "idle"
          /\ \A v \in User : upc[v] = "wait" => v = u
      BY <2>1, <2>4 DEF SessionAlone, USSDType
    <3>2. \A i : GivenUpBefore(i) => GivenUpBefore(i)'
      BY <2>1 DEF GivenUpBefore
    <3>3. \A i \in pending' : GivenUpBefore(i)'
      BY <1>0, <2>1, <2>4, <3>1 DEF SessionAlone, GivenUpBefore
    <3>4. \A r \in results' : r[1] = r[2] \/ (r[2] < r[1] /\ GivenUpBefore(r[2])')
      BY <2>1, <2>4, <3>2 DEF SessionAlone
    <3>5. ussdChan' \notin pending'
      BY <2>1, <2>4 DEF SessionAlone
    <3> QED
      BY <3>1, <3>3, <3>4, <3>5 DEF SessionAlone, GivenUpBefore
  <2> QED
    BY <2>1, <2>2, <2>3, <2>4, Zenon
<1> QED
  BY <1>1, <1>2, <1>3, <1>4, <1>5 DEF S!USSDNext

\* A USSD user is given the result of the user's own session, unless two ran
\* together; after one that was given up and could not be cancelled the
\* results may come one session late, never early.
\* (ExecuteUSSD, handleURC, CancelUSSD)
THEOREM USSDInOrder == MCSpec => []USSDAnswersInOrder
<1>1. SessionInv /\ [MCNext]_<<which, vars, services>> => SessionInv'
  <2> SUFFICES ASSUME SessionInv, [MCNext]_<<which, vars, services>>
               PROVE  SessionInv'
    OBVIOUS
  <2> DEFINE Still == UNCHANGED <<upc, session, ussdChan, pending, stray, together, results>>
  <2>1. events \in Nat
    BY DEF SessionInv, USSDType
  <2>2. \/ S!USSDNext
        \/ Still /\ events' \in {events, events + 1}
    <3>1. S!SMSNext => UNCHANGED <<S!ussd, events>>
      BY Zenon DEF S!SMSNext, S!Arrive, S!Query, S!Select, S!ReadMessage, S!Erase, S!Restore,
         S!ListAll, S!EraseAll, S!Forget
    <3>2. S!StatusNext => UNCHANGED S!ussd /\ events' \in {events, events + 1}
      BY DEF S!StatusNext, S!RefreshStatus, S!SubscribeRDY, S!DispatchRDY, S!Event
    <3>3. S!IdentityNext => UNCHANGED S!ussd /\ events' \in {events, events + 1}
      BY DEF S!IdentityNext, S!CardChanges, S!QueryIMSI, S!QueryNumber, S!Ask, S!Collected,
         S!Event, S!ussd
    <3> QED
      BY <3>1, <3>2, <3>3 DEF MCNext, services, S!ussd
  <2> QED
    BY <2>1, <2>2, USSDStep, SessionFrame
<1>2. SessionInv => USSDAnswersInOrder
  BY DEF SessionInv, SessionAlone, GivenUpBefore, USSDAnswersInOrder, S!USSDAnswersInOrder
<1> QED
  BY SessionInit, <1>1, <1>2, PTL DEF MCSpec

-----------------------------------------------------------------------------
\* The identity of the card

\* Cards are numbered in the order they are put in; 0 stands for none.  What a
\* collection has found is of the card in the module unless it is spoilt; its
\* number is of no earlier card than its IMSI, and unless another collection
\* ended since, of none earlier than the card the cache names.
Found(c) ==
    /\ cpc[c] = "number" => c \in spoilt \/ found[c].imsi = card
    /\ cpc[c] = "iccid" =>
          /\ c \in spoilt \/ (found[c].imsi = card /\ found[c].number = card)
          /\ found[c].number = 0 \/ found[c].number >= found[c].imsi
          /\ c \in overtaken \/ found[c].number = 0 \/ found[c].number >= info.imsi

Info == [imsi : 0 .. card, number : 0 .. card, iccid : 0 .. card]

IdentityType ==
    /\ card \in Nat \ {0}
    /\ info \in Info
    /\ cpc \in [Collector -> {"idle", "number", "iccid"}]
    /\ found \in [Collector -> [imsi : 0 .. card, number : 0 .. card]]

IdentityInv ==
    /\ IdentityType
    /\ \A c \in Collector : Found(c)
    /\ mixed \/ (info.imsi = info.iccid /\ info.imsi = info.number)
    /\ crossed \/ info.number = 0 \/ info.number >= info.imsi

\* No collection has begun.
LEMMA IdentityInit == MCInit => IdentityInv
BY DEF MCInit, S!Init, IdentityInv, IdentityType, Info, Found

\* A query finds what is in the module, or nothing.
LEMMA AskGives ==
    ASSUME IdentityInv, NEW c \in Collector, NEW from, NEW to \in {"number", "iccid"},
           NEW field \in {"imsi", "number"}, S!Ask(c, from, to, field)
    PROVE  /\ IdentityType' /\ UNCHANGED <<card, info, overtaken, mixed, crossed>>
           /\ cpc[c] = from /\ cpc'[c] = to
           /\ \A d \in Collector \ {c} :
                cpc'[d] = cpc[d] /\ found'[d] = found[d] /\ (d \in spoilt => d \in spoilt')
           /\ \E v \in {0, card} :
                /\ found'[c] = [found[c] EXCEPT ![field] = v]
                /\ v = 0 => c \in spoilt'
                /\ c \in spoilt => c \in spoilt'
<1>1. PICK v \in {0, card} :
        /\ found' = [found EXCEPT ![c][field] = v]
        /\ spoilt' = IF v = 0 THEN spoilt \cup {c} ELSE spoilt
  BY DEF S!Ask
<1>2. UNCHANGED <<card, info, overtaken, mixed, crossed>>
  BY DEF S!Ask
<1>3. cpc[c] = from /\ cpc' = [cpc EXCEPT ![c] = to]
  BY DEF S!Ask
<1>4. card \in Nat \ {0} /\ found[c] \in [imsi : 0 .. card, number : 0 .. card]
  BY DEF IdentityInv, IdentityType
<1>5. [found[c] EXCEPT ![field] = v] \in [imsi : 0 .. card, number : 0 .. card]
  BY <1>4
<1>6. found' = [found EXCEPT ![c] = [found[c] EXCEPT ![field] = v]]
  BY <1>1, Zenon
<1>7. IdentityType'
  BY <1>2, <1>3, <1>5, <1>6 DEF IdentityInv, IdentityType, Info
<1>8. found'[c] = [found[c] EXCEPT ![field] = v]
  BY <1>6 DEF IdentityInv, IdentityType
<1>9. \A d \in Collector \ {c} :
        cpc'[d] = cpc[d] /\ found'[d] = found[d] /\ (d \in spoilt => d \in spoilt')
  BY <1>1, <1>3, <1>6 DEF IdentityInv, IdentityType
<1>10. cpc'[c] = to
  BY <1>3 DEF IdentityInv, IdentityType
<1>11. (v = 0 => c \in spoilt') /\ (c \in spoilt => c \in spoilt')
  BY <1>1
<1> QED
  BY <1>2, <1>3, <1>7, <1>8, <1>9, <1>10, <1>11

\* Every step of the collections keeps the fields of one card.
LEMMA IdentityStep ==
    ASSUME IdentityInv, S!IdentityNext
    PROVE  IdentityInv'
<1>0. IdentityType /\ \A c \in Collector : Found(c)
  BY DEF IdentityInv
<1>1. ASSUME S!CardChanges
      PROVE  IdentityInv'
  <2>1. /\ card' = card + 1 /\ UNCHANGED <<info, cpc, found, overtaken, mixed, crossed>>
        /\ \A c \in Collector : cpc[c] # "idle" => c \in spoilt'
    BY <1>1 DEF S!CardChanges
  <2>2. IdentityType'
    <3>1. /\ card' \in Nat \ {0} /\ info' \in Info'
          /\ [imsi : 0 .. card, number : 0 .. card] \subseteq
                [imsi : 0 .. card', number : 0 .. card']
      BY <1>0, <2>1 DEF IdentityType, Info
    <3> QED
      BY <1>0, <2>1, <3>1 DEF IdentityType
  <2>3. \A c \in Collector : Found(c)'
    BY <1>0, <2>1 DEF Found
  <2> QED
    BY <2>1, <2>2, <2>3 DEF IdentityInv
<1>2. ASSUME NEW c \in Collector, S!QueryIMSI(c)
      PROVE  IdentityInv'
  <2>1. S!Ask(c, "idle", "number", "imsi")
    BY <1>2 DEF S!QueryIMSI
  <2>2. /\ IdentityType' /\ UNCHANGED <<card, info, overtaken, mixed, crossed>>
        /\ cpc'[c] = "number"
        /\ \A d \in Collector \ {c} :
             cpc'[d] = cpc[d] /\ found'[d] = found[d] /\ (d \in spoilt => d \in spoilt')
        /\ \E v \in {0, card} :
             found'[c] = [found[c] EXCEPT !["imsi"] = v] /\ (v = 0 => c \in spoilt')
    BY <2>1, AskGives
  <2>3. c \in spoilt' \/ found'[c].imsi = card
    BY <1>0, <2>2 DEF IdentityType
  <2>4. \A d \in Collector : Found(d)'
    BY <1>0, <2>2, <2>3 DEF Found
  <2> QED
    BY <2>2, <2>4 DEF IdentityInv
<1>3. ASSUME NEW c \in Collector, S!QueryNumber(c)
      PROVE  IdentityInv'
  <2>1. S!Ask(c, "number", "iccid", "number")
    BY <1>3 DEF S!QueryNumber
  <2>2. /\ IdentityType' /\ UNCHANGED <<card, info, overtaken, mixed, crossed>>
        /\ cpc[c] = "number" /\ cpc'[c] = "iccid"
        /\ \A d \in Collector \ {c} :
             cpc'[d] = cpc[d] /\ found'[d] = found[d] /\ (d \in spoilt => d \in spoilt')
    BY <2>1, AskGives
  <2>3. PICK v \in {0, card} :
          /\ found'[c] = [found[c] EXCEPT !["number"] = v]
          /\ v = 0 => c \in spoilt'
          /\ c \in spoilt => c \in spoilt'
    BY <2>1, AskGives
  <2>4. /\ card \in Nat /\ info.imsi \in 0 .. card /\ found[c].imsi \in 0 .. card
        /\ found'[c].number = v /\ found'[c].imsi = found[c].imsi
        /\ c \in spoilt \/ found[c].imsi = card
    BY <1>0, <2>2, <2>3 DEF IdentityType, Info, Found
  <2>5. Found(c)'
    BY <2>2, <2>3, <2>4 DEF Found
  <2>6. \A d \in Collector : Found(d)'
    BY <1>0, <2>2, <2>5 DEF Found
  <2> QED
    BY <2>2, <2>6 DEF IdentityInv
<1>4. ASSUME NEW c \in Collector, S!Collected(c)
      PROVE  IdentityInv'
  <2>1. PICK v \in {0, card} : info' = S!Commit(c, v) /\ mixed' = (v = 0 \/ c \in spoilt)
    BY <1>4 DEF S!Collected
  <2>2. /\ card' = card /\ cpc[c] = "iccid" /\ cpc' = [cpc EXCEPT ![c] = "idle"]
        /\ found' = [found EXCEPT ![c] = [imsi |-> 0, number |-> 0]]
        /\ crossed' = (c \in overtaken)
        /\ overtaken' = {d \in Collector \ {c} : cpc[d] # "idle"}
        /\ spoilt' = (spoilt \ {c}) \cup overtaken'
    BY <1>4 DEF S!Collected
  <2>3. /\ card \in Nat \ {0} /\ info \in Info
        /\ found[c] \in [imsi : 0 .. card, number : 0 .. card]
    BY <1>0 DEF IdentityType
  <2>4. info' \in Info'
    BY <2>1, <2>2, <2>3 DEF S!Commit, Info
  <2>5. IdentityType'
    BY <1>0, <2>2, <2>3, <2>4 DEF IdentityType
  <2>6. \A d \in Collector : Found(d)'
    <3>1. ASSUME NEW d \in Collector, d # c
          PROVE  /\ cpc'[d] = cpc[d] /\ found'[d] = found[d]
                 /\ cpc[d] # "idle" => d \in overtaken' /\ d \in spoilt'
      BY <1>0, <2>2, <3>1 DEF IdentityType
    <3>2. cpc'[c] = "idle"
      BY <1>0, <2>2 DEF IdentityType
    <3> QED
      BY <1>0, <3>1, <3>2 DEF Found
  <2>7. mixed' \/ (info'.imsi = info'.iccid /\ info'.imsi = info'.number)
    <3>1. v = 0 \/ c \in spoilt \/ (found[c].imsi = card /\ found[c].number = card /\ v = card)
      BY <1>0, <2>2 DEF Found
    <3>2. CASE found[c].imsi = card /\ found[c].number = card /\ v = card
      BY <2>1, <2>3, <3>2 DEF S!Commit
    <3> QED
      BY <2>1, <3>1, <3>2
  <2>8. crossed' \/ info'.number = 0 \/ info'.number >= info'.imsi
    <3>1. /\ found[c].number = 0 \/ found[c].number >= found[c].imsi
          /\ c \in overtaken \/ found[c].number = 0 \/ found[c].number >= info.imsi
      BY <1>0, <2>2 DEF Found
    <3> QED
      BY <2>1, <2>2, <3>1 DEF S!Commit
  <2> QED
    BY <2>5, <2>6, <2>7, <2>8, Zenon DEF IdentityInv
<1> QED
  BY <1>1, <1>2, <1>3, <1>4, Zenon DEF S!IdentityNext

\* The cached identity is that of one card after a collection in which
\* nothing failed, the card stayed and no other collection ended; and the
\* number is of no earlier card than the IMSI unless another collection ended
\* during the last one.
\* (collectDeviceInfo, initModem, RefreshDeviceInfo)
THEOREM IdentitySound == MCSpec => []IdentityIsOneCards
<1>1. IdentityInv /\ [MCNext]_<<which, vars, services>> => IdentityInv'
  <2>1. S!SMSNext \/ S!USSDNext \/ S!StatusNext => UNCHANGED S!identity
    BY Zenon DEF S!SMSNext, S!Arrive, S!Query, S!Select, S!ReadMessage, S!Erase, S!Restore,
       S!ListAll, S!EraseAll, S!Forget, S!USSDNext, S!StatusNext, S!ExecuteUSSD, S!SendUSSD,
       S!ReceiveUSSD, S!USSDTimesOut, S!NetworkAnswers, S!RefreshStatus, S!SubscribeRDY,
       S!DispatchRDY
  <2>2. UNCHANGED S!identity /\ IdentityInv => IdentityInv'
    <3>1. SUFFICES ASSUME UNCHANGED <<card, info, cpc, found, spoilt, overtaken, mixed, crossed>>,
                          IdentityInv
                   PROVE  IdentityInv'
      BY DEF S!identity
    <3> QED
      BY <3>1 DEF IdentityInv, IdentityType, Info, Found
  <2>3. [MCNext]_<<which, vars, services>> => S!IdentityNext \/ UNCHANGED S!identity
    BY <2>1, Zenon DEF MCNext, services, S!identity
  <2> QED
    BY <2>2, <2>3, IdentityStep, Zenon
<1>2. IdentityInv => IdentityIsOneCards
  BY DEF IdentityInv, IdentityIsOneCards, S!IdentityIsOneCards, S!NumberIsNotStale
<1> QED
  BY IdentityInit, <1>1, <1>2, PTL DEF MCSpec

-----------------------------------------------------------------------------
\* The command loop

Lanes == {"high", "normal"}
Lines == {"ok", "prompt", "cmgs", "urc", "error"}
Heards == [n : Nat, t : Lines]
Writes == [n : Nat, t : {"normal", "high", "sms", "text", "esc"}]
Answers == [box : Pooled \cup Nat, d : Nat, t : Lines \cup {"timeout"}]

LinkType ==
    /\ told \in Nat
    /\ loop \in {"first", "second", "ended", "panicked"}
    /\ reader \in {"run", "failing", "dead"}
    /\ queue \in [Lanes -> Seq(Requests)]
    /\ hand \in Requests \cup {Nothing}
    /\ rx \in Seq(Heards)
    /\ wire \in Seq(Writes)
    /\ prompting \in Nat
    /\ inbox \subseteq Answers
    /\ pc \in [Caller -> {"idle", "send", "wait"}]
    /\ call \in [Caller -> Requests \cup {Nothing}]
    /\ \A p \in Caller : pc[p] # "idle" => call[p] \in Requests
    /\ order \in Seq(Nat)
    /\ calls \in Nat

\* What a request is made of; its kind says whose its channel is.
LEMMA RequestFields ==
    ASSUME NEW r \in Requests
    PROVE  /\ r.n \in Nat /\ r.kind \in {"normal", "high", "sms"} /\ r.box \in Pooled \cup Nat
           /\ r # Nothing
           /\ r.kind = "sms" => r.box = r.n
           /\ r.kind # "sms" => r.box \in Pooled /\ r.box \notin Nat
BY LinkAssumption DEF Requests

\* The initial state has the types.
LEMMA LinkTypeInit == MCInit => LinkType
<1> SUFFICES ASSUME MCInit
             PROVE  LinkType
  OBVIOUS
<1>1. /\ queue = [l \in {"high", "normal"} |-> <<>>] /\ hand = Nothing
      /\ told = 0 /\ loop = "first" /\ reader = "run" /\ rx = <<>> /\ wire = <<>> /\ prompting = 0
      /\ inbox = {} /\ pc = [p \in Caller |-> "idle"] /\ call = [p \in Caller |-> Nothing]
      /\ order = <<>> /\ calls = 0
  BY DEF MCInit, Init
<1>2. queue \in [Lanes -> Seq(Requests)] /\ rx \in Seq(Heards) /\ wire \in Seq(Writes) /\ order \in Seq(Nat)
  BY <1>1 DEF Lanes
<1> QED
  BY <1>1, <1>2 DEF LinkType

\* What the lines of a caller's request say.
LEMMA LeaveType ==
    ASSUME LinkType, NEW p \in Caller, Leave(p)
    PROVE  /\ inbox' \subseteq Answers
           /\ pc' \in [Caller -> {"idle", "send", "wait"}]
           /\ call' \in [Caller -> Requests \cup {Nothing}]
           /\ \A q \in Caller : pc'[q] # "idle" => call'[q] \in Requests
BY DEF LinkType, Leave

\* Every step keeps the types.
LEMMA LinkTypeStep == LinkType /\ Next => LinkType'
<1> SUFFICES ASSUME LinkType, Next
             PROVE  LinkType'
  OBVIOUS
<1> USE DEF link, loops, module, callers, hist, bounds
<1>1. ASSUME NEW p \in Caller, NEW k \in Kind, Check(p, k)
      PROVE  LinkType'
  <2>1. PICK box \in IF k = "sms" THEN {calls + 1} ELSE Pooled \ InUse :
          call' = [call EXCEPT ![p] = Request(p, k, box)]
    BY <1>1 DEF Check
  <2>2. Request(p, k, box) \in Requests
    BY <2>1, LinkAssumption DEF Request, Requests, LinkType
  <2>3. /\ pc' = [pc EXCEPT ![p] = "send"] /\ calls' = calls + 1
        /\ UNCHANGED <<told, loop, reader, queue, hand, rx, wire, prompting, inbox, order>>
    BY <1>1 DEF Check
  <2>4. /\ pc' \in [Caller -> {"idle", "send", "wait"}]
        /\ call' \in [Caller -> Requests \cup {Nothing}]
        /\ \A q \in Caller : pc'[q] # "idle" => call'[q] \in Requests
    BY <2>1, <2>2, <2>3 DEF LinkType
  <2> QED
    BY <2>3, <2>4 DEF LinkType
<1>2. ASSUME NEW p \in Caller, Enqueue(p)
      PROVE  LinkType'
  <2>1. call[p] \in Requests /\ Lane(call[p]) \in Lanes
    BY <1>2 DEF Enqueue, LinkType, Lane, Lanes
  <2>2. queue' = [queue EXCEPT ![Lane(call[p])] = Append(queue[Lane(call[p])], call[p])]
    BY <1>2 DEF Enqueue
  <2>3. queue' \in [Lanes -> Seq(Requests)]
    BY <2>1, <2>2, AppendProperties DEF LinkType
  <2>4. /\ pc' = [pc EXCEPT ![p] = "wait"]
        /\ UNCHANGED <<told, loop, reader, hand, rx, wire, prompting, inbox, order, call, calls>>
    BY <1>2 DEF Enqueue
  <2>5. /\ pc' \in [Caller -> {"idle", "send", "wait"}]
        /\ \A q \in Caller : pc'[q] # "idle" => call'[q] \in Requests
    BY <2>1, <2>4 DEF LinkType
  <2> QED
    BY <2>3, <2>4, <2>5 DEF LinkType
<1>3. ASSUME NEW p \in Caller, SendFails(p) \/ Receive(p) \/ GiveUp(p)
      PROVE  LinkType'
  <2>1. /\ Leave(p)
        /\ UNCHANGED <<told, loop, reader, queue, hand, rx, wire, prompting, order, calls>>
    BY <1>3 DEF SendFails, Receive, GiveUp
  <2> QED
    BY <2>1, LeaveType DEF LinkType
<1>4. ASSUME NEW l \in {"high", "normal"}, Take(l)
      PROVE  LinkType'
  <2> DEFINE r == Head(queue[l])
  <2>1. queue[l] \in Seq(Requests) /\ queue[l] # <<>>
    BY <1>4 DEF Take, LinkType, Lanes
  <2>2. r \in Requests /\ Tail(queue[l]) \in Seq(Requests)
    BY <2>1, HeadTailProperties
  <2>3. /\ queue' = [queue EXCEPT ![l] = Tail(queue[l])] /\ loop' = "first"
        /\ UNCHANGED <<reader, rx, prompting, pc, call, calls>>
    BY <1>4 DEF Take
  <2>4. queue' \in [Lanes -> Seq(Requests)]
    BY <2>2, <2>3 DEF LinkType
  <2>5. CASE /\ hand' = r /\ wire' = Append(wire, [n |-> r.n, t |-> r.kind])
             /\ order' = Append(order, r.n)
             /\ UNCHANGED <<link, inbox, trouble>>
    <3>1. [n |-> r.n, t |-> r.kind] \in Writes /\ r.n \in Nat
      BY <2>2, RequestFields DEF Writes
    <3>2. wire' \in Seq(Writes) /\ order' \in Seq(Nat)
      BY <2>5, <3>1, AppendProperties DEF LinkType
    <3> QED
      BY <2>2, <2>3, <2>4, <2>5, <3>2 DEF LinkType
  <2>6. CASE /\ Answer(r, 0, "error")
             /\ FailUnlessStopped \/ UNCHANGED link
             /\ UNCHANGED <<hand, asked, wire, order>>
    <3>1. inbox' \subseteq Answers
      BY <2>2, <2>6, RequestFields DEF Answer, Answers, Lines, LinkType
    <3>2. told' \in Nat
      BY <2>6 DEF FailUnlessStopped, LinkType
    <3> QED
      BY <2>3, <2>4, <2>6, <3>1, <3>2 DEF LinkType
  <2> QED
    BY <1>4, <2>5, <2>6 DEF Take
<1>5. ASSUME Stop \/ Second \/ SeesStop
      PROVE  LinkType'
  <2>1. /\ loop' \in {"first", "second", "ended", "panicked"}
        /\ UNCHANGED <<told, reader, queue, hand, rx, wire, prompting, inbox, pc, call, order, calls>>
    BY <1>5 DEF Stop, Second, SeesStop, LinkType
  <2> QED
    BY <2>1 DEF LinkType
<1>6. ASSUME Idle \/ LoopPanics
      PROVE  LinkType'
  <2>1. Tail(rx) \in Seq(Heards)
    BY <1>6, HeadTailProperties DEF Idle, LoopPanics, LinkType
  <2>2. /\ rx' = Tail(rx) /\ hand' \in {hand, Nothing}
        /\ loop' \in {"first", "ended", "panicked"} /\ told' \in {told, told + 1}
        /\ UNCHANGED <<reader, queue, wire, prompting, inbox, pc, call, order, calls>>
    BY <1>6 DEF Idle, LoopPanics
  <2> QED
    BY <2>1, <2>2 DEF LinkType
<1>7. ASSUME Line
      PROVE  LinkType'
  <2> DEFINE m == Head(rx)
  <2>1. m \in Heards /\ Tail(rx) \in Seq(Heards)
    BY <1>7, HeadTailProperties DEF Line, LinkType
  <2>2. hand \in Requests
    BY <1>7 DEF Line, LinkType
  <2>3. hand' \in {hand, Nothing} /\ inbox' \subseteq Answers
    <3>1. CASE UNCHANGED <<hand, inbox>>
      BY <3>1 DEF LinkType
    <3>2. CASE hand' = Nothing /\ Answer(hand, m.n, m.t)
      BY <2>1, <2>2, <3>2, RequestFields DEF Answer, Answers, Heards, LinkType
    <3> QED
      BY <1>7, <3>1, <3>2 DEF Line
  <2>4. told' \in Nat
    BY <1>7 DEF Line, FailUnlessStopped, LinkType
  <2>5. wire' \in Seq(Writes)
    <3>1. [n |-> hand.n, t |-> "text"] \in Writes
      BY <2>2, RequestFields DEF Writes
    <3>2. wire \in Seq(Writes)
      BY DEF LinkType
    <3>3. Append(wire, [n |-> hand.n, t |-> "text"]) \in Seq(Writes)
      BY <3>1, <3>2, AppendProperties
    <3> QED
      BY <1>7, <3>2, <3>3 DEF Line
  <2>6. rx' = Tail(rx) /\ UNCHANGED <<loop, reader, prompting, queue, pc, call, order, calls>>
    BY <1>7 DEF Line
  <2> QED
    BY <2>1, <2>2, <2>3, <2>4, <2>5, <2>6 DEF LinkType
<1>8. ASSUME TimeOut
      PROVE  LinkType'
  <2>1. hand \in Requests
    BY <1>8 DEF TimeOut, LinkType
  <2>2. inbox' \subseteq Answers
    BY <1>8, <2>1, RequestFields DEF TimeOut, Answer, Answers, LinkType
  <2>3. wire' \in Seq(Writes)
    <3>1. [n |-> hand.n, t |-> "esc"] \in Writes
      BY <2>1, RequestFields DEF Writes
    <3>2. wire \in Seq(Writes)
      BY DEF LinkType
    <3>3. Append(wire, [n |-> hand.n, t |-> "esc"]) \in Seq(Writes)
      BY <3>1, <3>2, AppendProperties
    <3> QED
      BY <1>8, <3>2, <3>3 DEF TimeOut
  <2>4. told' \in Nat
    BY <1>8 DEF TimeOut, FailUnlessStopped, LinkType
  <2>5. /\ hand' = Nothing
        /\ UNCHANGED <<loop, reader, rx, prompting, queue, pc, call, order, calls>>
    BY <1>8 DEF TimeOut
  <2> QED
    BY <2>2, <2>3, <2>4, <2>5 DEF LinkType
<1>9. ASSUME ModuleReads \/ URC \/ ReadFails \/ ReportError \/ ReaderPanics
      PROVE  LinkType'
  <2>1. wire' \in Seq(Writes) /\ (wire # <<>> => Head(wire) \in Writes)
    BY <1>9, HeadTailProperties DEF LinkType, ModuleReads, URC, ReadFails, ReportError, ReaderPanics
  <2>2. prompting' \in Nat
    BY <1>9, <2>1 DEF LinkType, ModuleReads, URC, ReadFails, ReportError, ReaderPanics, Writes
  <2>3. rx' \in Seq(Heards)
    <3>1. \/ rx' = rx
          \/ \E n \in Nat, t \in Lines : rx' = Append(rx, [n |-> n, t |-> t])
      BY <1>9, <2>1 DEF LinkType, ModuleReads, URC, ReadFails, ReportError, ReaderPanics, Heard, Lines, Writes
    <3>2. rx \in Seq(Heards)
      BY DEF LinkType
    <3>3. \A n \in Nat, t \in Lines : Append(rx, [n |-> n, t |-> t]) \in Seq(Heards)
      <4> SUFFICES ASSUME NEW n \in Nat, NEW t \in Lines
                   PROVE  Append(rx, [n |-> n, t |-> t]) \in Seq(Heards)
        OBVIOUS
      <4>1. [n |-> n, t |-> t] \in Heards
        BY DEF Heards
      <4> QED
        BY <3>2, <4>1, AppendProperties
    <3> QED
      BY <3>1, <3>2, <3>3
  <2>4. /\ reader' \in {reader, "failing", "dead"}
        /\ UNCHANGED <<told, loop, queue, hand, inbox, pc, call, order, calls>>
    BY <1>9 DEF ModuleReads, URC, ReadFails, ReportError, ReaderPanics
  <2> QED
    BY <2>1, <2>2, <2>3, <2>4 DEF LinkType
<1> QED
  BY <1>1, <1>2, <1>3, <1>4, <1>5, <1>6, <1>7, <1>8, <1>9, Zenon DEF Next

\* A step of the other parts leaves the link alone.
LEMMA LinkSteps == [MCNext]_<<which, vars, services>> => Next \/ UNCHANGED vars
BY Zenon DEF MCNext

\* The types hold in every behaviour.
LEMMA LinkTypes == MCSpec => []LinkType
<1>1. UNCHANGED vars /\ LinkType => LinkType'
  BY DEF vars, link, loops, module, callers, hist, bounds, LinkType
<1> QED
  BY <1>1, LinkTypeInit, LinkTypeStep, LinkSteps, PTL DEF MCSpec

\* A manager that has stopped stays so.
LEMMA StopStays == Next \/ UNCHANGED vars => (stop => stop')
<1> USE DEF link, loops, module, callers, hist, bounds
<1>1. ASSUME Next, stop
      PROVE  stop'
  <2>1. \A p \in Caller, k \in Kind : Check(p, k) => stop' = stop
    BY DEF Check
  <2>2. \A p \in Caller : Enqueue(p) \/ SendFails(p) \/ Receive(p) \/ GiveUp(p) => stop' = stop
    BY DEF Enqueue, SendFails, Receive, GiveUp
  <2>3. \A l \in {"high", "normal"} : Take(l) => stop' = stop \/ stop' = TRUE
    BY DEF Take, FailUnlessStopped
  <2>4. Stop \/ Second \/ SeesStop \/ Idle \/ Line \/ TimeOut => stop' = stop \/ stop' = TRUE
    BY DEF Stop, Second, SeesStop, Idle, Line, TimeOut, FailUnlessStopped
  <2>5. LoopPanics \/ ModuleReads \/ URC \/ ReadFails \/ ReportError \/ ReaderPanics => stop' = stop
    BY DEF LoopPanics, ModuleReads, URC, ReadFails, ReportError, ReaderPanics
  <2>6. stop' = stop \/ stop' = TRUE
    BY <1>1, <2>1, <2>2, <2>3, <2>4, <2>5 DEF Next
  <2> QED
    BY <1>1, <2>6, Zenon
<1>2. UNCHANGED vars => stop' = stop
  BY DEF vars
<1> QED
  BY <1>1, <1>2, Zenon

-----------------------------------------------------------------------------
\* A link that is dead

\* The watchdog has counted the commands that could not be heard, and nothing
\* more comes that would reset it.
DeathInv ==
    /\ told \in Nat /\ streak \in Nat
    /\ IsFiniteSet(unheard) /\ Cardinality(unheard) <= streak
    /\ unheard # {} => reader = "dead" /\ rx = <<>>
    /\ Cardinality(unheard) >= Threshold => stop
    /\ by = "itself" => told > 0

\* Whoever stops the manager but its owner tells the owner.
LEMMA ToldStays ==
    ASSUME DeathInv, Next \/ UNCHANGED vars
    PROVE  told' \in Nat /\ (by' = "itself" => told' > 0)
<1> USE DEF link, loops, module, callers, hist, bounds
<1>1. told \in Nat /\ (by = "itself" => told > 0)
  BY DEF DeathInv
<1>2. CASE UNCHANGED <<told, by>>
  BY <1>1, <1>2
<1>3. CASE FailUnlessStopped
  BY <1>1, <1>3 DEF FailUnlessStopped
<1>4. ASSUME NEW p \in Caller, NEW k \in Kind, Check(p, k)
      PROVE  UNCHANGED <<told, by>>
  BY <1>4 DEF Check
<1>5. ASSUME NEW p \in Caller, Enqueue(p) \/ SendFails(p) \/ Receive(p) \/ GiveUp(p)
      PROVE  UNCHANGED <<told, by>>
  BY <1>5 DEF Enqueue, SendFails, Receive, GiveUp
<1>6. ASSUME NEW l \in {"high", "normal"}, Take(l)
      PROVE  FailUnlessStopped \/ UNCHANGED <<told, by>>
  BY <1>6 DEF Take
<1>7. Line \/ TimeOut => FailUnlessStopped \/ UNCHANGED <<told, by>>
  BY DEF Line, TimeOut
<1>8. CASE Stop
  BY <1>1, <1>8 DEF Stop
<1>9. CASE Idle
  BY <1>1, <1>9 DEF Idle
<1>10. \/ Second \/ SeesStop \/ LoopPanics
       \/ ModuleReads \/ URC \/ ReadFails \/ ReportError \/ ReaderPanics \/ UNCHANGED vars
       => UNCHANGED <<told, by>>
  BY DEF Second, SeesStop, LoopPanics, ModuleReads, URC, ReadFails, ReportError, ReaderPanics, vars
<1> QED
  BY <1>2, <1>3, <1>4, <1>5, <1>6, <1>7, <1>8, <1>9, <1>10 DEF Next

\* Only a command of normal priority whose timer fires is counted, in unheard
\* and by the watchdog.
LEMMA DeathStep ==
    ASSUME DeathInv, Next \/ UNCHANGED vars
    PROVE  DeathInv'
<1> USE DEF link, loops, module, callers, hist, bounds
<1>1. told' \in Nat /\ (by' = "itself" => told' > 0)
  BY ToldStays
<1>2. stop => stop'
  BY StopStays
<1>3. /\ streak \in Nat /\ IsFiniteSet(unheard) /\ Threshold \in Nat \ {0}
      /\ Cardinality(unheard) \in Nat /\ Cardinality(unheard) <= streak
      /\ unheard # {} => reader = "dead" /\ rx = <<>>
      /\ Cardinality(unheard) >= Threshold => stop
  BY FS_CardinalityType, LinkAssumption DEF DeathInv
<1>4. CASE UNCHANGED <<streak, unheard, reader, rx>>
  BY <1>1, <1>2, <1>3, <1>4 DEF DeathInv
<1>5. ASSUME unheard = {}, unheard' = unheard, streak' \in Nat
      PROVE  DeathInv'
  <2>1. IsFiniteSet(unheard') /\ Cardinality(unheard') = 0
    BY <1>5, FS_EmptySet
  <2> QED
    BY <1>1, <1>3, <1>5, <2>1 DEF DeathInv
<1>6. ASSUME NEW p \in Caller, NEW k \in Kind, Check(p, k)
      PROVE  UNCHANGED <<streak, unheard, reader, rx>>
  BY <1>6 DEF Check
<1>7. ASSUME NEW p \in Caller, Enqueue(p) \/ SendFails(p) \/ Receive(p) \/ GiveUp(p)
      PROVE  UNCHANGED <<streak, unheard, reader, rx>>
  BY <1>7 DEF Enqueue, SendFails, Receive, GiveUp
<1>8. ASSUME NEW l \in {"high", "normal"}, Take(l)
      PROVE  UNCHANGED <<streak, unheard, reader, rx>>
  BY <1>8 DEF Take
<1>9. Stop \/ Second \/ SeesStop \/ UNCHANGED vars => UNCHANGED <<streak, unheard, reader, rx>>
  BY DEF Stop, Second, SeesStop, vars
<1>10. ASSUME Idle \/ Line \/ LoopPanics
       PROVE  DeathInv'
  <2>1. rx # <<>> /\ unheard' = unheard /\ streak' \in {streak, 0}
    BY <1>10 DEF Idle, Line, LoopPanics
  <2> QED
    BY <1>3, <1>5, <2>1
<1>11. ASSUME ModuleReads \/ URC \/ ReadFails \/ ReportError \/ ReaderPanics
       PROVE  DeathInv'
  <2>1. reader # "dead" /\ UNCHANGED <<unheard, streak>>
    BY <1>11 DEF ModuleReads, URC, ReadFails, ReportError, ReaderPanics
  <2> QED
    BY <1>3, <1>5, <2>1
<1>12. ASSUME TimeOut
       PROVE  DeathInv'
  <2>1. UNCHANGED <<reader, rx>> /\ (Trips(hand) => stop')
    BY <1>12 DEF TimeOut, FailUnlessStopped
  <2>2. streak' = (IF High(hand) THEN streak ELSE streak + 1) /\ streak' \in Nat
    BY <1>3, <1>12 DEF TimeOut
  <2>3. CASE unheard' = unheard
    BY <1>1, <1>2, <1>3, <2>1, <2>2, <2>3 DEF DeathInv
  <2>4. CASE unheard' # unheard
    <3>1. /\ reader = "dead" /\ rx = <<>> /\ ~High(hand)
          /\ unheard' = unheard \cup {hand.n} /\ hand.n \notin unheard
      BY <1>12, <2>4 DEF TimeOut
    <3>2. IsFiniteSet(unheard') /\ Cardinality(unheard') = Cardinality(unheard) + 1
      BY <1>3, <3>1, FS_AddElement
    <3>3. Cardinality(unheard') >= Threshold => stop'
      BY <1>3, <2>1, <3>1, <3>2 DEF Trips
    <3> QED
      BY <1>1, <1>3, <2>1, <2>2, <3>1, <3>2, <3>3 DEF DeathInv
  <2> QED
    BY <2>3, <2>4
<1> QED
  BY <1>4, <1>6, <1>7, <1>8, <1>9, <1>10, <1>11, <1>12 DEF Next

\* Once nothing can come from the module any more, no more than Threshold
\* commands of normal priority time out before the manager stops; and unless
\* its owner was first, it has told it.
\* (recordATTimeout, resetATTimeoutWatchdog, tripATTimeoutWatchdog)
THEOREM DeathIsNoticed == MCSpec => []DeadLinkIsNoticed
<1>1. MCInit => DeathInv
  BY FS_EmptySet, LinkAssumption DEF MCInit, Init, DeathInv
<1>2. DeathInv => DeadLinkIsNoticed
  BY DEF DeathInv, DeadLinkIsNoticed
<1> QED
  BY <1>1, <1>2, DeathStep, LinkSteps, PTL DEF MCSpec

-----------------------------------------------------------------------------
\* What has been said

\* What is left of a sequence without its head.
LEMMA TailElements ==
    ASSUME NEW Item, NEW s \in Seq(Item), s # <<>>
    PROVE  /\ Tail(s) \in Seq(Item) /\ Len(Tail(s)) = Len(s) - 1 /\ Len(s) \in Nat \ {0}
           /\ Head(s) = s[1] /\ 1 \in 1 .. Len(s) /\ Head(s) \in Item
           /\ \A i \in 1 .. Len(s) - 1 : Tail(s)[i] = s[i + 1] /\ i + 1 \in 1 .. Len(s)
BY HeadTailProperties

\* The answers callers are about to be given, one by one.
LEMMA GivenIs ==
    ASSUME NEW g \in Given
    PROVE  \E p \in Caller, a \in inbox :
             /\ pc[p] = "wait" /\ a.box = call[p].box /\ a.d # 0
             /\ g = [n |-> call[p].n, kind |-> call[p].kind, d |-> a.d, t |-> a.t]
BY DEF Given

TextInv ==
    /\ \A i \in 1 .. Len(rx) : rx[i].t = "cmgs" => rx[i].n \in texts
    /\ \A a \in inbox : a.t = "cmgs" => a.d \in texts

\* How a step can tell of a text: the module hears "+CMGS:" for one it took,
\* and an answer is what was heard.
LEMMA TextsKept ==
    ASSUME LinkType, TextInv, texts \subseteq texts',
           \/ rx' = rx
           \/ rx # <<>> /\ rx' = Tail(rx)
           \/ \E m \in Heards : rx' = Append(rx, m) /\ (m.t = "cmgs" => m.n \in texts'),
           \A a \in inbox' \ inbox :
              a.t = "cmgs" => rx # <<>> /\ a.d = Head(rx).n /\ Head(rx).t = "cmgs"
    PROVE  TextInv'
<1>1. \A a \in inbox' : a.t = "cmgs" => a.d \in texts'
  <2>1. rx # <<>> => Head(rx) = rx[1] /\ 1 \in 1 .. Len(rx)
    BY TailElements DEF LinkType
  <2> QED
    BY <2>1 DEF TextInv
<1>2. \A i \in 1 .. Len(rx') : rx'[i].t = "cmgs" => rx'[i].n \in texts'
  <2>1. CASE rx' = rx
    BY <2>1 DEF TextInv
  <2>2. CASE rx # <<>> /\ rx' = Tail(rx)
    <3>1. /\ Len(rx') = Len(rx) - 1
          /\ \A i \in 1 .. Len(rx) - 1 : rx'[i] = rx[i + 1] /\ i + 1 \in 1 .. Len(rx)
      BY <2>2, TailElements DEF LinkType
    <3> QED
      BY <3>1 DEF TextInv
  <2>3. ASSUME NEW m \in Heards, rx' = Append(rx, m), m.t = "cmgs" => m.n \in texts'
        PROVE  \A i \in 1 .. Len(rx') : rx'[i].t = "cmgs" => rx'[i].n \in texts'
    <3>1. /\ Len(rx') = Len(rx) + 1 /\ rx'[Len(rx) + 1] = m /\ Len(rx) \in Nat
          /\ \A i \in 1 .. Len(rx) : rx'[i] = rx[i]
      BY <2>3, AppendProperties, LenProperties DEF LinkType
    <3> QED
      BY <2>3, <3>1 DEF TextInv
  <2> QED
    BY <2>1, <2>2, <2>3
<1> QED
  BY <1>1, <1>2 DEF TextInv

\* Every step keeps account of the texts the module took.
LEMMA TextStep ==
    ASSUME LinkType, TextInv, Next \/ UNCHANGED vars
    PROVE  TextInv'
<1> USE DEF link, loops, module, callers, hist, bounds
<1>1. CASE UNCHANGED <<rx, texts>> /\ inbox' \subseteq inbox
  BY <1>1 DEF TextInv
<1>2. ASSUME NEW p \in Caller, NEW k \in Kind, Check(p, k)
      PROVE  UNCHANGED <<rx, texts, inbox>>
  BY <1>2 DEF Check
<1>3. ASSUME NEW p \in Caller, Enqueue(p) \/ SendFails(p) \/ Receive(p) \/ GiveUp(p)
      PROVE  UNCHANGED <<rx, texts>> /\ inbox' \subseteq inbox
  BY <1>3 DEF Enqueue, SendFails, Receive, GiveUp, Leave
<1>4. ASSUME NEW l \in {"high", "normal"}, Take(l)
      PROVE  TextInv'
  <2>1. UNCHANGED <<rx, texts>>
    BY <1>4 DEF Take
  <2>2. \A a \in inbox' \ inbox : a.t = "error"
    BY <1>4 DEF Take, Answer
  <2> QED
    BY <2>1, <2>2, TextsKept
<1>5. ASSUME TimeOut
      PROVE  TextInv'
  <2>1. UNCHANGED <<rx, texts>>
    BY <1>5 DEF TimeOut
  <2>2. \A a \in inbox' \ inbox : a.t = "timeout"
    BY <1>5 DEF TimeOut, Answer
  <2> QED
    BY <2>1, <2>2, TextsKept
<1>6. ASSUME Line
      PROVE  TextInv'
  <2>1. rx # <<>> /\ rx' = Tail(rx) /\ texts' = texts
    BY <1>6 DEF Line
  <2>2. \A a \in inbox' \ inbox : a.d = Head(rx).n /\ a.t = Head(rx).t
    BY <1>6 DEF Line, Answer
  <2> QED
    BY <2>1, <2>2, TextsKept
<1>7. ASSUME Idle \/ LoopPanics
      PROVE  TextInv'
  <2>1. rx # <<>> /\ rx' = Tail(rx) /\ UNCHANGED <<texts, inbox>>
    BY <1>7 DEF Idle, LoopPanics
  <2> QED
    BY <2>1, TextsKept
<1>8. ASSUME ModuleReads \/ URC \/ ReadFails \/ ReportError \/ ReaderPanics
      PROVE  TextInv'
  <2>1. wire # <<>> => Head(wire) \in Writes
    BY TailElements DEF LinkType
  <2>2. texts \subseteq texts' /\ inbox' = inbox
    BY <1>8 DEF ModuleReads, URC, ReadFails, ReportError, ReaderPanics
  <2>3. \/ rx' = rx
        \/ \E n \in Nat, t \in Lines :
              rx' = Append(rx, [n |-> n, t |-> t]) /\ (t = "cmgs" => n \in texts')
    BY <1>8, <2>1 DEF LinkType, ModuleReads, URC, ReadFails, ReportError, ReaderPanics, Heard, Lines, Writes
  <2>4. \/ rx' = rx
        \/ \E m \in Heards : rx' = Append(rx, m) /\ (m.t = "cmgs" => m.n \in texts')
    <3>1. ASSUME NEW n \in Nat, NEW t \in Lines,
                 rx' = Append(rx, [n |-> n, t |-> t]), t = "cmgs" => n \in texts'
          PROVE  \E m \in Heards : rx' = Append(rx, m) /\ (m.t = "cmgs" => m.n \in texts')
      <4>1. [n |-> n, t |-> t] \in Heards
        BY DEF Heards
      <4> QED
        BY <3>1, <4>1
    <3> QED
      BY <2>3, <3>1
  <2> QED
    BY <2>2, <2>4, TextsKept
<1>9. Stop \/ Second \/ SeesStop \/ UNCHANGED vars => UNCHANGED <<rx, texts, inbox>>
  BY DEF Stop, Second, SeesStop, vars
<1>10. CASE UNCHANGED vars
  BY <1>1, <1>9, <1>10
<1>11. CASE Next
  BY <1>1, <1>2, <1>3, <1>4, <1>5, <1>6, <1>7, <1>8, <1>9, <1>11 DEF Next
<1> QED
  BY <1>10, <1>11

\* A send that is reported as done was done - this one, or the one whose
\* answer it was given (AnswersInOrder): "+CMGS:" comes only after a text.
\* (handleCommand's prompt and ESC, SendSMSWithOptions)
THEOREM SentIsSent == MCSpec => []SentAsReported
<1>1. MCInit => TextInv
  BY DEF MCInit, Init, TextInv
<1>2. TextInv => SentAsReported
  <2> SUFFICES ASSUME TextInv, NEW g \in Given, Done(g)
               PROVE  g.d \in texts
    BY DEF SentAsReported
  <2>1. PICK p \in Caller, a \in inbox :
          g = [n |-> call[p].n, kind |-> call[p].kind, d |-> a.d, t |-> a.t]
    BY GivenIs
  <2> QED
    BY <2>1 DEF TextInv, Done
<1> QED
  BY <1>1, <1>2, LinkTypes, TextStep, LinkSteps, PTL DEF MCSpec

-----------------------------------------------------------------------------
\* The numbers of calls, and their places

\* The requests in the queues, and the calls that were written.
Queued == {r \in Requests : \E l \in Lanes : \E i \in 1 .. Len(queue[l]) : queue[l][i] = r}
Written == {order[i] : i \in 1 .. Len(order)}

QueuedOnce ==
    \A l, k \in Lanes : \A i \in 1 .. Len(queue[l]), j \in 1 .. Len(queue[k]) :
        queue[l][i].n = queue[k][j].n => l = k /\ i = j

OrderedOnce == \A i, j \in 1 .. Len(order) : order[i] = order[j] => i = j

\* A number is one call's, and a call is written once.
NumberInv ==
    /\ OrderedOnce
    /\ \A n \in Written : n \in 1 .. calls
    /\ \A r \in Queued : r.n \in 1 .. calls /\ r.n \notin Written
    /\ QueuedOnce
    /\ \A p \in Caller : pc[p] # "idle" => call[p].n \in 1 .. calls
    /\ \A p \in Caller : pc[p] = "send" =>
          call[p].n \notin Written /\ \A r \in Queued : r.n # call[p].n
    /\ \A p, q \in Caller : pc[p] # "idle" /\ pc[q] # "idle" /\ p # q => call[p].n # call[q].n

\* A number has one place in one queue.
LEMMA OnceIs ==
    ASSUME QueuedOnce, NEW k \in Lanes, NEW h \in Lanes,
           NEW i \in 1 .. Len(queue[k]), NEW j \in 1 .. Len(queue[h]),
           queue[k][i].n = queue[h][j].n
    PROVE  k = h /\ i = j
BY DEF QueuedOnce

\* A request is queued once more.
LEMMA EnqueueGives ==
    ASSUME LinkType, NumberInv, NEW p \in Caller, Enqueue(p)
    PROVE  /\ Queued' = Queued \cup {call[p]} /\ call[p] \in Requests
           /\ QueuedOnce'
<1> DEFINE l == Lane(call[p])
<1>1. call[p] \in Requests /\ l \in Lanes /\ pc[p] = "send"
  BY DEF Enqueue, LinkType, Lane, Lanes
<1>2. queue \in [Lanes -> Seq(Requests)]
  BY DEF LinkType
<1>3. queue' = [queue EXCEPT ![l] = Append(queue[l], call[p])]
  BY DEF Enqueue
<1> DEFINE N == Len(queue[l])
<1>4. /\ N \in Nat
      /\ queue'[l] = Append(queue[l], call[p])
      /\ Len(queue'[l]) = N + 1
      /\ \A i \in 1 .. N : queue'[l][i] = queue[l][i]
      /\ queue'[l][N + 1] = call[p]
      /\ \A k \in Lanes : k # l => queue'[k] = queue[k]
  BY <1>1, <1>2, <1>3, AppendProperties, LenProperties
<1> HIDE DEF l, N
<1>5. \A k \in Lanes : \A i \in 1 .. Len(queue'[k]) :
        \/ i \in 1 .. Len(queue[k]) /\ queue'[k][i] = queue[k][i]
        \/ k = l /\ i = N + 1 /\ queue'[k][i] = call[p]
  BY <1>4 DEF N
<1>6. \A k \in Lanes : \A i \in 1 .. Len(queue[k]) :
        i \in 1 .. Len(queue'[k]) /\ queue'[k][i] = queue[k][i]
  BY <1>4 DEF N
<1>7. Queued' = Queued \cup {call[p]}
  <2>1. \A r \in Queued' : r \in Queued \/ r = call[p]
    BY <1>5 DEF Queued
  <2>2. \A r \in Queued : r \in Queued'
    BY <1>6 DEF Queued
  <2>3. call[p] \in Queued'
    <3>1. N + 1 \in 1 .. Len(queue'[l])
      BY <1>4
    <3> QED
      BY <1>1, <1>4, <3>1 DEF Queued
  <2> QED
    BY <2>1, <2>2, <2>3
<1>8. QueuedOnce'
  <2>1. \A k \in Lanes : \A i \in 1 .. Len(queue[k]) : queue[k][i].n # call[p].n
    <3> SUFFICES ASSUME NEW k \in Lanes, NEW i \in 1 .. Len(queue[k])
                 PROVE  queue[k][i].n # call[p].n
      OBVIOUS
    <3>1. queue[k][i] \in Requests
      BY <1>2, ElementOfSeq
    <3>2. queue[k][i] \in Queued
      BY <3>1 DEF Queued
    <3> QED
      BY <1>1, <3>2 DEF NumberInv
  <2> SUFFICES ASSUME NEW k \in Lanes, NEW h \in Lanes,
                      NEW i \in 1 .. Len(queue'[k]), NEW j \in 1 .. Len(queue'[h]),
                      queue'[k][i].n = queue'[h][j].n
               PROVE  k = h /\ i = j
    BY Zenon DEF QueuedOnce
  <2>2. CASE i \in 1 .. Len(queue[k]) /\ queue'[k][i] = queue[k][i]
    <3>1. j \in 1 .. Len(queue[h]) /\ queue'[h][j] = queue[h][j]
      BY <1>5, <2>1, <2>2
    <3>2. queue[k][i].n = queue[h][j].n
      BY <2>2, <3>1
    <3>3. QueuedOnce
      BY Zenon DEF NumberInv
    <3> QED
      BY <2>2, <3>1, <3>2, <3>3, OnceIs
  <2>3. CASE k = l /\ i = N + 1 /\ queue'[k][i] = call[p]
    <3>1. j = N + 1 /\ h = l
      BY <1>5, <2>1, <2>3
    <3> QED
      BY <2>3, <3>1
  <2> QED
    BY <1>5, <2>2, <2>3
<1> QED
  BY <1>1, <1>7, <1>8

\* A request that is taken is in no queue any longer.
LEMMA TakeGives ==
    ASSUME LinkType, NumberInv, NEW l \in Lanes, Take(l), NEW r, r = Head(queue[l])
    PROVE  /\ r \in Queued /\ Queued' = Queued \ {r} /\ QueuedOnce'
           /\ \A q \in Queued' : q.n # r.n
<1>1. queue \in [Lanes -> Seq(Requests)] /\ queue[l] # <<>> /\ queue' = [queue EXCEPT ![l] = Tail(queue[l])]
  BY DEF LinkType, Take
<1> DEFINE N == Len(queue[l])
<1>2. /\ N \in Nat \ {0} /\ r = queue[l][1] /\ r \in Requests /\ 1 \in 1 .. N
      /\ Len(queue'[l]) = N - 1
      /\ \A i \in 1 .. N - 1 : queue'[l][i] = queue[l][i + 1] /\ i + 1 \in 1 .. N
      /\ \A k \in Lanes : k # l => queue'[k] = queue[k]
  BY <1>1, TailElements
<1> HIDE DEF N
<1>3. \A k \in Lanes : \A i \in 1 .. Len(queue'[k]) :
        \/ k # l /\ i \in 1 .. Len(queue[k]) /\ queue'[k][i] = queue[k][i]
        \/ k = l /\ i + 1 \in 1 .. Len(queue[k]) /\ queue'[k][i] = queue[k][i + 1] /\ i \in Nat
  BY <1>2 DEF N
<1>4. QueuedOnce
  BY Zenon DEF NumberInv
<1>5. r \in Queued
  BY <1>2 DEF Queued, N
<1>6. QueuedOnce'
  <2> SUFFICES ASSUME NEW k \in Lanes, NEW h \in Lanes,
                      NEW i \in 1 .. Len(queue'[k]), NEW j \in 1 .. Len(queue'[h]),
                      queue'[k][i].n = queue'[h][j].n
               PROVE  k = h /\ i = j
    BY Zenon DEF QueuedOnce
  <2> DEFINE a == IF k = l THEN i + 1 ELSE i
             b == IF h = l THEN j + 1 ELSE j
  <2>1. /\ a \in 1 .. Len(queue[k]) /\ queue'[k][i] = queue[k][a]
        /\ b \in 1 .. Len(queue[h]) /\ queue'[h][j] = queue[h][b]
    BY <1>3
  <2>2. i \in Nat /\ j \in Nat
    OBVIOUS
  <2> HIDE DEF a, b
  <2>3. queue[k][a].n = queue[h][b].n
    BY <2>1
  <2>4. k = h /\ a = b
    BY <1>4, <2>1, <2>3, OnceIs
  <2> QED
    BY <2>2, <2>4 DEF a, b
<1>7. \A q \in Queued' : q \in Queued /\ q.n # r.n
  <2> SUFFICES ASSUME NEW q \in Queued'
               PROVE  q \in Queued /\ q.n # r.n
    OBVIOUS
  <2>1. PICK k \in Lanes : \E i \in 1 .. Len(queue'[k]) : queue'[k][i] = q
    BY DEF Queued
  <2>2. PICK i \in 1 .. Len(queue'[k]) : queue'[k][i] = q
    BY <2>1
  <2>3. PICK j \in 1 .. Len(queue[k]) : queue[k][j] = q /\ ~(k = l /\ j = 1)
    BY <1>3, <2>2
  <2>4. q \in Requests
    BY DEF Queued
  <2>5. q \in Queued
    BY <2>3, <2>4 DEF Queued
  <2>6. q.n # r.n
    BY <1>2, <1>4, <2>3, OnceIs DEF N
  <2> QED
    BY <2>5, <2>6
<1>8. \A q \in Queued : q = r \/ q \in Queued'
  <2> SUFFICES ASSUME NEW q \in Queued, q # r
               PROVE  q \in Queued'
    OBVIOUS
  <2>1. PICK k \in Lanes : \E i \in 1 .. Len(queue[k]) : queue[k][i] = q
    BY DEF Queued
  <2>2. PICK i \in 1 .. Len(queue[k]) : queue[k][i] = q
    BY <2>1
  <2>3. \E j \in 1 .. Len(queue'[k]) : queue'[k][j] = q
    <3>1. CASE k # l
      BY <1>2, <2>2, <3>1
    <3>2. CASE k = l
      <4>1. i # 1
        BY <1>2, <2>2, <3>2
      <4>2. i - 1 \in 1 .. N - 1 /\ (i - 1) + 1 = i
        BY <1>2, <2>2, <3>2, <4>1 DEF N
      <4> QED
        BY <1>2, <2>2, <3>2, <4>2 DEF N
    <3> QED
      BY <3>1, <3>2
  <2>4. q \in Requests
    BY DEF Queued
  <2> QED
    BY <2>3, <2>4 DEF Queued
<1> QED
  BY <1>5, <1>6, <1>7, <1>8

PlaceIn(s, n) ==
    IF \E i \in DOMAIN s : s[i] = n THEN CHOOSE i \in DOMAIN s : s[i] = n ELSE 0

\* The place of an element of a sequence without repetition is its index.
LEMMA PlaceInIs ==
    ASSUME NEW s \in Seq(Nat), \A i, j \in 1 .. Len(s) : s[i] = s[j] => i = j
    PROVE  /\ \A i \in 1 .. Len(s) : PlaceIn(s, s[i]) = i
           /\ \A n : n \notin {s[i] : i \in 1 .. Len(s)} => PlaceIn(s, n) = 0
<1>1. DOMAIN s = 1 .. Len(s)
  BY LenProperties
<1>2. ASSUME NEW i \in 1 .. Len(s)
      PROVE  PlaceIn(s, s[i]) = i
  <2>1. \E j \in DOMAIN s : s[j] = s[i]
    BY <1>1
  <2>2. PlaceIn(s, s[i]) = CHOOSE j \in DOMAIN s : s[j] = s[i]
    BY <2>1 DEF PlaceIn
  <2>3. PlaceIn(s, s[i]) \in DOMAIN s /\ s[PlaceIn(s, s[i])] = s[i]
    BY <2>1, <2>2
  <2> QED
    BY <1>1, <2>3
<1>3. ASSUME NEW n, n \notin {s[i] : i \in 1 .. Len(s)}
      PROVE  PlaceIn(s, n) = 0
  BY <1>1, <1>3 DEF PlaceIn
<1> QED
  BY <1>2, <1>3

\* The place of a number that was written.
LEMMA PlaceIs ==
    ASSUME order \in Seq(Nat), OrderedOnce
    PROVE  /\ \A i \in 1 .. Len(order) : PlaceIn(order, order[i]) = i
           /\ \A n \in Written : PlaceIn(order, n) \in 1 .. Len(order)
           /\ \A n : PlaceIn(order, n) \in Nat
<1>1. \A i \in 1 .. Len(order) : PlaceIn(order, order[i]) = i
  BY PlaceInIs DEF OrderedOnce
<1>2. \A n : n \notin Written => PlaceIn(order, n) = 0
  BY PlaceInIs DEF OrderedOnce, Written
<1>3. \A n \in Written : PlaceIn(order, n) \in 1 .. Len(order)
  BY <1>1 DEF Written
<1> QED
  BY <1>1, <1>2, <1>3

\* Writing a new command gives it the last place and moves no other.
LEMMA WriteGives ==
    ASSUME order \in Seq(Nat), OrderedOnce, NEW n \in Nat, n \notin Written,
           order' = Append(order, n)
    PROVE  /\ order' \in Seq(Nat) /\ OrderedOnce' /\ Written' = Written \cup {n}
           /\ Len(order') = Len(order) + 1 /\ order'[Len(order) + 1] = n /\ order' # <<>>
           /\ \A m \in Written : PlaceIn(order', m) = PlaceIn(order, m)
           /\ PlaceIn(order', n) = Len(order) + 1
<1> DEFINE N == Len(order)
<1>1. /\ order' \in Seq(Nat) /\ Len(order') = N + 1 /\ order'[N + 1] = n /\ N \in Nat
      /\ \A i \in 1 .. N : order'[i] = order[i]
      /\ order' # <<>>
  BY AppendProperties, LenProperties
<1> HIDE DEF N
<1>2. \A i \in 1 .. Len(order') : (i \in 1 .. N /\ order'[i] = order[i]) \/ (i = N + 1 /\ order'[i] = n)
  BY <1>1
<1>3. \A i \in 1 .. N : i \in 1 .. Len(order') /\ order'[i] = order[i] /\ order[i] # n
  BY <1>1 DEF Written, N
<1>4. N + 1 \in 1 .. Len(order')
  BY <1>1
<1>5. Written' = Written \cup {n}
  BY <1>1, <1>2, <1>3, <1>4 DEF Written, N
<1>6. OrderedOnce'
  BY <1>2, <1>3 DEF OrderedOnce, N
<1>7. \A i \in 1 .. Len(order') : PlaceIn(order', order'[i]) = i
  BY <1>1, <1>6, PlaceInIs DEF OrderedOnce
<1>8. ASSUME NEW m \in Written
      PROVE  PlaceIn(order', m) = PlaceIn(order, m)
  <2>1. PICK i \in 1 .. N : m = order[i]
    BY DEF Written, N
  <2>2. i \in 1 .. Len(order') /\ order'[i] = m
    BY <1>3, <2>1
  <2>3. PlaceIn(order', m) = i
    BY <1>7, <2>2
  <2>4. PlaceIn(order, m) = i
    BY <2>1, PlaceIs DEF N
  <2> QED
    BY <2>3, <2>4
<1>9. PlaceIn(order', n) = N + 1
  BY <1>1, <1>4, <1>7
<1> QED
  BY <1>1, <1>5, <1>6, <1>8, <1>9 DEF N

\* Every step keeps a number one call's, written once.
LEMMA NumberStep ==
    ASSUME LinkType, NumberInv, Next \/ UNCHANGED vars
    PROVE  NumberInv'
<1> USE DEF link, loops, module, callers, hist, bounds
<1>1. CASE UNCHANGED <<queue, order, pc, call, calls>>
  BY <1>1 DEF NumberInv, Queued, Written, OrderedOnce, QueuedOnce
<1>2. ASSUME NEW p \in Caller, NEW k \in Kind, Check(p, k)
      PROVE  NumberInv'
  <2>1. /\ \E box : call' = [call EXCEPT ![p] = Request(p, k, box)]
        /\ pc' = [pc EXCEPT ![p] = "send"] /\ calls' = calls + 1
        /\ UNCHANGED <<queue, order>>
    BY <1>2 DEF Check
  <2>2. /\ call'[p].n = calls + 1 /\ pc'[p] = "send"
        /\ \A q \in Caller : q # p => call'[q] = call[q] /\ pc'[q] = pc[q]
    BY <2>1 DEF LinkType, Request
  <2>3. UNCHANGED <<Queued, Written, OrderedOnce, QueuedOnce>>
    BY <2>1 DEF Queued, Written, OrderedOnce, QueuedOnce
  <2>4. calls \in Nat
    BY DEF LinkType
  <2>5. \A q \in Caller : q # p /\ pc'[q] # "idle" =>
          call'[q] \in Requests /\ call'[q].n # calls + 1 /\ call'[q].n \in 1 .. calls
    BY <2>2, <2>4 DEF NumberInv, LinkType
  <2>6. OrderedOnce' /\ QueuedOnce'
    BY <2>1 DEF NumberInv, OrderedOnce, QueuedOnce
  <2>7. /\ \A n \in Written' : n \in 1 .. calls'
        /\ \A r \in Queued' : r.n \in 1 .. calls' /\ r.n \notin Written'
    BY <2>1, <2>3, <2>4 DEF NumberInv
  <2>8. \A q \in Caller : pc'[q] # "idle" => call'[q].n \in 1 .. calls'
    BY <2>1, <2>2, <2>4, <2>5
  <2>9. \A q \in Caller : pc'[q] = "send" =>
          call'[q].n \notin Written' /\ \A r \in Queued' : r.n # call'[q].n
    BY <2>2, <2>3, <2>4 DEF NumberInv
  <2>10. \A q, h \in Caller : pc'[q] # "idle" /\ pc'[h] # "idle" /\ q # h => call'[q].n # call'[h].n
    BY <2>2, <2>5 DEF NumberInv
  <2> QED
    BY <2>6, <2>7, <2>8, <2>9, <2>10, Zenon DEF NumberInv
<1>3. ASSUME NEW p \in Caller, Enqueue(p)
      PROVE  NumberInv'
  <2>1. /\ Queued' = Queued \cup {call[p]} /\ QueuedOnce' /\ pc[p] = "send"
        /\ pc' = [pc EXCEPT ![p] = "wait"] /\ UNCHANGED <<call, order, calls>>
    BY <1>3, EnqueueGives DEF Enqueue
  <2>2. UNCHANGED Written /\ OrderedOnce'
    BY <2>1 DEF Written, OrderedOnce, NumberInv
  <2>3. pc'[p] = "wait" /\ \A q \in Caller : q # p => pc'[q] = pc[q]
    BY <2>1 DEF LinkType
  <2>4. \A n \in Written' : n \in 1 .. calls'
    BY <2>1, <2>2 DEF NumberInv
  <2>5. \A r \in Queued' : r.n \in 1 .. calls' /\ r.n \notin Written'
    BY <2>1, <2>2 DEF NumberInv
  <2>6. \A q \in Caller : pc'[q] # "idle" => call'[q].n \in 1 .. calls'
    BY <2>1, <2>3 DEF NumberInv
  <2>7. \A q \in Caller : pc'[q] = "send" =>
          call'[q].n \notin Written' /\ \A r \in Queued' : r.n # call'[q].n
    BY <2>1, <2>2, <2>3 DEF NumberInv
  <2>8. \A q, h \in Caller : pc'[q] # "idle" /\ pc'[h] # "idle" /\ q # h => call'[q].n # call'[h].n
    BY <2>1, <2>3 DEF NumberInv
  <2> QED
    BY <2>1, <2>2, <2>4, <2>5, <2>6, <2>7, <2>8, Zenon DEF NumberInv
<1>4. ASSUME NEW p \in Caller, SendFails(p) \/ Receive(p) \/ GiveUp(p)
      PROVE  NumberInv'
  <2>1. Leave(p) /\ UNCHANGED <<queue, order, calls>>
    BY <1>4 DEF SendFails, Receive, GiveUp
  <2>2. pc'[p] = "idle" /\ \A q \in Caller : q # p => pc'[q] = pc[q] /\ call'[q] = call[q]
    BY <2>1 DEF Leave, LinkType
  <2>3. UNCHANGED <<Queued, Written>> /\ OrderedOnce' /\ QueuedOnce'
    BY <2>1 DEF Queued, Written, OrderedOnce, QueuedOnce, NumberInv
  <2> QED
    BY <2>1, <2>2, <2>3 DEF NumberInv
<1>5. ASSUME NEW l \in {"high", "normal"}, Take(l)
      PROVE  NumberInv'
  <2> DEFINE r == Head(queue[l])
  <2>1. /\ r \in Queued /\ Queued' = Queued \ {r} /\ QueuedOnce'
        /\ \A q \in Queued' : q.n # r.n
    BY <1>5, TakeGives DEF Lanes
  <2>2. UNCHANGED <<pc, call, calls>>
    BY <1>5 DEF Take
  <2>3. order' \in {order, Append(order, r.n)}
    BY <1>5 DEF Take
  <2> HIDE DEF r
  <2>4. r.n \in Nat /\ r.n \notin Written /\ r.n \in 1 .. calls
    BY <2>1, RequestFields DEF NumberInv, Queued
  <2>5. OrderedOnce' /\ (Written' = Written \/ Written' = Written \cup {r.n})
    <3>1. CASE order' = order
      BY <3>1 DEF NumberInv, OrderedOnce, Written
    <3>2. CASE order' = Append(order, r.n)
      <4>1. order \in Seq(Nat) /\ OrderedOnce
        BY DEF LinkType, NumberInv
      <4> QED
        BY <2>4, <3>2, <4>1, WriteGives
    <3> QED
      BY <2>3, <3>1, <3>2
  <2>6. \A n \in Written' : n \in 1 .. calls'
    BY <2>2, <2>4, <2>5 DEF NumberInv
  <2>7. \A q \in Queued' : q.n \in 1 .. calls' /\ q.n \notin Written'
    BY <2>1, <2>2, <2>5 DEF NumberInv
  <2>8. \A q \in Caller : pc'[q] = "send" =>
          call'[q].n \notin Written' /\ \A s \in Queued' : s.n # call'[q].n
    BY <2>1, <2>2, <2>5 DEF NumberInv
  <2>9. /\ \A q \in Caller : pc'[q] # "idle" => call'[q].n \in 1 .. calls'
        /\ \A q, h \in Caller : pc'[q] # "idle" /\ pc'[h] # "idle" /\ q # h => call'[q].n # call'[h].n
    BY <2>2 DEF NumberInv
  <2> QED
    BY <2>1, <2>5, <2>6, <2>7, <2>8, <2>9, Zenon DEF NumberInv
<1>6. \/ Stop \/ Second \/ SeesStop \/ Idle \/ Line \/ TimeOut \/ LoopPanics
      \/ ModuleReads \/ URC \/ ReadFails \/ ReportError \/ ReaderPanics \/ UNCHANGED vars
      => UNCHANGED <<queue, order, pc, call, calls>>
  BY DEF Stop, Second, SeesStop, Idle, Line, TimeOut, LoopPanics, ModuleReads, URC, ReadFails,
     ReportError, ReaderPanics, vars
<1>7. CASE UNCHANGED vars
  BY <1>1, <1>6, <1>7
<1>8. CASE Next
  BY <1>1, <1>2, <1>3, <1>4, <1>5, <1>6, <1>8 DEF Next
<1> QED
  BY <1>7, <1>8

-----------------------------------------------------------------------------
\* What is on its way

Spoken == {"ok", "prompt", "cmgs"}

TraceParts ==
    /\ \A i \in 1 .. Len(wire) : wire[i].n \in Written
    /\ \A i \in 1 .. Len(rx) : rx[i].t \in Spoken => rx[i].n \in Written
    /\ prompting \in Written \cup {0}

\* What one more or one less entry of rx or of wire does to it.
LEMMA TraceKept ==
    ASSUME LinkType, TraceParts, Written \subseteq Written',
           \/ wire' = wire
           \/ wire # <<>> /\ wire' = Tail(wire)
           \/ \E w \in Writes : wire' = Append(wire, w) /\ w.n \in Written',
           \/ rx' = rx
           \/ rx # <<>> /\ rx' = Tail(rx)
           \/ \E m \in Heards : rx' = Append(rx, m) /\ (m.t \in Spoken => m.n \in Written'),
           prompting' \in Written' \cup {0}
    PROVE  TraceParts'
<1>1. \A i \in 1 .. Len(wire') : wire'[i].n \in Written'
  <2>1. CASE wire' = wire
    BY <2>1 DEF TraceParts
  <2>2. CASE wire # <<>> /\ wire' = Tail(wire)
    <3>1. /\ Len(wire') = Len(wire) - 1
          /\ \A i \in 1 .. Len(wire) - 1 : wire'[i] = wire[i + 1] /\ i + 1 \in 1 .. Len(wire)
      BY <2>2, TailElements DEF LinkType
    <3> QED
      BY <3>1 DEF TraceParts
  <2>3. ASSUME NEW w \in Writes, wire' = Append(wire, w), w.n \in Written'
        PROVE  \A i \in 1 .. Len(wire') : wire'[i].n \in Written'
    <3>1. /\ Len(wire') = Len(wire) + 1 /\ wire'[Len(wire) + 1] = w /\ Len(wire) \in Nat
          /\ \A i \in 1 .. Len(wire) : wire'[i] = wire[i]
      BY <2>3, AppendProperties, LenProperties DEF LinkType
    <3> QED
      BY <2>3, <3>1 DEF TraceParts
  <2> QED
    BY <2>1, <2>2, <2>3
<1>2. \A i \in 1 .. Len(rx') : rx'[i].t \in Spoken => rx'[i].n \in Written'
  <2>1. CASE rx' = rx
    BY <2>1 DEF TraceParts
  <2>2. CASE rx # <<>> /\ rx' = Tail(rx)
    <3>1. /\ Len(rx') = Len(rx) - 1
          /\ \A i \in 1 .. Len(rx) - 1 : rx'[i] = rx[i + 1] /\ i + 1 \in 1 .. Len(rx)
      BY <2>2, TailElements DEF LinkType
    <3> QED
      BY <3>1 DEF TraceParts
  <2>3. ASSUME NEW m \in Heards, rx' = Append(rx, m), m.t \in Spoken => m.n \in Written'
        PROVE  \A i \in 1 .. Len(rx') : rx'[i].t \in Spoken => rx'[i].n \in Written'
    <3>1. /\ Len(rx') = Len(rx) + 1 /\ rx'[Len(rx) + 1] = m /\ Len(rx) \in Nat
          /\ \A i \in 1 .. Len(rx) : rx'[i] = rx[i]
      BY <2>3, AppendProperties, LenProperties DEF LinkType
    <3> QED
      BY <2>3, <3>1 DEF TraceParts
  <2> QED
    BY <2>1, <2>2, <2>3
<1> QED
  BY <1>1, <1>2, Zenon DEF TraceParts

\* The command in hand, and those that timed out.
HandParts ==
    /\ hand # Nothing => order # <<>> /\ order[Len(order)] = hand.n /\ hand.n \notin late
    /\ late \subseteq Written /\ IsFiniteSet(late)

\* What the module reads off the wire.
LEMMA ReadsGive ==
    ASSUME LinkType, TraceParts, ModuleReads
    PROVE  /\ wire # <<>> /\ wire' = Tail(wire) /\ Head(wire) = wire[1] /\ wire[1] \in Writes
           /\ wire[1].n \in Written /\ 1 \in 1 .. Len(wire)
           /\ prompting' \in Written \cup {0}
           /\ \/ rx' = rx
              \/ \E m \in Heards : rx' = Append(rx, m) /\ m.n \in Written
<1>1. /\ wire # <<>> /\ wire' = Tail(wire) /\ Head(wire) = wire[1] /\ wire[1] \in Writes
      /\ 1 \in 1 .. Len(wire)
  BY TailElements DEF ModuleReads, LinkType
<1>2. wire[1].n \in Written
  BY <1>1 DEF TraceParts
<1>3. prompting' \in Written \cup {0}
  BY <1>1, <1>2 DEF ModuleReads, TraceParts
<1>4. \A n \in Nat, t \in Lines : [n |-> n, t |-> t] \in Heards
  BY DEF Heards
<1>5. \/ rx' = rx
      \/ \E n \in Nat, t \in Lines : rx' = Append(rx, [n |-> n, t |-> t]) /\ n \in Written
  BY <1>1, <1>2 DEF ModuleReads, TraceParts, Heard, Lines, Writes, LinkType
<1>6. \A n \in Nat, t \in Lines : [n |-> n, t |-> t].n = n
  OBVIOUS
<1> QED
  BY <1>1, <1>2, <1>3, <1>4, <1>5, <1>6

\* Every step keeps what is on its way about calls that were written.
LEMMA TraceStep ==
    ASSUME LinkType, NumberInv, TraceParts, HandParts, Next \/ UNCHANGED vars
    PROVE  TraceParts' /\ HandParts'
<1> USE DEF link, loops, module, callers, hist, bounds
<1>1. CASE UNCHANGED <<order, hand, late, wire, rx, prompting>>
  BY <1>1 DEF TraceParts, HandParts, Written
<1>2. ASSUME NEW p \in Caller, NEW k \in Kind, Check(p, k)
      PROVE  UNCHANGED <<order, hand, late, wire, rx, prompting>>
  BY <1>2 DEF Check
<1>3. ASSUME NEW p \in Caller, Enqueue(p) \/ SendFails(p) \/ Receive(p) \/ GiveUp(p)
      PROVE  UNCHANGED <<order, hand, late, wire, rx, prompting>>
  BY <1>3 DEF Enqueue, SendFails, Receive, GiveUp
<1>4. Stop \/ Second \/ SeesStop \/ ReadFails \/ ReaderPanics \/ UNCHANGED vars =>
        UNCHANGED <<order, hand, late, wire, rx, prompting>>
  BY DEF Stop, Second, SeesStop, ReadFails, ReaderPanics, vars
<1>5. hand # Nothing => hand \in Requests /\ hand.n \in Written /\ hand.n \in Nat
  <2>1. Len(order) \in Nat /\ (order # <<>> => Len(order) # 0)
    BY LenProperties DEF LinkType
  <2> QED
    BY <2>1, RequestFields DEF LinkType, HandParts, Written
<1>6. ASSUME NEW l \in {"high", "normal"}, Take(l)
      PROVE  TraceParts' /\ HandParts'
  <2> DEFINE r == Head(queue[l])
  <2>1. r \in Queued
    BY <1>6, TakeGives DEF Lanes
  <2>2. r \in Requests /\ r.n \in Nat /\ r.n \notin Written /\ hand = Nothing
    BY <1>6, <2>1, RequestFields DEF NumberInv, Queued, Take
  <2>3. UNCHANGED <<rx, prompting, late>>
    BY <1>6 DEF Take
  <2>4. CASE hand' = r /\ wire' = Append(wire, [n |-> r.n, t |-> r.kind]) /\ order' = Append(order, r.n)
    <3> HIDE DEF r
    <3>1. order \in Seq(Nat) /\ OrderedOnce
      BY DEF LinkType, NumberInv
    <3>2. /\ Written' = Written \cup {r.n} /\ order'[Len(order')] = r.n /\ order' # <<>>
      BY <2>2, <2>4, <3>1, WriteGives
    <3>3. [n |-> r.n, t |-> r.kind] \in Writes
      BY <2>2, RequestFields DEF Writes
    <3>4. TraceParts'
      BY <2>3, <2>4, <3>2, <3>3, TraceKept DEF TraceParts
    <3>5. HandParts'
      BY <2>2, <2>3, <2>4, <3>2 DEF HandParts
    <3> QED
      BY <3>4, <3>5
  <2>5. CASE UNCHANGED <<hand, wire, order>>
    BY <2>3, <2>5 DEF TraceParts, HandParts, Written
  <2> QED
    BY <1>6, <2>4, <2>5 DEF Take
<1>7. CASE TimeOut
  <2>1. UNCHANGED <<rx, prompting, order>> /\ late' = late \cup {hand.n} /\ hand # Nothing /\ hand' = Nothing
    BY <1>7 DEF TimeOut
  <2>2. Written' = Written
    BY <2>1 DEF Written
  <2>3. [n |-> hand.n, t |-> "esc"] \in Writes /\ [n |-> hand.n, t |-> "esc"].n = hand.n
    BY <1>5, <2>1 DEF Writes
  <2>4. wire' = wire \/ wire' = Append(wire, [n |-> hand.n, t |-> "esc"])
    BY <1>7 DEF TimeOut
  <2>5. TraceParts'
    BY <1>5, <2>1, <2>2, <2>3, <2>4, TraceKept DEF TraceParts
  <2>6. HandParts'
    <3>1. IsFiniteSet(late')
      BY <2>1, FS_AddElement DEF HandParts
    <3> QED
      BY <1>5, <2>1, <2>2, <3>1 DEF HandParts
  <2> QED
    BY <2>5, <2>6
<1>8. CASE Line
  <2>1. UNCHANGED <<prompting, order, late>> /\ hand # Nothing /\ hand' \in {hand, Nothing}
        /\ rx # <<>> /\ rx' = Tail(rx)
    BY <1>8 DEF Line
  <2>2. Written' = Written
    BY <2>1 DEF Written
  <2>3. [n |-> hand.n, t |-> "text"] \in Writes /\ [n |-> hand.n, t |-> "text"].n = hand.n
    BY <1>5, <2>1 DEF Writes
  <2>4. wire' = wire \/ wire' = Append(wire, [n |-> hand.n, t |-> "text"])
    BY <1>8 DEF Line
  <2>5. TraceParts'
    BY <1>5, <2>1, <2>2, <2>3, <2>4, TraceKept DEF TraceParts
  <2>6. HandParts'
    BY <2>1, <2>2 DEF HandParts
  <2> QED
    BY <2>5, <2>6
<1>9. CASE Idle \/ LoopPanics
  <2>1. /\ UNCHANGED <<prompting, order, late, wire>> /\ hand' \in {hand, Nothing}
        /\ rx # <<>> /\ rx' = Tail(rx)
    BY <1>9 DEF Idle, LoopPanics
  <2>2. Written' = Written
    BY <2>1 DEF Written
  <2>3. TraceParts'
    BY <2>1, <2>2, TraceKept DEF TraceParts
  <2> QED
    BY <2>1, <2>2, <2>3 DEF HandParts
<1>10. CASE ModuleReads
  <2>1. UNCHANGED <<order, late, hand>>
    BY <1>10 DEF ModuleReads
  <2>2. Written' = Written
    BY <2>1 DEF Written
  <2>3. TraceParts'
    BY <1>10, <2>2, ReadsGive, TraceKept
  <2> QED
    BY <2>1, <2>2, <2>3 DEF HandParts
<1>11. CASE URC \/ ReportError
  <2>1. UNCHANGED <<order, late, hand, wire, prompting>>
    BY <1>11 DEF URC, ReportError
  <2>2. Written' = Written
    BY <2>1 DEF Written
  <2>3. \A t \in {"urc", "error"} : [n |-> 0, t |-> t] \in Heards /\ [n |-> 0, t |-> t].t \notin Spoken
    BY DEF Heards, Lines, Spoken
  <2>4. rx' = Append(rx, [n |-> 0, t |-> "urc"]) \/ rx' = Append(rx, [n |-> 0, t |-> "error"])
    BY <1>11 DEF URC, ReportError, Heard
  <2>5. TraceParts'
    BY <2>1, <2>2, <2>3, <2>4, TraceKept DEF TraceParts
  <2> QED
    BY <2>1, <2>2, <2>5 DEF HandParts
<1>12. CASE UNCHANGED vars
  BY <1>1, <1>4, <1>12
<1>13. CASE Next
  BY <1>1, <1>2, <1>3, <1>4, <1>6, <1>7, <1>8, <1>9, <1>10, <1>11, <1>13 DEF Next
<1> QED
  BY <1>12, <1>13

-----------------------------------------------------------------------------
\* The commands that lines will end, counted

\* An entry that becomes an answer, or is one: it ends at most one command.
Counts(e) == IF e.t \in {"urc", "error", "esc"} THEN 0 ELSE 1

\* f[i] bounds the place of the command that entry i will end from below.
Tally(s, f) ==
    /\ f \in [1 .. Len(s) + 1 -> Int]
    /\ \A i \in 1 .. Len(s) : f[i + 1] = f[i] + Counts(s[i])

Dropped(s, f) == [i \in 1 .. Len(s) |-> f[i + 1]]
Extended(s, f, e) ==
    [i \in 1 .. Len(s) + 2 |-> IF i = Len(s) + 2 THEN f[Len(s) + 1] + Counts(e) ELSE f[i]]
Lowered(s, f) == [i \in 1 .. Len(s) + 1 |-> f[i] - 1]

\* A tally, index by index.
LEMMA TallyIs ==
    ASSUME NEW Item, NEW s \in Seq(Item), NEW f, Tally(s, f)
    PROVE  /\ Len(s) \in Nat
           /\ \A i \in 1 .. Len(s) + 1 : f[i] \in Int
           /\ \A i \in 1 .. Len(s) :
                i \in 1 .. Len(s) + 1 /\ i + 1 \in 1 .. Len(s) + 1 /\ f[i + 1] = f[i] + Counts(s[i])
           /\ \A e : Counts(e) \in {0, 1}
BY LenProperties DEF Tally, Counts

\* The tally of what is left without the head.
LEMMA TallyTail ==
    ASSUME NEW Item, NEW s \in Seq(Item), s # <<>>, NEW f, Tally(s, f)
    PROVE  /\ Tally(Tail(s), Dropped(s, f)) /\ f[2] = f[1] + Counts(s[1])
           /\ \A i \in 1 .. Len(s) : Dropped(s, f)[i] = f[i + 1]
           /\ Dropped(s, f)[1] = f[2]
           /\ Dropped(s, f)[Len(Tail(s)) + 1] = f[Len(s) + 1]
<1> DEFINE N == Len(s)
           g == Dropped(s, f)
<1>1. /\ Len(Tail(s)) = N - 1 /\ N \in Nat \ {0}
      /\ \A i \in 1 .. N - 1 : Tail(s)[i] = s[i + 1] /\ i + 1 \in 1 .. N
  BY TailElements
<1>2. /\ \A i \in 1 .. N + 1 : f[i] \in Int
      /\ \A i \in 1 .. N : i + 1 \in 1 .. N + 1 /\ f[i + 1] = f[i] + Counts(s[i])
  BY TallyIs
<1>3. /\ \A i \in 1 .. N : g[i] = f[i + 1]
      /\ g \in [1 .. N -> Int] /\ (N - 1) + 1 = N
  BY <1>1, <1>2 DEF Dropped
<1> HIDE DEF N, g
<1>4. \A i \in 1 .. N - 1 : g[i + 1] = g[i] + Counts(Tail(s)[i])
  <2> SUFFICES ASSUME NEW i \in 1 .. N - 1
               PROVE  g[i + 1] = g[i] + Counts(Tail(s)[i])
    OBVIOUS
  <2>1. i \in 1 .. N /\ i + 1 \in 1 .. N
    BY <1>1
  <2> QED
    BY <1>1, <1>2, <1>3, <2>1
<1>5. Tally(Tail(s), g)
  BY <1>1, <1>3, <1>4 DEF Tally
<1>6. f[2] = f[1] + Counts(s[1]) /\ g[1] = f[2] /\ g[N] = f[N + 1]
  <2>1. 1 \in 1 .. N /\ N \in 1 .. N /\ 1 + 1 = 2
    BY <1>1
  <2> QED
    BY <1>2, <1>3, <2>1
<1> QED
  BY <1>1, <1>3, <1>5, <1>6 DEF N, g

\* The tally with one element more.
LEMMA TallyAppend ==
    ASSUME NEW Item, NEW s \in Seq(Item), NEW e \in Item, NEW f, Tally(s, f)
    PROVE  /\ Tally(Append(s, e), Extended(s, f, e)) /\ Len(Append(s, e)) = Len(s) + 1
           /\ \A i \in 1 .. Len(s) + 1 : Extended(s, f, e)[i] = f[i]
           /\ Extended(s, f, e)[1] = f[1]
           /\ Extended(s, f, e)[Len(s) + 2] = f[Len(s) + 1] + Counts(e)
<1> DEFINE N == Len(s)
           g == Extended(s, f, e)
<1>1. /\ Len(Append(s, e)) = N + 1 /\ N \in Nat /\ Append(s, e)[N + 1] = e
      /\ \A i \in 1 .. N : Append(s, e)[i] = s[i]
  BY AppendProperties, LenProperties
<1>2. /\ \A i \in 1 .. N + 1 : f[i] \in Int
      /\ \A i \in 1 .. N : i + 1 \in 1 .. N + 1 /\ f[i + 1] = f[i] + Counts(s[i])
      /\ \A x : Counts(x) \in {0, 1}
  BY TallyIs
<1> HIDE DEF N
<1>3. /\ \A i \in 1 .. N + 1 : g[i] = f[i]
      /\ g[N + 2] = f[N + 1] + Counts(e)
      /\ DOMAIN g = 1 .. N + 2 /\ N + 1 \in 1 .. N + 1 /\ 1 \in 1 .. N + 1
  BY <1>1 DEF Extended, N
<1>4. g \in [1 .. N + 2 -> Int]
  <2>1. \A i \in 1 .. N + 2 : i = N + 2 \/ i \in 1 .. N + 1
    BY <1>1
  <2>2. f[N + 1] \in Int /\ f[N + 1] + Counts(e) \in Int
    BY <1>2, <1>3
  <2>3. \A i \in 1 .. N + 2 : g[i] \in Int
    BY <1>2, <1>3, <2>1, <2>2
  <2>4. g = [i \in 1 .. N + 2 |-> g[i]]
    BY <1>3 DEF Extended, N
  <2> HIDE DEF g
  <2> QED
    BY <2>3, <2>4
<1> HIDE DEF g
<1>5. \A i \in 1 .. N + 1 : g[i + 1] = g[i] + Counts(Append(s, e)[i])
  <2> SUFFICES ASSUME NEW i \in 1 .. N + 1
               PROVE  g[i + 1] = g[i] + Counts(Append(s, e)[i])
    OBVIOUS
  <2>1. CASE i = N + 1
    <3>1. i + 1 = N + 2
      BY <1>1, <2>1
    <3> QED
      BY <1>1, <1>3, <2>1, <3>1
  <2>2. CASE i \in 1 .. N
    BY <1>1, <1>2, <1>3, <2>2
  <2> QED
    BY <1>1, <2>1, <2>2
<1>6. Tally(Append(s, e), g)
  <2>1. Len(Append(s, e)) + 1 = N + 2
    BY <1>1
  <2> QED
    BY <1>1, <1>4, <1>5, <2>1 DEF Tally
<1> QED
  BY <1>1, <1>3, <1>6 DEF N, g

\* The tally with one less everywhere.
LEMMA TallyLowered ==
    ASSUME NEW Item, NEW s \in Seq(Item), NEW f, Tally(s, f)
    PROVE  /\ Tally(s, Lowered(s, f))
           /\ \A i \in 1 .. Len(s) + 1 : Lowered(s, f)[i] = f[i] - 1
           /\ Lowered(s, f)[1] = f[1] - 1
           /\ Lowered(s, f)[Len(s) + 1] = f[Len(s) + 1] - 1
<1> DEFINE N == Len(s)
           g == Lowered(s, f)
<1>1. /\ \A i \in 1 .. N + 1 : f[i] \in Int
      /\ \A i \in 1 .. N : i + 1 \in 1 .. N + 1 /\ f[i + 1] = f[i] + Counts(s[i])
      /\ \A x : Counts(x) \in {0, 1}
  BY TallyIs
<1>2. /\ \A i \in 1 .. N + 1 : g[i] = f[i] - 1
      /\ g \in [1 .. N + 1 -> Int]
  BY <1>1 DEF Lowered
<1>3. 1 \in 1 .. N + 1 /\ N + 1 \in 1 .. N + 1 /\ N \in Nat
  BY LenProperties
<1> HIDE DEF N, g
<1>4. \A i \in 1 .. N : g[i + 1] = g[i] + Counts(s[i])
  <2>1. \A i \in 1 .. N : i \in 1 .. N + 1
    BY <1>3
  <2> QED
    BY <1>1, <1>2, <2>1
<1>5. Tally(s, g)
  BY <1>2, <1>4 DEF Tally, N
<1> QED
  BY <1>2, <1>3, <1>5 DEF N, g

TextAhead(s, i) ==
    \E j \in i .. Len(s) : s[j].t = "text" /\ \A k \in i .. j : s[k].t # "esc"

\* A text that is ahead stays ahead when the head is dropped.
LEMMA AheadTail ==
    ASSUME NEW Item, NEW s \in Seq(Item), s # <<>>
    PROVE  /\ \A i \in 1 .. Len(s) : TextAhead(Tail(s), i) => TextAhead(s, i + 1)
           /\ s[1].t # "esc" /\ TextAhead(s, 2) => TextAhead(s, 1)
<1> DEFINE N == Len(s)
<1>1. /\ Len(Tail(s)) = N - 1 /\ N \in Nat \ {0}
      /\ \A i \in 1 .. N - 1 : Tail(s)[i] = s[i + 1] /\ i + 1 \in 1 .. N
  BY TailElements
<1>2. ASSUME NEW i \in 1 .. N, TextAhead(Tail(s), i)
      PROVE  TextAhead(s, i + 1)
  <2>1. PICK j \in i .. N - 1 : Tail(s)[j].t = "text" /\ \A k \in i .. j : Tail(s)[k].t # "esc"
    BY <1>1, <1>2 DEF TextAhead
  <2>2. j + 1 \in (i + 1) .. N /\ s[j + 1].t = "text"
    BY <1>1, <2>1
  <2>3. ASSUME NEW k \in (i + 1) .. (j + 1)
        PROVE  s[k].t # "esc"
    <3>1. k - 1 \in i .. j /\ k - 1 \in 1 .. N - 1 /\ (k - 1) + 1 = k
      BY <1>1, <2>1, <2>3
    <3>2. Tail(s)[k - 1] = s[k]
      BY <1>1, <3>1
    <3> QED
      BY <2>1, <3>1, <3>2
  <2> QED
    BY <2>2, <2>3 DEF TextAhead
<1>3. ASSUME s[1].t # "esc", TextAhead(s, 2)
      PROVE  TextAhead(s, 1)
  <2>1. PICK j \in 2 .. N : s[j].t = "text" /\ \A k \in 2 .. j : s[k].t # "esc"
    BY <1>3 DEF TextAhead
  <2>2. \A k \in 1 .. j : k = 1 \/ k \in 2 .. j
    BY <2>1
  <2> QED
    BY <1>1, <1>3, <2>1, <2>2 DEF TextAhead
<1> QED
  BY <1>2, <1>3

\* What is appended, not being a text, puts none ahead.
LEMMA AheadAppend ==
    ASSUME NEW Item, NEW s \in Seq(Item), NEW e \in Item, e.t # "text"
    PROVE  /\ \A i \in 1 .. Len(s) + 1 : TextAhead(Append(s, e), i) => i # Len(s) + 1 /\ TextAhead(s, i)
           /\ ~TextAhead(Append(s, e), Len(s) + 2)
<1> DEFINE N == Len(s)
<1>1. /\ Len(Append(s, e)) = N + 1 /\ N \in Nat /\ Append(s, e)[N + 1] = e
      /\ \A i \in 1 .. N : Append(s, e)[i] = s[i]
  BY AppendProperties, LenProperties
<1>2. ASSUME NEW i \in 1 .. N + 1, TextAhead(Append(s, e), i)
      PROVE  i # N + 1 /\ TextAhead(s, i)
  <2>1. PICK j \in i .. N + 1 : Append(s, e)[j].t = "text" /\ \A k \in i .. j : Append(s, e)[k].t # "esc"
    BY <1>1, <1>2 DEF TextAhead
  <2>2. j \in i .. N /\ j \in 1 .. N
    BY <1>1, <2>1
  <2>3. \A k \in i .. j : k \in 1 .. N
    BY <1>1, <2>2
  <2> QED
    BY <1>1, <2>1, <2>2, <2>3 DEF TextAhead
<1>3. ~TextAhead(Append(s, e), N + 2)
  BY <1>1 DEF TextAhead
<1> QED
  BY <1>2, <1>3

\* a bounds what the lines of s may end, given what was written; the first of
\* them may end command number base, or a later one.
LinesFlow(s, base, ord, a) ==
    /\ Tally(s, a) /\ base <= a[1]
    /\ \A i \in 1 .. Len(s) : s[i].t \in Spoken => a[i] <= PlaceIn(ord, s[i].n)

\* b bounds what the answers to the entries of s will end.  An sms command
\* whose prompt will find a text on its way has one line more.
WritesFlow(s, ord, b) ==
    /\ Tally(s, b) /\ b[Len(s) + 1] <= Len(ord) + 1
    /\ \A i \in 1 .. Len(s) : s[i].t \in {"normal", "high", "sms"} => b[i] <= PlaceIn(ord, s[i].n)
    /\ \A i \in 1 .. Len(s) : s[i].t = "sms" /\ TextAhead(s, i + 1) =>
          b[i] + 1 <= PlaceIn(ord, s[i].n)

\* A place is a number.
LEMMA PlacesAre ==
    ASSUME order \in Seq(Nat), OrderedOnce
    PROVE  \A n : PlaceIn(order, n) \in Int
BY PlaceIs

\* A line that is consumed leaves the others with their bounds.
LEMMA LinesDropped ==
    ASSUME NEW s \in Seq(Heards), s # <<>>, NEW base \in Int, NEW ord, NEW a, LinesFlow(s, base, ord, a),
           NEW c \in Int, c <= a[2]
    PROVE  LinesFlow(Tail(s), c, ord, Dropped(s, a))
<1> DEFINE g == Dropped(s, a)
<1>1. /\ Len(Tail(s)) = Len(s) - 1 /\ Len(s) \in Nat \ {0}
      /\ \A i \in 1 .. Len(s) - 1 : Tail(s)[i] = s[i + 1] /\ i + 1 \in 1 .. Len(s) /\ i \in 1 .. Len(s)
  BY TailElements
<1>2. /\ Tally(Tail(s), g) /\ g[1] = a[2]
      /\ \A i \in 1 .. Len(s) : g[i] = a[i + 1]
  BY TallyTail DEF LinesFlow
<1> HIDE DEF g
<1>3. ASSUME NEW i \in 1 .. Len(Tail(s)), Tail(s)[i].t \in Spoken
      PROVE  g[i] <= PlaceIn(ord, Tail(s)[i].n)
  <2>1. i \in 1 .. Len(s) /\ i + 1 \in 1 .. Len(s) /\ Tail(s)[i] = s[i + 1]
    BY <1>1
  <2>2. a[i + 1] <= PlaceIn(ord, s[i + 1].n)
    BY <1>3, <2>1 DEF LinesFlow
  <2> QED
    BY <1>2, <2>1, <2>2
<1>4. LinesFlow(Tail(s), c, ord, g)
  BY <1>2, <1>3 DEF LinesFlow
<1> QED
  BY <1>4 DEF g

\* One time-out more lowers every bound by one.
LEMMA LinesLowered ==
    ASSUME NEW s \in Seq(Heards), NEW base \in Int, NEW ord, NEW a, LinesFlow(s, base, ord, a),
           \A n : PlaceIn(ord, n) \in Int
    PROVE  LinesFlow(s, base - 1, ord, Lowered(s, a))
<1> DEFINE g == Lowered(s, a)
<1>1. /\ Len(s) \in Nat /\ \A i \in 1 .. Len(s) : i \in 1 .. Len(s) + 1
      /\ \A i \in 1 .. Len(s) + 1 : a[i] \in Int
  BY TallyIs DEF LinesFlow
<1>2. /\ Tally(s, g) /\ g[1] = a[1] - 1
      /\ \A i \in 1 .. Len(s) + 1 : g[i] = a[i] - 1
  BY TallyLowered DEF LinesFlow
<1> HIDE DEF g
<1>3. ASSUME NEW i \in 1 .. Len(s), s[i].t \in Spoken
      PROVE  g[i] <= PlaceIn(ord, s[i].n)
  <2>1. g[i] = a[i] - 1 /\ a[i] \in Int /\ a[i] <= PlaceIn(ord, s[i].n) /\ PlaceIn(ord, s[i].n) \in Int
    BY <1>1, <1>2, <1>3 DEF LinesFlow
  <2> QED
    BY <2>1
<1>4. base - 1 <= g[1]
  <2>1. 1 \in 1 .. Len(s) + 1
    BY <1>1
  <2> QED
    BY <1>1, <1>2, <2>1 DEF LinesFlow
<1>5. LinesFlow(s, base - 1, ord, g)
  BY <1>2, <1>3, <1>4 DEF LinesFlow
<1> QED
  BY <1>5 DEF g

\* A line that comes in under its bound keeps all bounds.
LEMMA LinesAppended ==
    ASSUME NEW s \in Seq(Heards), NEW base, NEW ord, NEW a, LinesFlow(s, base, ord, a), NEW m \in Heards,
           m.t \in Spoken => a[Len(s) + 1] <= PlaceIn(ord, m.n)
    PROVE  LinesFlow(Append(s, m), base, ord, Extended(s, a, m))
<1> DEFINE g == Extended(s, a, m)
           z == Append(s, m)
<1>1. /\ Len(z) = Len(s) + 1 /\ z[Len(s) + 1] = m /\ Len(s) \in Nat
      /\ \A i \in 1 .. Len(s) : z[i] = s[i]
  BY AppendProperties, LenProperties
<1>2. /\ Tally(z, g) /\ g[1] = a[1] /\ \A i \in 1 .. Len(s) + 1 : g[i] = a[i]
  BY TallyAppend DEF LinesFlow
<1> HIDE DEF g, z
<1>3. ASSUME NEW i \in 1 .. Len(z), z[i].t \in Spoken
      PROVE  g[i] <= PlaceIn(ord, z[i].n)
  <2>1. CASE i = Len(s) + 1
    <3>1. i \in 1 .. Len(s) + 1
      BY <1>1, <2>1
    <3>2. z[i] = m /\ g[i] = a[i]
      BY <1>1, <1>2, <2>1, <3>1
    <3> QED
      BY <1>3, <2>1, <3>2
  <2>2. CASE i \in 1 .. Len(s)
    <3>1. i \in 1 .. Len(s) + 1
      BY <1>1, <2>2
    <3>2. z[i] = s[i] /\ g[i] = a[i]
      BY <1>1, <1>2, <2>2, <3>1
    <3> QED
      BY <1>3, <2>2, <3>2 DEF LinesFlow
  <2> QED
    BY <1>1, <2>1, <2>2
<1>4. LinesFlow(z, base, ord, g)
  BY <1>2, <1>3 DEF LinesFlow
<1> QED
  BY <1>4 DEF g, z

\* Commands written later leave the places of the lines alone.
LEMMA LinesReordered ==
    ASSUME NEW s, NEW base, NEW ord, NEW new, NEW a, LinesFlow(s, base, ord, a),
           \A i \in 1 .. Len(s) : s[i].t \in Spoken => PlaceIn(new, s[i].n) = PlaceIn(ord, s[i].n)
    PROVE  LinesFlow(s, base, new, a)
BY DEF LinesFlow

\* An idle line has any bound.
LEMMA LinesEmpty ==
    ASSUME NEW base \in Int, NEW ord
    PROVE  \E a : LinesFlow(<<>>, base, ord, a)
<1> DEFINE a == [i \in 1 .. 1 |-> base]
<1>1. Len(<<>>) = 0 /\ 0 + 1 = 1
  OBVIOUS
<1>2. a \in [1 .. 1 -> Int] /\ a[1] = base /\ 1 .. 0 = {}
  OBVIOUS
<1> HIDE DEF a
<1>3. LinesFlow(<<>>, base, ord, a)
  BY <1>1, <1>2 DEF LinesFlow, Tally
<1> QED
  BY <1>3

\* A write the module has read leaves the others with their bounds.
LEMMA WritesDropped ==
    ASSUME NEW s \in Seq(Writes), s # <<>>, NEW ord, NEW b, WritesFlow(s, ord, b)
    PROVE  WritesFlow(Tail(s), ord, Dropped(s, b))
<1> DEFINE g == Dropped(s, b)
           z == Tail(s)
<1>1. /\ Len(z) = Len(s) - 1 /\ Len(s) \in Nat \ {0}
      /\ \A i \in 1 .. Len(s) - 1 : z[i] = s[i + 1] /\ i + 1 \in 1 .. Len(s) /\ i \in 1 .. Len(s)
  BY TailElements
<1>2. /\ Tally(z, g) /\ g[Len(z) + 1] = b[Len(s) + 1]
      /\ \A i \in 1 .. Len(s) : g[i] = b[i + 1]
  BY TallyTail DEF WritesFlow
<1>3. \A i \in 1 .. Len(s) : TextAhead(z, i) => TextAhead(s, i + 1)
  BY AheadTail
<1> HIDE DEF g, z
<1>4. \A i \in 1 .. Len(z) :
        i \in 1 .. Len(s) /\ i + 1 \in 1 .. Len(s) /\ z[i] = s[i + 1] /\ g[i] = b[i + 1]
  BY <1>1, <1>2
<1>5. ASSUME NEW i \in 1 .. Len(z), z[i].t \in {"normal", "high", "sms"}
      PROVE  g[i] <= PlaceIn(ord, z[i].n)
  BY <1>4, <1>5 DEF WritesFlow
<1>6. ASSUME NEW i \in 1 .. Len(z), z[i].t = "sms", TextAhead(z, i + 1)
      PROVE  g[i] + 1 <= PlaceIn(ord, z[i].n)
  <2>1. TextAhead(s, (i + 1) + 1)
    BY <1>3, <1>4, <1>6
  <2> QED
    BY <1>4, <1>6, <2>1 DEF WritesFlow
<1>7. g[Len(z) + 1] <= Len(ord) + 1
  BY <1>2 DEF WritesFlow
<1>8. WritesFlow(z, ord, g)
  BY <1>2, <1>5, <1>6, <1>7 DEF WritesFlow
<1> QED
  BY <1>8 DEF g, z

\* One more command, or ESC.  ord and new are the orders before and after.
LEMMA WritesAppended ==
    ASSUME NEW s \in Seq(Writes), NEW ord, NEW new, NEW b, WritesFlow(s, ord, b),
           NEW w \in Writes, w.t # "text",
           \A i \in 1 .. Len(s) : PlaceIn(new, s[i].n) = PlaceIn(ord, s[i].n),
           w.t # "esc" => b[Len(s) + 1] <= PlaceIn(new, w.n),
           b[Len(s) + 1] + Counts(w) <= Len(new) + 1
    PROVE  WritesFlow(Append(s, w), new, Extended(s, b, w))
<1> DEFINE g == Extended(s, b, w)
           z == Append(s, w)
<1>1. /\ Len(z) = Len(s) + 1 /\ z[Len(s) + 1] = w /\ Len(s) \in Nat
      /\ \A i \in 1 .. Len(s) : z[i] = s[i]
  BY AppendProperties, LenProperties
<1>2. /\ Tally(z, g) /\ \A i \in 1 .. Len(s) + 1 : g[i] = b[i]
      /\ g[Len(s) + 2] = b[Len(s) + 1] + Counts(w)
  BY TallyAppend DEF WritesFlow
<1>3. /\ \A i \in 1 .. Len(s) + 1 : TextAhead(z, i) => i # Len(s) + 1 /\ TextAhead(s, i)
      /\ ~TextAhead(z, Len(s) + 2)
  BY AheadAppend
<1> HIDE DEF g, z
<1>4. \A i \in 1 .. Len(z) :
        \/ i = Len(s) + 1 /\ z[i] = w /\ g[i] = b[Len(s) + 1]
        \/ i \in 1 .. Len(s) /\ z[i] = s[i] /\ g[i] = b[i] /\ i + 1 \in 1 .. Len(s) + 1
  BY <1>1, <1>2
<1>5. ASSUME NEW i \in 1 .. Len(z), z[i].t \in {"normal", "high", "sms"}
      PROVE  g[i] <= PlaceIn(new, z[i].n)
  BY <1>4, <1>5 DEF WritesFlow
<1>6. ASSUME NEW i \in 1 .. Len(z), z[i].t = "sms", TextAhead(z, i + 1)
      PROVE  g[i] + 1 <= PlaceIn(new, z[i].n)
  <2>1. i # Len(s) + 1
    BY <1>1, <1>3, <1>6
  <2>2. i \in 1 .. Len(s) /\ z[i] = s[i] /\ g[i] = b[i] /\ i + 1 \in 1 .. Len(s) + 1
    BY <1>4, <2>1
  <2>3. TextAhead(s, i + 1)
    BY <1>3, <1>6, <2>2
  <2> QED
    BY <1>6, <2>2, <2>3 DEF WritesFlow
<1>7. g[Len(z) + 1] <= Len(new) + 1
  <2>1. Len(z) + 1 = Len(s) + 2
    BY <1>1
  <2> QED
    BY <1>2, <2>1
<1>8. WritesFlow(z, new, g)
  BY <1>2, <1>5, <1>6, <1>7 DEF WritesFlow
<1> QED
  BY <1>8 DEF g, z

\* A text more: it is the line the lowered numbers have in hand.
LEMMA TextAppended ==
    ASSUME NEW s \in Seq(Writes), NEW ord, NEW b, WritesFlow(s, ord, b),
           NEW w \in Writes, w.t = "text", \A n : PlaceIn(ord, n) \in Int, Len(ord) \in Int
    PROVE  /\ WritesFlow(Append(s, w), ord, Extended(s, Lowered(s, b), w))
           /\ Extended(s, Lowered(s, b), w)[1] = b[1] - 1
<1> DEFINE h == Lowered(s, b)
           g == Extended(s, h, w)
           z == Append(s, w)
<1>1. /\ Len(z) = Len(s) + 1 /\ z[Len(s) + 1] = w /\ Len(s) \in Nat
      /\ \A i \in 1 .. Len(s) : z[i] = s[i]
  BY AppendProperties, LenProperties
<1>2. /\ Tally(s, h) /\ h[1] = b[1] - 1 /\ \A i \in 1 .. Len(s) + 1 : h[i] = b[i] - 1
      /\ h[Len(s) + 1] = b[Len(s) + 1] - 1
  BY TallyLowered DEF WritesFlow
<1>3. \A i \in 1 .. Len(s) + 1 : b[i] \in Int
  BY TallyIs DEF WritesFlow
<1> HIDE DEF h
<1>4. /\ Tally(z, g) /\ \A i \in 1 .. Len(s) + 1 : g[i] = h[i]
      /\ g[1] = h[1] /\ g[Len(s) + 2] = h[Len(s) + 1] + Counts(w)
  BY <1>2, TallyAppend
<1> HIDE DEF g, z
<1>5. Counts(w) = 1
  BY DEF Counts
<1>6. \A i \in 1 .. Len(z) :
        \/ i = Len(s) + 1 /\ z[i] = w
        \/ /\ i \in 1 .. Len(s) /\ z[i] = s[i] /\ g[i] = b[i] - 1 /\ i \in 1 .. Len(s) + 1
           /\ b[i] \in Int
  BY <1>1, <1>2, <1>3, <1>4
<1>7. ASSUME NEW i \in 1 .. Len(z), z[i].t \in {"normal", "high", "sms"}
      PROVE  g[i] <= PlaceIn(ord, z[i].n) /\ g[i] + 1 <= PlaceIn(ord, z[i].n)
  <2>1. i \in 1 .. Len(s) /\ z[i] = s[i] /\ g[i] = b[i] - 1 /\ b[i] \in Int
    BY <1>6, <1>7
  <2>2. b[i] <= PlaceIn(ord, s[i].n) /\ PlaceIn(ord, s[i].n) \in Int
    BY <1>7, <2>1 DEF WritesFlow
  <2> QED
    BY <2>1, <2>2
<1>8. g[Len(z) + 1] <= Len(ord) + 1
  <2>1. Len(z) + 1 = Len(s) + 2 /\ Len(s) + 1 \in 1 .. Len(s) + 1
    BY <1>1
  <2>2. b[Len(s) + 1] \in Int /\ b[Len(s) + 1] <= Len(ord) + 1
    BY <1>3, <2>1 DEF WritesFlow
  <2>3. g[Len(s) + 2] = (b[Len(s) + 1] - 1) + 1
    BY <1>2, <1>4, <1>5
  <2> QED
    BY <2>1, <2>2, <2>3
<1>9. WritesFlow(z, ord, g)
  BY <1>4, <1>7, <1>8 DEF WritesFlow
<1> QED
  BY <1>2, <1>4, <1>9 DEF g, h, z

-----------------------------------------------------------------------------
\* The flow of lines, step by step

\* The place of the next command a line can end, less the commands that
\* timed out: each may have left a line behind.
Base == Len(order) + (IF hand = Nothing THEN 1 ELSE 0) - Cardinality(late)

HasLine(s) == \E i \in 1 .. Len(s) : s[i].t \in Spoken

\* e bounds the module's next line, first the answer to its next entry.
Joined(e, first, pr, line, ahead, ord) ==
    /\ e <= first
    /\ pr # 0 /\ line => e - 1 <= PlaceIn(ord, pr)
    /\ pr # 0 /\ ahead => e <= PlaceIn(ord, pr)

Flow(a, b) ==
    /\ LinesFlow(rx, Base, order, a)
    /\ reader = "run" =>
         /\ WritesFlow(wire, order, b)
         /\ Joined(a[Len(rx) + 1], b[1], prompting, HasLine(rx), TextAhead(wire, 1), order)

ErrorLast ==
    \A i \in 1 .. Len(rx) : rx[i].t = "error" => i = Len(rx) /\ reader = "dead" /\ rx[i].n = 0

FlowInv == ErrorLast /\ \E a, b : Flow(a, b)

\* What the proofs about each action have to show, with every number named.
LEMMA FlowBy ==
    ASSUME NEW a, NEW b, ErrorLast', LinesFlow(rx', Base', order', a),
           reader' = "run" => /\ WritesFlow(wire', order', b)
                              /\ Joined(a[Len(rx') + 1], b[1], prompting', HasLine(rx'), TextAhead(wire', 1), order')
    PROVE  FlowInv'
BY DEF FlowInv, Flow

\* What the steps below keep needing of the types.
LEMMA FlowFacts ==
    ASSUME LinkType, NumberInv, HandParts
    PROVE  /\ Base \in Int /\ Cardinality(late) \in Nat /\ IsFiniteSet(late)
           /\ rx \in Seq(Heards) /\ wire \in Seq(Writes)
           /\ Len(order) \in Nat /\ Len(rx) \in Nat /\ Len(wire) \in Nat
           /\ order \in Seq(Nat) /\ OrderedOnce
           /\ \A n : PlaceIn(order, n) \in Int
BY PlacesAre, FS_CardinalityType, LenProperties DEF Base, LinkType, NumberInv, HandParts

\* Nothing is on its way.
LEMMA FlowInit == MCInit => FlowInv
<1> SUFFICES ASSUME MCInit
             PROVE  FlowInv
  OBVIOUS
<1>1. /\ rx = <<>> /\ wire = <<>> /\ order = <<>> /\ hand = Nothing /\ late = {} /\ prompting = 0
  BY DEF MCInit, Init
<1>2. /\ Len(rx) = 0 /\ Len(wire) = 0 /\ Len(order) = 0 /\ 0 + 1 = 1 /\ 1 .. 0 = {}
      /\ Cardinality(late) = 0
  BY <1>1, FS_EmptySet
<1>3. Base = 1
  BY <1>1, <1>2 DEF Base
<1> DEFINE a == [i \in 1 .. 1 |-> 1]
<1>4. a \in [1 .. 1 -> Int] /\ a[1] = 1
  OBVIOUS
<1> HIDE DEF a
<1>5. LinesFlow(rx, Base, order, a)
  BY <1>2, <1>3, <1>4 DEF LinesFlow, Tally
<1>6. WritesFlow(wire, order, a)
  BY <1>2, <1>4 DEF WritesFlow, Tally
<1>7. Joined(a[Len(rx) + 1], a[1], prompting, HasLine(rx), TextAhead(wire, 1), order)
  BY <1>1, <1>2, <1>4 DEF Joined
<1>8. ErrorLast
  BY <1>2 DEF ErrorLast
<1> QED
  BY <1>5, <1>6, <1>7, <1>8 DEF FlowInv, Flow

\* Nothing that flows changes.
LEMMA FlowSame ==
    ASSUME FlowInv, UNCHANGED <<rx, wire, prompting, order, hand, late>>,
           reader' = reader \/ reader = "run"
    PROVE  FlowInv'
<1>1. PICK a, b : Flow(a, b)
  BY DEF FlowInv
<1>2. ErrorLast'
  BY DEF ErrorLast, FlowInv
<1>3. LinesFlow(rx', Base', order', a)
  BY <1>1 DEF Flow, Base
<1>4. reader' = "run" =>
        /\ WritesFlow(wire', order', b)
        /\ Joined(a[Len(rx') + 1], b[1], prompting', HasLine(rx'), TextAhead(wire', 1), order')
  BY <1>1 DEF Flow
<1> QED
  BY <1>2, <1>3, <1>4, FlowBy

\* A command that is written comes last and finds its bound.
LEMMA FlowTake ==
    ASSUME LinkType, NumberInv, TraceParts, HandParts, FlowInv, NEW r \in Requests, r.n \notin Written,
           hand = Nothing, hand' = r, wire' = Append(wire, [n |-> r.n, t |-> r.kind]),
           order' = Append(order, r.n), UNCHANGED <<rx, prompting, late, reader>>
    PROVE  FlowInv'
<1> DEFINE w == [n |-> r.n, t |-> r.kind]
<1>0. PICK a, b : Flow(a, b)
  BY DEF FlowInv
<1> DEFINE h == Extended(wire, b, w)
<1>1. /\ r.n \in Nat /\ w \in Writes /\ w.n = r.n /\ w.t \in {"normal", "high", "sms"} /\ r # Nothing
  BY RequestFields DEF Writes
<1> HIDE DEF w
<1>2. /\ Base \in Int /\ Cardinality(late) \in Nat /\ Len(order) \in Nat
      /\ order \in Seq(Nat) /\ OrderedOnce
      /\ rx \in Seq(Heards) /\ wire \in Seq(Writes)
  BY FlowFacts
<1>3. /\ Len(order') = Len(order) + 1
      /\ \A m \in Written : PlaceIn(order', m) = PlaceIn(order, m)
      /\ PlaceIn(order', r.n) = Len(order) + 1
  BY <1>1, <1>2, WriteGives
<1>4. Base' = Base
  BY <1>1, <1>2, <1>3 DEF Base
<1>5. LinesFlow(rx', Base', order', a)
  <2>1. \A i \in 1 .. Len(rx) : rx[i].t \in Spoken => PlaceIn(order', rx[i].n) = PlaceIn(order, rx[i].n)
    BY <1>3 DEF TraceParts
  <2> QED
    BY <1>0, <1>4, <2>1, LinesReordered DEF Flow
<1>6. ASSUME reader = "run"
      PROVE  /\ WritesFlow(wire', order', h)
             /\ Joined(a[Len(rx') + 1], h[1], prompting', HasLine(rx'), TextAhead(wire', 1), order')
  <2>1. WritesFlow(wire, order, b) /\ Joined(a[Len(rx) + 1], b[1], prompting, HasLine(rx), TextAhead(wire, 1), order)
    BY <1>0, <1>6 DEF Flow
  <2>2. \A i \in 1 .. Len(wire) : PlaceIn(order', wire[i].n) = PlaceIn(order, wire[i].n)
    BY <1>3 DEF TraceParts
  <2>3. b[Len(wire) + 1] <= Len(order) + 1 /\ b[Len(wire) + 1] \in Int /\ Counts(w) \in {0, 1}
    <3>1. Tally(wire, b) /\ Len(wire) + 1 \in 1 .. Len(wire) + 1 /\ Len(wire) \in Nat
      BY <1>2, <2>1, LenProperties DEF WritesFlow
    <3> QED
      BY <1>2, <2>1, <3>1, TallyIs DEF WritesFlow
  <2>4. b[Len(wire) + 1] <= PlaceIn(order', w.n) /\ b[Len(wire) + 1] + Counts(w) <= Len(order') + 1
    BY <1>1, <1>2, <1>3, <2>3
  <2>5. wire' = Append(wire, w) /\ w.t # "text"
    BY <1>1 DEF w
  <2>6. WritesFlow(wire', order', h)
    BY <1>1, <1>2, <2>1, <2>2, <2>4, <2>5, WritesAppended
  <2>7. h[1] = b[1]
    BY <1>1, <1>2, <2>1, TallyAppend DEF WritesFlow
  <2>8. TextAhead(wire', 1) => TextAhead(wire, 1)
    <3>1. 1 \in 1 .. Len(wire) + 1
      BY <1>2, LenProperties
    <3> QED
      BY <1>1, <1>2, <2>5, <3>1, AheadAppend
  <2>9. prompting # 0 => PlaceIn(order', prompting) = PlaceIn(order, prompting)
    BY <1>3 DEF TraceParts
  <2> HIDE DEF h
  <2>10. Joined(a[Len(rx') + 1], h[1], prompting', HasLine(rx'), TextAhead(wire', 1), order')
    BY <2>1, <2>7, <2>8, <2>9 DEF Joined
  <2> QED
    BY <2>6, <2>10
<1>7. ErrorLast'
  BY DEF ErrorLast, FlowInv
<1> QED
  BY <1>5, <1>6, <1>7, FlowBy

\* A command that times out lets every line end one command later.
LEMMA FlowTimeOut ==
    ASSUME LinkType, NumberInv, TraceParts, HandParts, FlowInv, TimeOut, ~stop
    PROVE  FlowInv'
<1> USE DEF link, loops, module, callers, hist, bounds
<1> DEFINE w == [n |-> hand.n, t |-> "esc"]
<1>0. PICK a, b : Flow(a, b)
  BY DEF FlowInv
<1> DEFINE h == Extended(wire, b, w)
<1>1. /\ hand # Nothing /\ wire' = Append(wire, w) /\ late' = late \cup {hand.n} /\ hand' = Nothing
      /\ UNCHANGED <<rx, prompting, order, reader>>
  BY DEF TimeOut
<1>2. /\ Base \in Int /\ Cardinality(late) \in Nat /\ IsFiniteSet(late) /\ Len(order) \in Nat
      /\ rx \in Seq(Heards) /\ wire \in Seq(Writes) /\ Len(wire) \in Nat
  BY FlowFacts
<1>3. w \in Writes /\ w.t = "esc" /\ Counts(w) = 0
  BY <1>1, RequestFields DEF Writes, LinkType, Counts
<1> HIDE DEF w
<1>4. Cardinality(late') = Cardinality(late) + 1
  <2>1. hand.n \notin late
    BY <1>1 DEF HandParts
  <2> QED
    BY <1>1, <1>2, <2>1, FS_AddElement
<1>5. Base' = Base
  BY <1>1, <1>2, <1>4 DEF Base
<1>6. LinesFlow(rx', Base', order', a)
  BY <1>0, <1>1, <1>5 DEF Flow
<1>7. ASSUME reader = "run"
      PROVE  /\ WritesFlow(wire', order', h)
             /\ Joined(a[Len(rx') + 1], h[1], prompting', HasLine(rx'), TextAhead(wire', 1), order')
  <2>1. WritesFlow(wire, order, b) /\ Joined(a[Len(rx) + 1], b[1], prompting, HasLine(rx), TextAhead(wire, 1), order)
    BY <1>0, <1>7 DEF Flow
  <2>2. b[Len(wire) + 1] <= Len(order) + 1 /\ b[Len(wire) + 1] \in Int
    <3>1. Tally(wire, b) /\ Len(wire) + 1 \in 1 .. Len(wire) + 1
      BY <1>2, <2>1 DEF WritesFlow
    <3> QED
      BY <1>2, <2>1, <3>1, TallyIs DEF WritesFlow
  <2>3. b[Len(wire) + 1] + Counts(w) <= Len(order) + 1
    BY <1>3, <2>2
  <2>4. WritesFlow(wire', order, h)
    BY <1>1, <1>2, <1>3, <2>1, <2>3, WritesAppended
  <2>5. h[1] = b[1]
    BY <1>2, <1>3, <2>1, TallyAppend DEF WritesFlow
  <2>6. TextAhead(wire', 1) => TextAhead(wire, 1)
    <3>1. 1 \in 1 .. Len(wire) + 1
      BY <1>2
    <3> QED
      BY <1>1, <1>2, <1>3, <3>1, AheadAppend
  <2> HIDE DEF h
  <2>7. Joined(a[Len(rx') + 1], h[1], prompting', HasLine(rx'), TextAhead(wire', 1), order')
    BY <1>1, <2>1, <2>5, <2>6 DEF Joined
  <2> QED
    BY <1>1, <2>4, <2>7
<1>8. ErrorLast'
  BY <1>1 DEF ErrorLast, FlowInv
<1> QED
  BY <1>1, <1>6, <1>7, <1>8, FlowBy

\* The first line is taken off rx.
LEMMA FirstLine ==
    ASSUME LinkType, NumberInv, HandParts, FlowInv, rx # <<>>, rx' = Tail(rx),
           reader' = reader, NEW a, NEW b, Flow(a, b)
    PROVE  /\ a[2] = a[1] + Counts(rx[1]) /\ a[1] \in Int /\ Base <= a[1] /\ rx[1] \in Heards
           /\ a[Len(rx) + 1] \in Int
           /\ Dropped(rx, a)[Len(rx') + 1] = a[Len(rx) + 1]
           /\ HasLine(rx') => HasLine(rx)
           /\ rx[1].t \in Spoken => HasLine(rx)
           /\ ErrorLast'
           /\ rx[1].t = "error" => rx' = <<>> /\ reader = "dead" /\ rx[1].n = 0
<1>1. rx \in Seq(Heards) /\ LinesFlow(rx, Base, order, a)
  BY DEF LinkType, Flow
<1>2. /\ Len(rx') = Len(rx) - 1 /\ Len(rx) \in Nat \ {0}
      /\ \A i \in 1 .. Len(rx) - 1 : rx'[i] = rx[i + 1] /\ i + 1 \in 1 .. Len(rx)
      /\ rx[1] \in Heards /\ 1 \in 1 .. Len(rx)
  BY <1>1, TailElements, ElementOfSeq
<1>3. /\ a[2] = a[1] + Counts(rx[1]) /\ Dropped(rx, a)[Len(rx') + 1] = a[Len(rx) + 1]
  BY <1>1, TallyTail DEF LinesFlow
<1>4. a[1] \in Int /\ Base <= a[1] /\ a[Len(rx) + 1] \in Int
  <2>1. 1 \in 1 .. Len(rx) + 1 /\ Len(rx) + 1 \in 1 .. Len(rx) + 1
    BY <1>2
  <2> QED
    BY <1>1, <2>1, TallyIs DEF LinesFlow
<1>5. (HasLine(rx') => HasLine(rx)) /\ (rx[1].t \in Spoken => HasLine(rx))
  BY <1>2 DEF HasLine
<1>6. ErrorLast'
  <2> SUFFICES ASSUME NEW i \in 1 .. Len(rx'), rx'[i].t = "error"
               PROVE  i = Len(rx') /\ reader' = "dead" /\ rx'[i].n = 0
    BY DEF ErrorLast
  <2>1. i \in 1 .. Len(rx) - 1 /\ i + 1 \in 1 .. Len(rx) /\ rx[i + 1].t = "error"
    BY <1>2
  <2>2. i + 1 = Len(rx) /\ reader = "dead" /\ rx[i + 1].n = 0
    BY <2>1 DEF FlowInv, ErrorLast
  <2>3. reader' = "dead" /\ rx'[i].n = 0
    BY <1>2, <2>1, <2>2
  <2>4. i = Len(rx')
    <3>1. i \in Int /\ Len(rx) \in Int /\ Len(rx') = Len(rx) - 1
      BY <1>2, <2>1
    <3> QED
      BY <2>2, <3>1
  <2> QED
    BY <2>3, <2>4
<1>7. ASSUME rx[1].t = "error"
      PROVE  rx' = <<>> /\ reader = "dead" /\ rx[1].n = 0
  <2>1. 1 = Len(rx) /\ reader = "dead" /\ rx[1].n = 0
    BY <1>2, <1>7 DEF FlowInv, ErrorLast
  <2>2. Len(rx') = 0 /\ rx' \in Seq(Heards)
    BY <1>1, <1>2, <2>1, HeadTailProperties
  <2> QED
    BY <2>1, <2>2, EmptySeq
<1> QED
  BY <1>2, <1>3, <1>4, <1>5, <1>6, <1>7

\* A line goes by, and the wire stays: an answer, a URC, one nobody looks at.
LEMMA FlowLineGoes ==
    ASSUME LinkType, NumberInv, HandParts, FlowInv, rx # <<>>, rx' = Tail(rx), rx[1].t # "error",
           UNCHANGED <<wire, prompting, order, reader, late>>,
           \/ hand' = hand
           \/ hand # Nothing /\ hand' = Nothing /\ rx[1].t \in Spoken
    PROVE  FlowInv'
<1>0. PICK a, b : Flow(a, b)
  BY DEF FlowInv
<1> DEFINE g == Dropped(rx, a)
<1>1. /\ a[2] = a[1] + Counts(rx[1]) /\ a[1] \in Int /\ Base <= a[1] /\ rx[1] \in Heards
      /\ g[Len(rx') + 1] = a[Len(rx) + 1]
      /\ HasLine(rx') => HasLine(rx)
      /\ ErrorLast'
  BY <1>0, FirstLine
<1>2. /\ Base \in Int /\ Cardinality(late) \in Nat /\ Len(order) \in Nat /\ rx \in Seq(Heards)
  BY FlowFacts
<1>3. Counts(rx[1]) \in {0, 1} /\ (rx[1].t \in Spoken => Counts(rx[1]) = 1)
  BY DEF Counts, Spoken
<1>4. Base' \in Int /\ Base' <= a[2]
  <2>1. CASE hand' = hand
    BY <1>1, <1>2, <1>3, <2>1 DEF Base
  <2>2. CASE hand # Nothing /\ hand' = Nothing /\ rx[1].t \in Spoken
    <3>1. Base' = Base + 1
      BY <1>2, <2>2 DEF Base
    <3> QED
      BY <1>1, <1>2, <1>3, <2>2, <3>1
  <2> QED
    BY <2>1, <2>2
<1>5. LinesFlow(rx', Base', order', g)
  BY <1>0, <1>2, <1>4, LinesDropped DEF Flow
<1> HIDE DEF g
<1>6. reader' = "run" =>
        /\ WritesFlow(wire', order', b)
        /\ Joined(g[Len(rx') + 1], b[1], prompting', HasLine(rx'), TextAhead(wire', 1), order')
  BY <1>0, <1>1 DEF Flow, Joined
<1> QED
  BY <1>1, <1>5, <1>6, FlowBy

\* The prompt, at which the text is written.
LEMMA FlowText ==
    ASSUME LinkType, NumberInv, HandParts, FlowInv, rx # <<>>, rx' = Tail(rx), rx[1].t = "prompt",
           hand # Nothing, wire' = Append(wire, [n |-> hand.n, t |-> "text"]),
           UNCHANGED <<hand, prompting, order, reader, late>>
    PROVE  FlowInv'
<1> DEFINE w == [n |-> hand.n, t |-> "text"]
<1>0. PICK a, b : Flow(a, b)
  BY DEF FlowInv
<1> DEFINE g == Dropped(rx, a)
           h == Lowered(rx', g)
           d == Extended(wire, Lowered(wire, b), w)
<1>1. /\ a[2] = a[1] + Counts(rx[1]) /\ a[1] \in Int /\ Base <= a[1]
      /\ g[Len(rx') + 1] = a[Len(rx) + 1] /\ a[Len(rx) + 1] \in Int
      /\ HasLine(rx) /\ ErrorLast'
  BY <1>0, FirstLine DEF Spoken
<1>2. /\ Base \in Int /\ Len(order) \in Nat /\ rx \in Seq(Heards) /\ wire \in Seq(Writes)
      /\ \A n : PlaceIn(order, n) \in Int
  BY FlowFacts
<1>3. Counts(rx[1]) = 1
  BY DEF Counts
<1>4. w \in Writes /\ w.t = "text"
  BY RequestFields DEF Writes, LinkType
<1> HIDE DEF w
<1>5. rx' \in Seq(Heards)
  BY <1>2, HeadTailProperties
<1>6. Base' = Base /\ Base + 1 \in Int /\ Base + 1 <= a[2] /\ (Base + 1) - 1 = Base
  <2>1. Base' = Base
    BY DEF Base
  <2> QED
    BY <1>1, <1>2, <1>3, <2>1
<1>7. LinesFlow(rx', Base + 1, order, g)
  BY <1>0, <1>2, <1>6, LinesDropped DEF Flow
<1> HIDE DEF g
<1>8. LinesFlow(rx', (Base + 1) - 1, order, h)
  BY <1>2, <1>5, <1>6, <1>7, LinesLowered
<1>9. h[Len(rx') + 1] = a[Len(rx) + 1] - 1
  <2>1. Tally(rx', g)
    BY <1>7 DEF LinesFlow
  <2>2. h[Len(rx') + 1] = g[Len(rx') + 1] - 1
    BY <1>5, <2>1, TallyLowered
  <2> QED
    BY <1>1, <2>2
<1> HIDE DEF h
<1>10. ASSUME reader = "run"
       PROVE  /\ WritesFlow(wire', order', d)
              /\ Joined(h[Len(rx') + 1], d[1], prompting', HasLine(rx'), TextAhead(wire', 1), order')
  <2>1. WritesFlow(wire, order, b) /\ Joined(a[Len(rx) + 1], b[1], prompting, HasLine(rx), TextAhead(wire, 1), order)
    BY <1>0, <1>10 DEF Flow
  <2>2. wire' = Append(wire, w)
    BY DEF w
  <2>3. WritesFlow(wire', order, d) /\ d[1] = b[1] - 1
    BY <1>2, <1>4, <2>1, <2>2, TextAppended
  <2>4. b[1] \in Int
    <3>1. 1 \in 1 .. Len(wire) + 1
      BY <1>2, LenProperties
    <3> QED
      BY <1>2, <2>1, <3>1, TallyIs DEF WritesFlow
  <2> HIDE DEF d
  <2>5. a[Len(rx) + 1] <= b[1] /\ (prompting # 0 => a[Len(rx) + 1] - 1 <= PlaceIn(order, prompting))
    BY <1>1, <2>1 DEF Joined
  <2>6. h[Len(rx') + 1] <= d[1]
    BY <1>1, <1>9, <2>3, <2>4, <2>5
  <2>7. prompting # 0 => h[Len(rx') + 1] <= PlaceIn(order, prompting)
                         /\ h[Len(rx') + 1] - 1 <= PlaceIn(order, prompting)
    BY <1>1, <1>2, <1>9, <2>5
  <2>8. Joined(h[Len(rx') + 1], d[1], prompting', HasLine(rx'), TextAhead(wire', 1), order')
    BY <2>6, <2>7 DEF Joined
  <2> QED
    BY <2>3, <2>8
<1>11. LinesFlow(rx', Base', order', h)
  BY <1>6, <1>8
<1> QED
  BY <1>1, <1>10, <1>11, FlowBy

\* The read error is the last line there is.
LEMMA FlowError ==
    ASSUME LinkType, NumberInv, HandParts, HandParts', LinkType', NumberInv', FlowInv, rx # <<>>, rx' = Tail(rx), rx[1].t = "error",
           UNCHANGED <<order, reader>>
    PROVE  FlowInv'
<1>0. PICK a, b : Flow(a, b)
  BY DEF FlowInv
<1>1. ErrorLast' /\ rx' = <<>> /\ reader = "dead"
  BY <1>0, FirstLine
<1>2. Base' \in Int
  <2>1. Cardinality(late') \in Nat /\ Len(order') \in Nat
    BY FS_CardinalityType, LenProperties DEF LinkType, HandParts
  <2> QED
    BY <2>1 DEF Base
<1>3. PICK g : LinesFlow(rx', Base', order', g)
  BY <1>1, <1>2, LinesEmpty
<1>4. reader' # "run"
  BY <1>1
<1> QED
  BY <1>1, <1>3, <1>4, FlowBy

\* One more line, in numbers.
LEMMA LineMore ==
    ASSUME LinkType, NumberInv, HandParts, NEW a, NEW m \in Heards, rx' = Append(rx, m),
           LinesFlow(rx, Base, order, a), UNCHANGED <<order, hand, late>>,
           m.t \in Spoken => a[Len(rx) + 1] <= PlaceIn(order, m.n)
    PROVE  /\ LinesFlow(rx', Base', order', Extended(rx, a, m))
           /\ Extended(rx, a, m)[Len(rx') + 1] = a[Len(rx) + 1] + Counts(m)
           /\ a[Len(rx) + 1] \in Int
           /\ m.t \notin Spoken /\ HasLine(rx') => HasLine(rx)
           /\ \A i \in 1 .. Len(rx') : (i = Len(rx') /\ rx'[i] = m) \/ (i \in 1 .. Len(rx) /\ rx'[i] = rx[i])
<1> DEFINE g == Extended(rx, a, m)
<1>1. rx \in Seq(Heards) /\ Len(rx) \in Nat
  BY FlowFacts
<1>2. /\ Len(rx') = Len(rx) + 1 /\ rx'[Len(rx) + 1] = m
      /\ \A i \in 1 .. Len(rx) : rx'[i] = rx[i]
  BY <1>1, AppendProperties
<1>3. Base' = Base
  BY DEF Base
<1>4. LinesFlow(rx', Base', order', g)
  BY <1>1, <1>3, LinesAppended
<1>5. g[Len(rx) + 2] = a[Len(rx) + 1] + Counts(m) /\ Len(rx') + 1 = Len(rx) + 2
  BY <1>1, <1>2, TallyAppend DEF LinesFlow
<1>6. a[Len(rx) + 1] \in Int
  <2>1. Len(rx) + 1 \in 1 .. Len(rx) + 1 /\ Tally(rx, a)
    BY <1>1 DEF LinesFlow
  <2> QED
    BY <1>1, <2>1, TallyIs
<1>7. \A i \in 1 .. Len(rx') : (i = Len(rx') /\ rx'[i] = m) \/ (i \in 1 .. Len(rx) /\ rx'[i] = rx[i])
  BY <1>1, <1>2
<1> HIDE DEF g
<1>8. m.t \notin Spoken /\ HasLine(rx') => HasLine(rx)
  BY <1>7 DEF HasLine
<1> QED
  BY <1>4, <1>5, <1>6, <1>7, <1>8 DEF g

\* A line about no command: a URC, or the read error.
LEMMA FlowNotice ==
    ASSUME LinkType, NumberInv, HandParts, FlowInv, NEW m \in Heards, rx' = Append(rx, m),
           \/ m.t = "urc" /\ reader' = reader /\ reader = "run"
           \/ m.t = "error" /\ m.n = 0 /\ reader' = "dead" /\ reader # "dead",
           UNCHANGED <<wire, prompting, order, hand, late>>
    PROVE  FlowInv'
<1>0. PICK a, b : Flow(a, b)
  BY DEF FlowInv
<1> DEFINE g == Extended(rx, a, m)
<1>1. m.t \notin Spoken /\ Counts(m) = 0
  BY DEF Spoken, Counts
<1>2. /\ LinesFlow(rx', Base', order', g)
      /\ g[Len(rx') + 1] = a[Len(rx) + 1] + Counts(m) /\ a[Len(rx) + 1] \in Int
      /\ HasLine(rx') => HasLine(rx)
      /\ \A i \in 1 .. Len(rx') : (i = Len(rx') /\ rx'[i] = m) \/ (i \in 1 .. Len(rx) /\ rx'[i] = rx[i])
  BY <1>0, <1>1, LineMore DEF Flow
<1> HIDE DEF g
<1>3. g[Len(rx') + 1] = a[Len(rx) + 1]
  BY <1>1, <1>2
<1>4. ErrorLast'
  <2>1. \A i \in 1 .. Len(rx) : rx[i].t # "error"
    BY DEF FlowInv, ErrorLast
  <2>2. \A i \in 1 .. Len(rx') : rx'[i].t = "error" => i = Len(rx') /\ m.t = "error" /\ rx'[i].n = 0
    BY <1>2, <2>1
  <2> QED
    BY <2>2 DEF ErrorLast
<1>5. reader' = "run" =>
        /\ WritesFlow(wire', order', b)
        /\ Joined(g[Len(rx') + 1], b[1], prompting', HasLine(rx'), TextAhead(wire', 1), order')
  BY <1>0, <1>2, <1>3 DEF Flow, Joined
<1> QED
  BY <1>2, <1>4, <1>5, FlowBy

\* What the module's reading comes to: it says nothing, or a line about the
\* command that it reads or prompts for.
About(w, n, new) ==
    \/ w.t \in {"normal", "high"} /\ n = w.n /\ new = 0
    \/ w.t = "sms" /\ n = w.n /\ new = w.n
    \/ w.t = "text" /\ prompting # 0 /\ n = prompting /\ new = 0

\* What one step of the module reads and says.
LEMMA ReadsSay ==
    ASSUME LinkType, NumberInv, TraceParts, ModuleReads, NEW w, w = wire[1]
    PROVE  /\ wire # <<>> /\ wire' = Tail(wire) /\ w \in Writes /\ reader = "run"
           /\ UNCHANGED <<order, hand, late, reader>>
           /\ \/ /\ rx' = rx
                 /\ prompting' = 0 \/ (prompting' = prompting /\ w.t # "esc")
              \/ \E m \in Heards : rx' = Append(rx, m) /\ m.t \in Spoken /\ About(w, m.n, prompting')
<1> USE DEF link, loops, module, callers, hist, bounds
<1>1. /\ wire # <<>> /\ wire' = Tail(wire) /\ Head(wire) = w /\ w \in Writes
      /\ reader = "run" /\ UNCHANGED <<order, hand, late, reader>>
  BY TailElements DEF ModuleReads, LinkType
<1>2. w.n \in Nat /\ prompting \in Nat /\ w.n # 0
  <2>1. w.n \in Written /\ calls \in Nat
    BY ReadsGive DEF LinkType
  <2> QED
    BY <1>1, <2>1 DEF Writes, LinkType, NumberInv
<1>3. ASSUME NEW n \in Nat, NEW t \in Spoken, Heard(n, t), About(w, n, prompting')
      PROVE  \E m \in Heards : rx' = Append(rx, m) /\ m.t \in Spoken /\ About(w, m.n, prompting')
  <2> DEFINE m == [n |-> n, t |-> t]
  <2>1. m \in Heards /\ m.n = n /\ m.t = t /\ rx' = Append(rx, m)
    BY <1>3 DEF Heards, Lines, Spoken, Heard
  <2> QED
    BY <1>3, <2>1
<1>4. "ok" \in Spoken /\ "prompt" \in Spoken /\ "cmgs" \in Spoken
  BY DEF Spoken
<1>5. CASE w.t \in {"normal", "high"} /\ prompting = 0 /\ Heard(w.n, "ok") /\ UNCHANGED prompting
  BY <1>1, <1>2, <1>3, <1>4, <1>5 DEF About
<1>6. CASE w.t = "sms" /\ prompting' = w.n /\ Heard(w.n, "prompt")
  BY <1>1, <1>2, <1>3, <1>4, <1>6 DEF About
<1>7. CASE w.t = "text" /\ prompting = w.n /\ prompting' = 0 /\ Heard(w.n, "cmgs")
  BY <1>1, <1>2, <1>3, <1>4, <1>7 DEF About
<1>8. CASE w.t = "text" /\ prompting # 0 /\ prompting' = 0 /\ Heard(prompting, "ok")
  BY <1>1, <1>2, <1>3, <1>4, <1>8 DEF About
<1>9. CASE rx' = rx /\ (prompting' = 0 \/ (prompting' = prompting /\ w.t # "esc"))
  BY <1>1, <1>9
<1> QED
  BY <1>1, <1>5, <1>6, <1>7, <1>8, <1>9 DEF ModuleReads

\* What the module says takes the bound of the command it read.
LEMMA FlowReads ==
    ASSUME LinkType, NumberInv, TraceParts, HandParts, FlowInv, ModuleReads
    PROVE  FlowInv'
<1>0. PICK a, b : Flow(a, b)
  BY DEF FlowInv
<1> DEFINE w == wire[1]
           d == Dropped(wire, b)
           e == a[Len(rx) + 1]
<1>1. /\ wire # <<>> /\ wire' = Tail(wire) /\ w \in Writes /\ reader = "run"
      /\ UNCHANGED <<order, hand, late, reader>>
  BY ReadsSay
<1>2. /\ Base \in Int /\ rx \in Seq(Heards) /\ wire \in Seq(Writes) /\ \A n : PlaceIn(order, n) \in Int
      /\ Len(wire) \in Nat
  BY FlowFacts
<1>3. /\ LinesFlow(rx, Base, order, a) /\ WritesFlow(wire, order, b)
      /\ Joined(e, b[1], prompting, HasLine(rx), TextAhead(wire, 1), order)
  BY <1>0, <1>1 DEF Flow
<1>4. WritesFlow(wire', order', d)
  BY <1>1, <1>2, <1>3, WritesDropped
<1>5. /\ d[1] = b[1] + Counts(w) /\ b[1] \in Int /\ 1 \in 1 .. Len(wire)
  <2>1. 1 \in 1 .. Len(wire) /\ 1 \in 1 .. Len(wire) + 1
    BY <1>1, <1>2, TailElements
  <2>2. Tally(wire, b)
    BY <1>3 DEF WritesFlow
  <2>3. d[1] = b[2] /\ b[2] = b[1] + Counts(w)
    BY <1>1, <1>2, <2>2, TallyTail
  <2> QED
    BY <1>2, <2>1, <2>2, <2>3, TallyIs
<1>6. e \in Int
  <2>1. Len(rx) + 1 \in 1 .. Len(rx) + 1 /\ Tally(rx, a)
    BY <1>2, <1>3, LenProperties DEF LinesFlow
  <2> QED
    BY <1>2, <2>1, TallyIs
<1>7. /\ TextAhead(wire', 1) => TextAhead(wire, 2)
      /\ w.t # "esc" /\ TextAhead(wire, 2) => TextAhead(wire, 1)
  <2>1. 1 + 1 = 2
    OBVIOUS
  <2> QED
    BY <1>1, <1>2, <1>5, <2>1, AheadTail
<1>8. w.t = "text" => TextAhead(wire, 1)
  <2>1. 1 \in 1 .. Len(wire) /\ \A k \in 1 .. 1 : k = 1
    BY <1>5
  <2> QED
    BY <2>1 DEF TextAhead
<1>9. /\ w.t \in {"normal", "high", "sms"} => b[1] <= PlaceIn(order, w.n)
      /\ w.t = "sms" /\ TextAhead(wire, 2) => b[1] + 1 <= PlaceIn(order, w.n)
  <2>1. 1 + 1 = 2
    OBVIOUS
  <2> QED
    BY <1>3, <1>5, <2>1 DEF WritesFlow
<1>10. e <= b[1] /\ Counts(w) \in {0, 1}
  BY <1>3 DEF Joined, Counts
<1> HIDE DEF d, e
<1>11. CASE rx' = rx /\ (prompting' = 0 \/ (prompting' = prompting /\ w.t # "esc"))
  <2>1. Base' = Base /\ LinesFlow(rx', Base', order', a)
    BY <1>1, <1>3, <1>11 DEF Base
  <2>2. ErrorLast'
    BY <1>1, <1>11 DEF FlowInv, ErrorLast
  <2>3. e <= d[1]
    BY <1>5, <1>6, <1>10
  <2>4. prompting' # 0 /\ TextAhead(wire', 1) => prompting # 0 /\ TextAhead(wire, 1) /\ prompting' = prompting
    BY <1>7, <1>11
  <2>5. Joined(e, d[1], prompting', HasLine(rx'), TextAhead(wire', 1), order')
    BY <1>1, <1>3, <1>11, <2>3, <2>4 DEF Joined
  <2>6. a[Len(rx') + 1] = e
    BY <1>11 DEF e
  <2> QED
    BY <1>4, <2>1, <2>2, <2>5, <2>6, FlowBy
<1>12. ASSUME NEW m \in Heards, rx' = Append(rx, m), m.t \in Spoken, About(w, m.n, prompting')
       PROVE  FlowInv'
  <2> DEFINE g == Extended(rx, a, m)
  <2>1. e <= PlaceIn(order, m.n)
    <3>1. CASE w.t \in {"normal", "high", "sms"} /\ m.n = w.n
      <4>1. e <= b[1] /\ b[1] <= PlaceIn(order, m.n) /\ PlaceIn(order, m.n) \in Int
        BY <1>2, <1>9, <1>10, <3>1
      <4> QED
        BY <1>5, <1>6, <4>1
    <3>2. CASE w.t = "text" /\ prompting # 0 /\ m.n = prompting
      BY <1>3, <1>8, <3>2 DEF Joined
    <3> QED
      BY <1>12, <3>1, <3>2 DEF About
  <2>2. /\ LinesFlow(rx', Base', order', g) /\ g[Len(rx') + 1] = e + Counts(m)
        /\ \A i \in 1 .. Len(rx') : (i = Len(rx') /\ rx'[i] = m) \/ (i \in 1 .. Len(rx) /\ rx'[i] = rx[i])
    BY <1>1, <1>3, <1>12, <2>1, LineMore DEF e
  <2>3. Counts(m) = 1 /\ m.t # "error"
    BY <1>12 DEF Counts, Spoken
  <2>4. Counts(w) = 1
    BY <1>12 DEF Counts, About
  <2> HIDE DEF g
  <2>5. ErrorLast'
    <3>1. \A i \in 1 .. Len(rx) : rx[i].t # "error"
      BY <1>1 DEF FlowInv, ErrorLast
    <3> QED
      BY <2>2, <2>3, <3>1 DEF ErrorLast
  <2>6. g[Len(rx') + 1] <= d[1]
    BY <1>5, <1>6, <1>10, <2>2, <2>3, <2>4
  <2>7. prompting' # 0 => prompting' = m.n /\ w.t = "sms" /\ m.n = w.n
    BY <1>12 DEF About
  <2>8. prompting' # 0 => g[Len(rx') + 1] - 1 <= PlaceIn(order, prompting')
    BY <1>6, <2>1, <2>2, <2>3, <2>7
  <2>9. ASSUME prompting' # 0, TextAhead(wire', 1)
        PROVE  g[Len(rx') + 1] <= PlaceIn(order, prompting')
    <3>1. b[1] + 1 <= PlaceIn(order, w.n) /\ PlaceIn(order, w.n) \in Int /\ prompting' = w.n
      BY <1>2, <1>7, <1>9, <2>7, <2>9
    <3>2. g[Len(rx') + 1] = e + 1
      BY <2>2, <2>3
    <3>3. e + 1 <= PlaceIn(order, w.n)
      BY <1>5, <1>6, <1>10, <3>1
    <3> QED
      BY <3>1, <3>2, <3>3
  <2>10. Joined(g[Len(rx') + 1], d[1], prompting', HasLine(rx'), TextAhead(wire', 1), order')
    BY <1>1, <2>6, <2>8, <2>9 DEF Joined
  <2> QED
    BY <1>4, <2>2, <2>5, <2>10, FlowBy
<1> QED
  BY <1>11, <1>12, ReadsSay

\* What Line does.
LEMMA LineGives ==
    ASSUME LinkType, Line, ~stop'
    PROVE  /\ hand # Nothing /\ rx # <<>> /\ rx' = Tail(rx) /\ rx[1] \in Heards
           /\ UNCHANGED <<reader, prompting, queue, pc, call, order, late, calls>>
           /\ \/ /\ rx[1].t = "prompt" /\ UNCHANGED <<hand, inbox>>
                 /\ wire' = Append(wire, [n |-> hand.n, t |-> "text"])
              \/ /\ rx[1].t = "urc" /\ UNCHANGED <<hand, inbox, wire>>
              \/ /\ rx[1].t # "urc" /\ hand' = Nothing /\ wire' = wire
                 /\ Answer(hand, rx[1].n, rx[1].t)
<1> USE DEF link, loops, module, callers, hist, bounds
<1>1. /\ hand # Nothing /\ rx # <<>> /\ rx' = Tail(rx)
      /\ UNCHANGED <<reader, prompting, queue, pc, call, order, late, calls>>
  BY DEF Line
<1>2. Head(rx) = rx[1] /\ rx[1] \in Heards
  BY <1>1, TailElements DEF LinkType
<1>3. stop' = stop \/ stop' = TRUE
  BY DEF Line, FailUnlessStopped
<1>4. ~stop
  BY <1>3, Zenon DEF Line, FailUnlessStopped
<1>5. CASE rx[1].t = "prompt" /\ asked
  <2>1. UNCHANGED <<hand, inbox>> /\ wire' = Append(wire, [n |-> hand.n, t |-> "text"])
    BY <1>2, <1>4, <1>5 DEF Line
  <2> QED
    BY <1>1, <1>2, <1>5, <2>1
<1>6. CASE ~(rx[1].t = "prompt" /\ asked)
  <2>1. wire' = wire
    BY <1>2, <1>6 DEF Line
  <2>2. CASE rx[1].t = "urc"
    <3>1. UNCHANGED <<hand, inbox>>
      BY <1>2, <2>2 DEF Line
    <3> QED
      BY <1>1, <1>2, <2>1, <2>2, <3>1
  <2>3. CASE rx[1].t # "urc"
    <3>1. hand' = Nothing /\ Answer(hand, rx[1].n, rx[1].t)
      BY <1>2, <1>6, <2>3 DEF Line
    <3> QED
      BY <1>1, <1>2, <2>1, <2>3, <3>1
  <2> QED
    BY <2>2, <2>3
<1> QED
  BY <1>5, <1>6

\* A panic takes the command in hand away unanswered, and is the end of the
\* loop; the bounds that follow hold while it runs.
HandLost == loop = "panicked" => hand = Nothing

LEMMA PanicStays ==
    ASSUME HandLost, Next \/ UNCHANGED vars
    PROVE  HandLost' /\ (loop = "panicked" => loop' = "panicked")
<1> USE DEF link, loops, module, callers, hist, bounds
<1>1. CASE UNCHANGED <<loop, hand>>
  BY <1>1 DEF HandLost
<1>2. ASSUME NEW p \in Caller,
             (\E k \in Kind : Check(p, k)) \/ Enqueue(p) \/ SendFails(p) \/ Receive(p) \/ GiveUp(p)
      PROVE  UNCHANGED <<loop, hand>>
  BY <1>2 DEF Check, Enqueue, SendFails, Receive, GiveUp
<1>3. ASSUME NEW l \in {"high", "normal"}, Take(l)
      PROVE  loop # "panicked" /\ loop' # "panicked"
  BY <1>3 DEF Take
<1>4. Second \/ SeesStop \/ Idle => loop # "panicked" /\ loop' # "panicked"
  BY DEF Second, SeesStop, Idle
<1>5. Line \/ TimeOut => loop # "panicked" /\ loop' # "panicked"
  BY DEF Line, TimeOut, HandLost
<1>6. LoopPanics => loop' = "panicked" /\ hand' = Nothing
  BY DEF LoopPanics
<1>7. Stop \/ ModuleReads \/ URC \/ ReadFails \/ ReportError \/ ReaderPanics \/ UNCHANGED vars
        => UNCHANGED <<loop, hand>>
  BY DEF Stop, ModuleReads, URC, ReadFails, ReportError, ReaderPanics, vars
<1> QED
  BY <1>1, <1>2, <1>3, <1>4, <1>5, <1>6, <1>7 DEF Next, HandLost

\* Every step before a stop keeps the bounds of what is on its way, unless the
\* loop panics.
LEMMA FlowStep ==
    ASSUME LinkType, NumberInv, TraceParts, HandParts, LinkType', NumberInv', HandParts', FlowInv,
           Next \/ UNCHANGED vars, ~stop', loop' # "panicked"
    PROVE  FlowInv'
<1> USE DEF link, loops, module, callers, hist, bounds
<1>0. ~stop
  BY StopStays, Zenon
<1>1. ASSUME NEW p \in Caller, NEW k \in Kind, Check(p, k)
      PROVE  FlowInv'
  BY <1>1, FlowSame DEF Check
<1>2. ASSUME NEW p \in Caller, Enqueue(p) \/ SendFails(p) \/ Receive(p) \/ GiveUp(p)
      PROVE  FlowInv'
  BY <1>2, FlowSame DEF Enqueue, SendFails, Receive, GiveUp
<1>3. ASSUME Stop \/ Second \/ SeesStop \/ ReadFails \/ ReaderPanics \/ UNCHANGED vars
      PROVE  FlowInv'
  BY <1>3, FlowSame DEF Stop, Second, SeesStop, ReadFails, ReaderPanics, vars
<1>4. ASSUME NEW l \in {"high", "normal"}, Take(l)
      PROVE  FlowInv'
  <2> DEFINE r == Head(queue[l])
  <2>1. r \in Queued
    BY <1>4, TakeGives DEF Lanes
  <2>2. r \in Requests /\ r.n \notin Written
    BY <2>1 DEF NumberInv, Queued
  <2>3. UNCHANGED <<rx, prompting, late, reader>> /\ hand = Nothing
    BY <1>4 DEF Take
  <2>4. CASE hand' = r /\ wire' = Append(wire, [n |-> r.n, t |-> r.kind]) /\ order' = Append(order, r.n)
    BY <2>2, <2>3, <2>4, FlowTake
  <2>5. CASE UNCHANGED <<hand, wire, order>>
    BY <2>3, <2>5, FlowSame
  <2> QED
    BY <1>4, <2>4, <2>5 DEF Take
<1>5. CASE Idle
  <2>1. /\ UNCHANGED <<prompting, order, late, hand, wire, reader>> /\ rx # <<>> /\ rx' = Tail(rx)
        /\ Head(rx) = rx[1]
    BY <1>5, TailElements DEF Idle, LinkType
  <2>2. rx[1].t # "error"
    BY <1>5, <2>1, Zenon DEF Idle
  <2> QED
    BY <2>1, <2>2, FlowLineGoes
<1>6. CASE Line
  <2>1. /\ hand # Nothing /\ rx # <<>> /\ rx' = Tail(rx) /\ rx[1] \in Heards
        /\ UNCHANGED <<reader, prompting, order, late>>
        /\ \/ /\ rx[1].t = "prompt" /\ hand' = hand
              /\ wire' = Append(wire, [n |-> hand.n, t |-> "text"])
           \/ /\ rx[1].t = "urc" /\ UNCHANGED <<hand, wire>>
           \/ rx[1].t # "urc" /\ hand' = Nothing /\ wire' = wire
    BY <1>6, LineGives
  <2>2. rx[1].t \in Spoken \cup {"urc", "error"}
    BY <2>1 DEF Heards, Lines, Spoken
  <2>3. CASE rx[1].t = "error"
    BY <2>1, <2>3, FlowError
  <2>4. CASE rx[1].t = "prompt" /\ hand' = hand /\ wire' = Append(wire, [n |-> hand.n, t |-> "text"])
    BY <2>1, <2>4, FlowText
  <2>5. CASE rx[1].t = "urc" /\ UNCHANGED <<hand, wire>>
    BY <2>1, <2>5, FlowLineGoes
  <2>6. CASE rx[1].t \in Spoken /\ hand' = Nothing /\ wire' = wire
    <3>1. rx[1].t # "error"
      BY <2>6 DEF Spoken
    <3> QED
      BY <2>1, <2>6, <3>1, FlowLineGoes
  <2> QED
    BY <2>1, <2>2, <2>3, <2>4, <2>5, <2>6
<1>7. CASE TimeOut
  BY <1>0, <1>7, FlowTimeOut
<1>8. CASE ModuleReads
  BY <1>8, FlowReads
<1>9. CASE URC
  <2>1. [n |-> 0, t |-> "urc"] \in Heards /\ [n |-> 0, t |-> "urc"].t = "urc"
    BY DEF Heards, Lines
  <2>2. /\ rx' = Append(rx, [n |-> 0, t |-> "urc"]) /\ reader' = reader /\ reader = "run"
        /\ UNCHANGED <<wire, prompting, order, hand, late>>
    BY <1>9 DEF URC, Heard
  <2> QED
    BY <2>1, <2>2, FlowNotice
<1>10. CASE ReportError
  <2>1. [n |-> 0, t |-> "error"] \in Heards /\ [n |-> 0, t |-> "error"].t = "error"
        /\ [n |-> 0, t |-> "error"].n = 0
    BY DEF Heards, Lines
  <2>2. /\ rx' = Append(rx, [n |-> 0, t |-> "error"]) /\ reader' = "dead" /\ reader # "dead"
        /\ UNCHANGED <<wire, prompting, order, hand, late>>
    BY <1>10 DEF ReportError
  <2> QED
    BY <2>1, <2>2, FlowNotice
<1>11. ~LoopPanics
  BY DEF LoopPanics
<1> QED
  BY <1>1, <1>2, <1>3, <1>4, <1>5, <1>6, <1>7, <1>8, <1>9, <1>10, <1>11 DEF Next

-----------------------------------------------------------------------------
\* The answer channels

\* The requests that have yet to be answered.
Live == Queued \cup ({hand} \ {Nothing})

Busy(p) == pc[p] # "idle"

\* An answer channel is one call's: of the pool, it belongs to a caller that
\* waits on it; nobody else's request or answer is in it.  (While the manager
\* runs: at a stop callers leave their channels behind, and the pool hands
\* them on.)
BoxInv ==
    /\ \A r \in Live : r.box \in Pooled => \E p \in Caller : pc[p] = "wait" /\ call[p] = r
    /\ \A r \in Live, p \in Caller : Busy(p) /\ r.box = call[p].box => r = call[p]
    /\ \A a \in inbox : a.box \in Pooled => \E p \in Caller : pc[p] = "wait" /\ call[p].box = a.box
    /\ \A a \in inbox : a.box \in Nat => a.box \in 1 .. calls
    /\ \A a \in inbox, p \in Caller : Busy(p) /\ a.box = call[p].box => pc[p] = "wait" /\ call[p] \notin Live
    /\ \A p, q \in Caller : Busy(p) /\ Busy(q) /\ p # q => call[p].box # call[q].box

\* What the steps below keep needing of the requests that are alive.
LEMMA LiveFacts ==
    ASSUME LinkType, NumberInv, HandParts
    PROVE  /\ \A r \in Live : r \in Requests /\ r.n \in 1 .. calls /\ r # Nothing
           /\ hand # Nothing => hand \in Live /\ hand \notin Queued /\ hand.n \in Written
           /\ \A p \in Caller : pc[p] = "send" => call[p] \notin Live
           /\ \A p \in Caller : Busy(p) => call[p] \in Requests /\ call[p].n \in 1 .. calls
           /\ calls \in Nat
<1>1. hand # Nothing => hand \in Requests /\ hand.n \in Written
  <2>1. Len(order) \in Nat /\ (order # <<>> => Len(order) # 0)
    BY LenProperties DEF LinkType
  <2> QED
    BY <2>1 DEF LinkType, HandParts, Written
<1>2. \A r \in Queued : r \in Requests /\ r # Nothing
  BY RequestFields DEF Queued
<1> QED
  BY <1>1, <1>2 DEF NumberInv, Live, LinkType, Busy

\* An answer put into the channel of a request, which is live no more.
LEMMA BoxAnswered ==
    ASSUME LinkType, NumberInv, HandParts, BoxInv, NEW r \in Live, NEW d, NEW t,
           Answer(r, d, t), Live' = Live \ {r}, UNCHANGED <<pc, call, calls>>
    PROVE  BoxInv'
<1>1. /\ r \in Requests /\ r.n \in 1 .. calls /\ calls \in Nat
      /\ \A p \in Caller : pc[p] = "send" => call[p] # r
      /\ pc \in [Caller -> {"idle", "send", "wait"}]
  BY LiveFacts DEF LinkType
<1>2. r.box \in Pooled \/ (r.box = r.n /\ r.box \notin Pooled)
  BY <1>1, RequestFields, LinkAssumption
<1> DEFINE b == [box |-> r.box, d |-> d, t |-> t]
<1>3. inbox' = inbox \cup {b} /\ b.box = r.box
  BY DEF Answer
<1> HIDE DEF b
<1>4. \A p \in Caller : Busy(p)' = Busy(p)
  BY DEF Busy
<1>5. \A q \in Live' : q.box \in Pooled => \E p \in Caller : pc'[p] = "wait" /\ call'[p] = q
  BY DEF BoxInv
<1>6. \A q \in Live', p \in Caller : Busy(p)' /\ q.box = call'[p].box => q = call'[p]
  BY <1>4 DEF BoxInv
<1>7. \A a \in inbox' : a.box \in Pooled => \E p \in Caller : pc'[p] = "wait" /\ call'[p].box = a.box
  <2>1. r.box \in Pooled => \E p \in Caller : pc[p] = "wait" /\ call[p].box = r.box
    BY DEF BoxInv
  <2> QED
    BY <1>3, <2>1 DEF BoxInv
<1>8. \A a \in inbox' : a.box \in Nat => a.box \in 1 .. calls'
  <2>1. b.box \in Nat => b.box \in 1 .. calls
    BY <1>1, <1>2, <1>3, LinkAssumption
  <2> QED
    BY <1>3, <2>1 DEF BoxInv
<1>9. \A a \in inbox', p \in Caller : Busy(p)' /\ a.box = call'[p].box => pc'[p] = "wait" /\ call'[p] \notin Live'
  <2> SUFFICES ASSUME NEW a \in inbox', NEW p \in Caller, Busy(p), a.box = call[p].box
               PROVE  pc[p] = "wait" /\ call[p] \notin Live'
    BY <1>4
  <2>1. CASE a \in inbox
    BY <2>1 DEF BoxInv
  <2>2. CASE a = b
    <3>1. r = call[p]
      BY <1>3, <2>2 DEF BoxInv
    <3>2. pc[p] # "send"
      BY <1>1, <3>1
    <3>3. pc[p] = "wait"
      BY <1>1, <3>2 DEF Busy
    <3> QED
      BY <3>1, <3>3
  <2> QED
    BY <1>3, <2>1, <2>2
<1>10. \A p, q \in Caller : Busy(p)' /\ Busy(q)' /\ p # q => call'[p].box # call'[q].box
  BY <1>4 DEF BoxInv
<1> QED
  BY <1>5, <1>6, <1>7, <1>8, <1>9, <1>10, Zenon DEF BoxInv

\* A caller that leaves has no request left, or one of SendSMS.
LEMMA BoxLeft ==
    ASSUME LinkType, NumberInv, HandParts, BoxInv, NEW p \in Caller, Leave(p), Busy(p),
           pc[p] = "send" \/ call[p] \notin Live \/ call[p].box \notin Pooled,
           Live' = Live, UNCHANGED calls
    PROVE  BoxInv'
<1>1. /\ pc'[p] = "idle" /\ \A q \in Caller : q # p => pc'[q] = pc[q] /\ call'[q] = call[q]
      /\ inbox' = {a \in inbox : a.box # call[p].box}
  BY DEF Leave, LinkType
<1>2. \A q \in Caller : Busy(q)' => q # p /\ Busy(q) /\ call'[q] = call[q] /\ pc'[q] = pc[q]
  BY <1>1 DEF Busy
<1>3. \A r \in Live' : r.box \in Pooled => \E q \in Caller : pc'[q] = "wait" /\ call'[q] = r
  <2> SUFFICES ASSUME NEW r \in Live, r.box \in Pooled
               PROVE  \E q \in Caller : pc'[q] = "wait" /\ call'[q] = r
    OBVIOUS
  <2>1. PICK q \in Caller : pc[q] = "wait" /\ call[q] = r
    BY DEF BoxInv
  <2>2. q # p
    BY <2>1
  <2> QED
    BY <1>1, <2>1, <2>2
<1>4. \A a \in inbox' : a.box \in Pooled => \E q \in Caller : pc'[q] = "wait" /\ call'[q].box = a.box
  <2> SUFFICES ASSUME NEW a \in inbox', a.box \in Pooled
               PROVE  \E q \in Caller : pc'[q] = "wait" /\ call'[q].box = a.box
    OBVIOUS
  <2>1. a \in inbox /\ a.box # call[p].box
    BY <1>1
  <2>2. PICK q \in Caller : pc[q] = "wait" /\ call[q].box = a.box
    BY <2>1 DEF BoxInv
  <2> QED
    BY <1>1, <2>1, <2>2
<1>5. \A r \in Live', q \in Caller : Busy(q)' /\ r.box = call'[q].box => r = call'[q]
  BY <1>2 DEF BoxInv
<1>6. \A a \in inbox' : a.box \in Nat => a.box \in 1 .. calls'
  BY <1>1 DEF BoxInv
<1>7. \A a \in inbox', q \in Caller : Busy(q)' /\ a.box = call'[q].box => pc'[q] = "wait" /\ call'[q] \notin Live'
  BY <1>1, <1>2 DEF BoxInv
<1>8. \A q, h \in Caller : Busy(q)' /\ Busy(h)' /\ q # h => call'[q].box # call'[h].box
  BY <1>2 DEF BoxInv
<1> QED
  BY <1>3, <1>4, <1>5, <1>6, <1>7, <1>8, Zenon DEF BoxInv

\* A channel is taken: a new one, or of the pool one that nobody has.
LEMMA BoxTaken ==
    ASSUME LinkType, NumberInv, HandParts, BoxInv, NEW p \in Caller, NEW k \in Kind, Check(p, k)
    PROVE  BoxInv'
<1> USE DEF link, loops, module, callers, hist, bounds
<1>1. PICK box \in IF k = "sms" THEN {calls + 1} ELSE Pooled \ InUse :
        call' = [call EXCEPT ![p] = Request(p, k, box)]
  BY DEF Check
<1>2. /\ pc[p] = "idle" /\ pc' = [pc EXCEPT ![p] = "send"] /\ calls' = calls + 1
      /\ UNCHANGED <<queue, hand, inbox>>
  BY DEF Check
<1>3. /\ call'[p].n = calls + 1 /\ call'[p].box = box /\ pc'[p] = "send"
      /\ \A q \in Caller : q # p => pc'[q] = pc[q] /\ call'[q] = call[q]
  BY <1>1, <1>2 DEF LinkType, Request
<1>4. Live' = Live
  BY <1>2 DEF Live, Queued
<1>5. \A q \in Caller : Busy(q)' => q = p \/ (q # p /\ Busy(q) /\ call'[q] = call[q] /\ pc'[q] = pc[q])
  BY <1>3 DEF Busy
<1>6. /\ \A r \in Live : r \in Requests /\ r.n \in 1 .. calls
      /\ \A q \in Caller : Busy(q) => call[q] \in Requests /\ call[q].n \in 1 .. calls
      /\ calls \in Nat
  BY LiveFacts
<1>7. \A r \in Requests : r.n \in 1 .. calls => r.box \in Pooled \/ r.box \in 1 .. calls
  BY RequestFields
<1>8. box \notin 1 .. calls
  BY <1>1, <1>6, LinkAssumption
<1>9. box \in Pooled => \A q \in Caller : Busy(q) => call[q].box # box
  BY <1>1, <1>6, LinkAssumption DEF InUse, Busy
<1>10. \A q \in Caller : Busy(q) => call[q].box # box
  BY <1>6, <1>7, <1>8, <1>9
<1>11. \A r \in Live : r.box # box
  <2> SUFFICES ASSUME NEW r \in Live, r.box = box
               PROVE  FALSE
    OBVIOUS
  <2>1. box \in Pooled
    BY <1>6, <1>7, <1>8
  <2>2. PICK q \in Caller : pc[q] = "wait" /\ call[q] = r
    BY <2>1 DEF BoxInv
  <2> QED
    BY <1>10, <2>2 DEF Busy
<1>12. \A a \in inbox : a.box # box
  <2> SUFFICES ASSUME NEW a \in inbox, a.box = box
               PROVE  FALSE
    OBVIOUS
  <2>1. box \in Pooled
    BY <1>1, <1>6, <1>8 DEF BoxInv
  <2>2. PICK q \in Caller : pc[q] = "wait" /\ call[q].box = a.box
    BY <2>1 DEF BoxInv
  <2> QED
    BY <1>10, <2>2 DEF Busy
<1>13. \A q \in Caller : pc[q] = "wait" => pc'[q] = "wait" /\ call'[q] = call[q]
  BY <1>2, <1>3
<1>14. \A r \in Live' : r.box \in Pooled => \E q \in Caller : pc'[q] = "wait" /\ call'[q] = r
  BY <1>4, <1>13 DEF BoxInv
<1>15. \A a \in inbox' : a.box \in Pooled => \E q \in Caller : pc'[q] = "wait" /\ call'[q].box = a.box
  <2> SUFFICES ASSUME NEW a \in inbox, a.box \in Pooled
               PROVE  \E q \in Caller : pc'[q] = "wait" /\ call'[q].box = a.box
    BY <1>2
  <2>1. PICK q \in Caller : pc[q] = "wait" /\ call[q].box = a.box
    BY DEF BoxInv
  <2> QED
    BY <1>13, <2>1
<1>16. \A r \in Live', q \in Caller : Busy(q)' /\ r.box = call'[q].box => r = call'[q]
  BY <1>3, <1>4, <1>5, <1>11 DEF BoxInv
<1>17. \A a \in inbox' : a.box \in Nat => a.box \in 1 .. calls'
  BY <1>2, <1>6 DEF BoxInv
<1>18. \A a \in inbox', q \in Caller : Busy(q)' /\ a.box = call'[q].box => pc'[q] = "wait" /\ call'[q] \notin Live'
  BY <1>2, <1>3, <1>4, <1>5, <1>12 DEF BoxInv
<1>19. \A q, h \in Caller : Busy(q)' /\ Busy(h)' /\ q # h => call'[q].box # call'[h].box
  BY <1>3, <1>5, <1>10 DEF BoxInv
<1> QED
  BY <1>14, <1>15, <1>16, <1>17, <1>18, <1>19, Zenon DEF BoxInv

\* A queued request brings a channel that nobody else has.
LEMMA BoxQueued ==
    ASSUME LinkType, NumberInv, HandParts, BoxInv, NEW p \in Caller, Enqueue(p)
    PROVE  BoxInv'
<1> USE DEF link, loops, module, callers, hist, bounds
<1>1. /\ pc[p] = "send" /\ pc' = [pc EXCEPT ![p] = "wait"] /\ Queued' = Queued \cup {call[p]}
      /\ UNCHANGED <<call, calls, inbox, hand>>
  BY EnqueueGives DEF Enqueue
<1>2. Live' = Live \cup {call[p]} /\ call[p] \notin Live
  BY <1>1, LiveFacts DEF Live
<1>3. pc'[p] = "wait" /\ \A q \in Caller : q # p => pc'[q] = pc[q]
  BY <1>1 DEF LinkType
<1>4. \A q \in Caller : Busy(q)' = Busy(q) /\ (pc[q] = "wait" => pc'[q] = "wait")
  BY <1>1, <1>3 DEF Busy
<1>5. \A q \in Caller : Busy(q) /\ q # p => call[q].box # call[p].box /\ call[q] # call[p]
  BY <1>1 DEF BoxInv, Busy
<1>6. \A a \in inbox : a.box # call[p].box
  BY <1>1 DEF BoxInv, Busy
<1>7. \A r \in Live' : r.box \in Pooled => \E q \in Caller : pc'[q] = "wait" /\ call'[q] = r
  <2> SUFFICES ASSUME NEW r \in Live', r.box \in Pooled
               PROVE  \E q \in Caller : pc'[q] = "wait" /\ call[q] = r
    BY <1>1
  <2>1. CASE r \in Live
    BY <1>4, <2>1 DEF BoxInv
  <2>2. CASE r = call[p]
    BY <1>3, <2>2
  <2> QED
    BY <1>2, <2>1, <2>2
<1>8. \A r \in Live', q \in Caller : Busy(q)' /\ r.box = call'[q].box => r = call'[q]
  BY <1>1, <1>2, <1>4, <1>5 DEF BoxInv
<1>9. \A a \in inbox' : a.box \in Pooled => \E q \in Caller : pc'[q] = "wait" /\ call'[q].box = a.box
  BY <1>1, <1>4 DEF BoxInv
<1>10. \A a \in inbox' : a.box \in Nat => a.box \in 1 .. calls'
  BY <1>1 DEF BoxInv
<1>11. \A a \in inbox', q \in Caller : Busy(q)' /\ a.box = call'[q].box => pc'[q] = "wait" /\ call'[q] \notin Live'
  BY <1>1, <1>2, <1>4, <1>5, <1>6 DEF BoxInv
<1>12. \A q, h \in Caller : Busy(q)' /\ Busy(h)' /\ q # h => call'[q].box # call'[h].box
  BY <1>1, <1>4 DEF BoxInv
<1> QED
  BY <1>7, <1>8, <1>9, <1>10, <1>11, <1>12, Zenon DEF BoxInv

-----------------------------------------------------------------------------
\* The answers that are given

\* Every step before a stop keeps an answer channel one call's.
LEMMA BoxStep ==
    ASSUME LinkType, NumberInv, HandParts, BoxInv, Next \/ UNCHANGED vars, ~stop'
    PROVE  BoxInv'
<1> USE DEF link, loops, module, callers, hist, bounds
<1>0. ~stop
  BY StopStays, Zenon
<1>1. ASSUME UNCHANGED <<queue, hand, inbox, pc, call, calls>>
      PROVE  BoxInv'
  BY <1>1 DEF BoxInv, Live, Queued, Busy
<1>2. ASSUME NEW p \in Caller, NEW k \in Kind, Check(p, k)
      PROVE  BoxInv'
  BY <1>2, BoxTaken
<1>3. ASSUME NEW p \in Caller, Enqueue(p)
      PROVE  BoxInv'
  BY <1>3, BoxQueued
<1>4. ASSUME NEW p \in Caller, SendFails(p) \/ Receive(p) \/ GiveUp(p)
      PROVE  BoxInv'
  <2>1. Leave(p) /\ UNCHANGED <<queue, hand, calls>> /\ Busy(p)
    BY <1>4 DEF SendFails, Receive, GiveUp, Busy
  <2>2. Live' = Live
    BY <2>1 DEF Live, Queued
  <2>3. CASE SendFails(p)
    BY <2>1, <2>2, <2>3, BoxLeft DEF SendFails
  <2>4. CASE Receive(p)
    <3>1. call[p] \notin Live
      BY <2>1, <2>4 DEF Receive, BoxInv
    <3> QED
      BY <2>1, <2>2, <3>1, BoxLeft
  <2>5. CASE GiveUp(p)
    <3>1. call[p].kind = "sms" /\ call[p] \in Requests
      BY <1>0, <2>1, <2>5, LiveFacts DEF GiveUp
    <3>2. call[p].box \notin Pooled
      BY <3>1, RequestFields, LinkAssumption
    <3> QED
      BY <2>1, <2>2, <3>2, BoxLeft
  <2> QED
    BY <1>4, <2>3, <2>4, <2>5
<1>5. ASSUME NEW l \in {"high", "normal"}, Take(l)
      PROVE  BoxInv'
  <2> DEFINE r == Head(queue[l])
  <2>1. r \in Queued /\ Queued' = Queued \ {r} /\ hand = Nothing /\ UNCHANGED <<pc, call, calls>>
    BY <1>5, TakeGives DEF Lanes, Take
  <2>2. r # Nothing /\ Live = Queued
    BY <2>1, RequestFields DEF Live, Queued
  <2>3. CASE hand' = r /\ UNCHANGED inbox
    <3>1. Live' = Live
      BY <2>1, <2>2, <2>3 DEF Live
    <3> QED
      BY <2>1, <2>3, <3>1 DEF BoxInv, Busy
  <2>4. CASE hand' = hand /\ Answer(r, 0, "error")
    <3>1. r \in Live /\ Live' = Live \ {r}
      BY <2>1, <2>2, <2>4 DEF Live
    <3> QED
      BY <2>1, <2>4, <3>1, BoxAnswered
  <2> QED
    BY <1>5, <2>3, <2>4 DEF Take
<1>6. ASSUME NEW d, NEW t, hand # Nothing, hand' = Nothing, Answer(hand, d, t),
             UNCHANGED <<queue, pc, call, calls>>
      PROVE  BoxInv'
  <2>1. hand \in Live /\ hand \notin Queued
    BY <1>6, LiveFacts
  <2>2. Live' = Live \ {hand}
    BY <1>6, <2>1 DEF Live, Queued
  <2> QED
    BY <1>6, <2>1, <2>2, BoxAnswered
<1>7. CASE Line
  <2>1. /\ hand # Nothing /\ UNCHANGED <<queue, pc, call, calls>>
        /\ \/ UNCHANGED <<hand, inbox>>
           \/ hand' = Nothing /\ Answer(hand, rx[1].n, rx[1].t)
    BY <1>7, LineGives
  <2> QED
    BY <1>1, <1>6, <2>1
<1>8. CASE TimeOut
  BY <1>6, <1>8 DEF TimeOut
<1>9. ASSUME \/ Stop \/ Second \/ SeesStop \/ Idle
             \/ ModuleReads \/ URC \/ ReadFails \/ ReportError \/ ReaderPanics \/ UNCHANGED vars
      PROVE  UNCHANGED <<queue, hand, inbox, pc, call, calls>>
  BY <1>9 DEF Stop, Second, SeesStop, Idle, ModuleReads, URC, ReadFails, ReportError, ReaderPanics, vars
<1>10. ASSUME LoopPanics
       PROVE  BoxInv'
  <2>1. hand' = Nothing /\ UNCHANGED <<queue, inbox, pc, call, calls>>
    BY <1>10 DEF LoopPanics
  <2>2. Live' \subseteq Live
    BY <2>1 DEF Live, Queued
  <2> QED
    BY <2>1, <2>2 DEF BoxInv, Busy
<1> QED
  BY <1>1, <1>2, <1>3, <1>4, <1>5, <1>7, <1>8, <1>9, <1>10 DEF Next

-----------------------------------------------------------------------------
\* The commands that timed out before n was written.
LateBefore(n) == {m \in late : PlaceIn(order, m) < PlaceIn(order, n)}

Fits(n, d) ==
    /\ n \in Written /\ d \in Written
    /\ PlaceIn(order, n) - PlaceIn(order, d) \in 0 .. Cardinality(LateBefore(n))

GivenInv ==
    \A p \in Caller, a \in inbox :
        pc[p] = "wait" /\ a.box = call[p].box /\ a.d # 0 => Fits(call[p].n, a.d)

\* Places never change, and what times out later has a later place.
LEMMA FitsStays ==
    ASSUME LinkType, NumberInv, HandParts, Next \/ UNCHANGED vars, NEW n, NEW d, Fits(n, d)
    PROVE  Fits(n, d)'
<1> USE DEF link, loops, module, callers, hist, bounds
<1>1. CASE UNCHANGED <<order, late>>
  BY <1>1 DEF Fits, LateBefore, Written
<1>2. CASE TimeOut
  <2>1. UNCHANGED order /\ late' = late \cup {hand.n} /\ hand # Nothing
    BY <1>2 DEF TimeOut
  <2>2. Len(order) \in Nat /\ order # <<>> /\ order[Len(order)] = hand.n /\ Len(order) # 0
    BY <2>1, LenProperties DEF HandParts, LinkType
  <2>3. /\ \A m \in Written : PlaceIn(order, m) \in 1 .. Len(order)
        /\ \A i \in 1 .. Len(order) : PlaceIn(order, order[i]) = i
    BY PlaceIs DEF LinkType, NumberInv
  <2>4. PlaceIn(order, hand.n) = Len(order)
    BY <2>2, <2>3
  <2>5. PlaceIn(order, n) <= Len(order) /\ PlaceIn(order, n) \in Int
    BY <2>3 DEF Fits
  <2>6. ~(PlaceIn(order, hand.n) < PlaceIn(order, n))
    BY <2>2, <2>4, <2>5
  <2>7. LateBefore(n)' = LateBefore(n)
    BY <2>1, <2>6 DEF LateBefore
  <2>8. Written' = Written
    BY <2>1 DEF Written
  <2> QED
    BY <2>1, <2>7, <2>8 DEF Fits
<1>3. ASSUME NEW l \in {"high", "normal"}, Take(l)
      PROVE  Fits(n, d)'
  <2> DEFINE r == Head(queue[l])
  <2>1. r \in Queued
    BY <1>3, TakeGives DEF Lanes
  <2>2. r.n \in Nat /\ r.n \notin Written
    BY <2>1, RequestFields DEF NumberInv, Queued
  <2>3. late' = late /\ order' \in {order, Append(order, r.n)}
    BY <1>3 DEF Take
  <2> HIDE DEF r
  <2>4. CASE order' = Append(order, r.n)
    <3>1. order \in Seq(Nat) /\ OrderedOnce
      BY DEF LinkType, NumberInv
    <3>2. Written' = Written \cup {r.n} /\ \A m \in Written : PlaceIn(order', m) = PlaceIn(order, m)
      BY <2>2, <2>4, <3>1, WriteGives
    <3>3. n \in Written /\ d \in Written /\ late \subseteq Written
      BY DEF Fits, HandParts
    <3>4. LateBefore(n)' = LateBefore(n)
      BY <2>3, <3>2, <3>3 DEF LateBefore
    <3> QED
      BY <3>2, <3>3, <3>4 DEF Fits
  <2> QED
    BY <1>1, <2>3, <2>4
<1>4. ASSUME NEW p \in Caller,
             (\E k \in Kind : Check(p, k)) \/ Enqueue(p) \/ SendFails(p) \/ Receive(p) \/ GiveUp(p)
      PROVE  UNCHANGED <<order, late>>
  BY <1>4 DEF Check, Enqueue, SendFails, Receive, GiveUp
<1>5. ASSUME \/ Stop \/ Second \/ SeesStop \/ Idle \/ Line \/ LoopPanics
             \/ ModuleReads \/ URC \/ ReadFails \/ ReportError \/ ReaderPanics \/ UNCHANGED vars
      PROVE  UNCHANGED <<order, late>>
  BY <1>5 DEF Stop, Second, SeesStop, Idle, Line, LoopPanics, ModuleReads, URC, ReadFails,
     ReportError, ReaderPanics, vars
<1> QED
  BY <1>1, <1>2, <1>3, <1>4, <1>5 DEF Next

\* The line that ends the command in hand fits it.
LEMMA LineFits ==
    ASSUME LinkType, NumberInv, TraceParts, HandParts, FlowInv, hand # Nothing, rx # <<>>,
           rx[1].t \notin {"urc"}, rx[1].n # 0
    PROVE  Fits(hand.n, rx[1].n)
<1>0. PICK a, b : Flow(a, b)
  BY DEF FlowInv
<1>1. /\ Base \in Int /\ Cardinality(late) \in Nat /\ rx \in Seq(Heards) /\ Len(order) \in Nat
      /\ order \in Seq(Nat) /\ OrderedOnce
  BY FlowFacts
<1>2. rx[1] \in Heards /\ 1 \in 1 .. Len(rx) /\ 1 \in 1 .. Len(rx) + 1
  BY <1>1, TailElements, ElementOfSeq
<1>3. rx[1].t \in Spoken
  <2>1. rx[1].t # "error"
    BY <1>2 DEF FlowInv, ErrorLast
  <2> QED
    BY <1>2, <2>1 DEF Heards, Lines, Spoken
<1>4. rx[1].n \in Written
  BY <1>2, <1>3 DEF TraceParts
<1>5. a[1] \in Int /\ Base <= a[1] /\ a[1] <= PlaceIn(order, rx[1].n)
  BY <1>0, <1>1, <1>2, <1>3, TallyIs DEF Flow, LinesFlow
<1>6. order # <<>> /\ order[Len(order)] = hand.n /\ hand.n \notin late /\ late \subseteq Written
  BY DEF HandParts
<1>7. Len(order) \in 1 .. Len(order)
  BY <1>1, <1>6, LenProperties
<1>8. /\ \A m \in Written : PlaceIn(order, m) \in 1 .. Len(order)
      /\ \A i \in 1 .. Len(order) : PlaceIn(order, order[i]) = i
  BY <1>1, PlaceIs
<1>9. hand.n \in Written /\ PlaceIn(order, hand.n) = Len(order)
  BY <1>6, <1>7, <1>8 DEF Written
<1>10. LateBefore(hand.n) = late
  <2> SUFFICES ASSUME NEW m \in late
               PROVE  PlaceIn(order, m) < PlaceIn(order, hand.n)
    BY DEF LateBefore
  <2>1. PICK i \in 1 .. Len(order) : order[i] = m
    BY <1>6 DEF Written
  <2>2. PlaceIn(order, m) = i /\ i # Len(order)
    BY <1>6, <1>8, <2>1
  <2> QED
    BY <1>1, <1>9, <2>1, <2>2
<1>11. PlaceIn(order, rx[1].n) \in 1 .. Len(order)
  BY <1>4, <1>8
<1>12. Len(order) - Cardinality(late) <= PlaceIn(order, rx[1].n)
  <2>1. Base = Len(order) - Cardinality(late)
    BY <1>1 DEF Base
  <2> QED
    BY <1>1, <1>5, <1>11, <2>1
<1>13. Len(order) - PlaceIn(order, rx[1].n) \in 0 .. Cardinality(late)
  BY <1>1, <1>11, <1>12
<1> QED
  BY <1>4, <1>9, <1>10, <1>13 DEF Fits

\* Every step before a stop gives answers within their bounds.
LEMMA GivenStep ==
    ASSUME LinkType, NumberInv, TraceParts, HandParts, BoxInv, GivenInv,
           hand # Nothing => FlowInv, Next \/ UNCHANGED vars, ~stop'
    PROVE  GivenInv'
<1> USE DEF link, loops, module, callers, hist, bounds
<1> SUFFICES ASSUME NEW p \in Caller, NEW a \in inbox',
                    pc'[p] = "wait", a.box = call'[p].box, a.d # 0
             PROVE  Fits(call[p].n, a.d) /\ call'[p] = call[p]
  BY FitsStays DEF GivenInv
<1>1. CASE pc[p] = "wait" /\ call'[p] = call[p] /\ a \in inbox
  BY <1>1 DEF GivenInv
<1>2. ASSUME NEW q \in Caller, NEW k \in Kind, Check(q, k)
      PROVE  pc[p] = "wait" /\ call'[p] = call[p] /\ a \in inbox
  <2>1. /\ \E box : call' = [call EXCEPT ![q] = Request(q, k, box)]
        /\ pc' = [pc EXCEPT ![q] = "send"] /\ inbox' = inbox
    BY <1>2 DEF Check
  <2> QED
    BY <2>1 DEF LinkType
<1>3. ASSUME NEW q \in Caller, Enqueue(q)
      PROVE  pc[p] = "wait" /\ call'[p] = call[p] /\ a \in inbox
  <2>1. pc[q] = "send" /\ pc' = [pc EXCEPT ![q] = "wait"] /\ UNCHANGED <<inbox, call>>
    BY <1>3 DEF Enqueue
  <2>2. p # q
    BY <2>1 DEF BoxInv, Busy
  <2> QED
    BY <2>1, <2>2 DEF LinkType
<1>4. ASSUME NEW q \in Caller, SendFails(q) \/ Receive(q) \/ GiveUp(q)
      PROVE  pc[p] = "wait" /\ call'[p] = call[p] /\ a \in inbox
  <2>1. Leave(q)
    BY <1>4 DEF SendFails, Receive, GiveUp
  <2>2. /\ pc' = [pc EXCEPT ![q] = "idle"] /\ call' = [call EXCEPT ![q] = Nothing]
        /\ inbox' \subseteq inbox
    BY <2>1 DEF Leave
  <2> QED
    BY <2>2 DEF LinkType
<1>5. ASSUME NEW l \in {"high", "normal"}, Take(l)
      PROVE  pc[p] = "wait" /\ call'[p] = call[p] /\ a \in inbox
  <2>1. UNCHANGED <<pc, call>>
    BY <1>5 DEF Take
  <2>2. a \in inbox \/ a.d = 0
    BY <1>5 DEF Take, Answer
  <2> QED
    BY <2>1, <2>2
<1>6. ASSUME TimeOut
      PROVE  pc[p] = "wait" /\ call'[p] = call[p] /\ a \in inbox
  <2>1. UNCHANGED <<pc, call>>
    BY <1>6 DEF TimeOut
  <2>2. a \in inbox \/ a.d = 0
    BY <1>6 DEF TimeOut, Answer
  <2> QED
    BY <2>1, <2>2
<1>7. ASSUME Line, a \notin inbox
      PROVE  Fits(call[p].n, a.d) /\ call'[p] = call[p]
  <2>1. /\ hand # Nothing /\ rx # <<>> /\ UNCHANGED <<pc, call>>
        /\ rx[1].t # "urc" /\ Answer(hand, rx[1].n, rx[1].t)
    BY <1>7, LineGives
  <2>2. a = [box |-> hand.box, d |-> rx[1].n, t |-> rx[1].t]
    BY <1>7, <2>1 DEF Answer
  <2>3. a.box = hand.box /\ a.d = rx[1].n
    BY <2>2
  <2>4. hand \in Live
    BY <2>1, LiveFacts
  <2>5. hand = call[p]
    BY <2>1, <2>3, <2>4 DEF BoxInv, Busy
  <2>6. Fits(hand.n, rx[1].n)
    BY <2>1, <2>3, LineFits
  <2> QED
    BY <2>1, <2>3, <2>5, <2>6
<1>8. Line => UNCHANGED <<pc, call>>
  BY DEF Line
<1>9. ASSUME \/ Stop \/ Second \/ SeesStop \/ Idle \/ LoopPanics
             \/ ModuleReads \/ URC \/ ReadFails \/ ReportError \/ ReaderPanics \/ UNCHANGED vars
      PROVE  pc[p] = "wait" /\ call'[p] = call[p] /\ a \in inbox
  <2>1. UNCHANGED <<pc, call, inbox>>
    BY <1>9 DEF Stop, Second, SeesStop, Idle, LoopPanics, ModuleReads, URC, ReadFails, ReportError,
       ReaderPanics, vars
  <2> QED
    BY <2>1
<1> QED
  BY <1>1, <1>2, <1>3, <1>4, <1>5, <1>6, <1>7, <1>8, <1>9 DEF Next

OrderInv ==
    /\ LinkType /\ NumberInv /\ TraceParts /\ HandParts /\ HandLost
    /\ stop \/ (BoxInv /\ GivenInv /\ (loop = "panicked" \/ FlowInv))

\* A caller is given the answer to its own command.  It is given that
\* of an earlier command only as far back as commands before its own have
\* timed out: a late answer ends the next command, whose own answer then
\* comes late, until the line is idle for a moment.
\* (handleCommand, executeAT's deferred drain)
THEOREM OrderKept == MCSpec => []AnswersInOrder
<1>1. MCInit => OrderInv
  <2> SUFFICES ASSUME MCInit
               PROVE  OrderInv
    OBVIOUS
  <2>1. /\ queue = [l \in {"high", "normal"} |-> <<>>] /\ hand = Nothing /\ rx = <<>> /\ wire = <<>>
        /\ prompting = 0 /\ inbox = {} /\ pc = [q \in Caller |-> "idle"] /\ order = <<>> /\ late = {}
    BY DEF MCInit, Init
  <2>2. Len(<<>>) = 0 /\ 1 .. 0 = {}
    OBVIOUS
  <2>3. Queued = {} /\ Written = {} /\ OrderedOnce /\ QueuedOnce
    BY <2>1, <2>2 DEF Queued, Written, OrderedOnce, QueuedOnce, Lanes
  <2>4. NumberInv
    BY <2>1, <2>3 DEF NumberInv
  <2>5. TraceParts /\ HandParts /\ HandLost
    BY <2>1, <2>2, FS_EmptySet DEF TraceParts, HandParts, HandLost
  <2>6. BoxInv /\ GivenInv
    BY <2>1, <2>3 DEF BoxInv, GivenInv, Live, Busy
  <2> QED
    BY <2>4, <2>5, <2>6, FlowInit, LinkTypeInit DEF OrderInv
<1>2. OrderInv /\ (Next \/ UNCHANGED vars) => OrderInv'
  <2> SUFFICES ASSUME OrderInv, Next \/ UNCHANGED vars
               PROVE  OrderInv'
    OBVIOUS
  <2>1. LinkType /\ NumberInv /\ TraceParts /\ HandParts /\ HandLost
    BY DEF OrderInv
  <2>2. LinkType'
    <3>1. UNCHANGED vars => LinkType'
      BY <2>1 DEF vars, link, loops, module, callers, hist, bounds, LinkType
    <3> QED
      BY <2>1, <3>1, LinkTypeStep
  <2>3. NumberInv' /\ TraceParts' /\ HandParts' /\ HandLost'
    BY <2>1, NumberStep, TraceStep, PanicStays
  <2>4. CASE stop'
    BY <2>2, <2>3, <2>4, Zenon DEF OrderInv
  <2>5. CASE ~stop'
    <3>1. ~stop
      BY <2>5, StopStays, Zenon
    <3>2. BoxInv /\ GivenInv /\ (loop = "panicked" \/ FlowInv)
      BY <3>1, Zenon DEF OrderInv
    <3>3. BoxInv' /\ GivenInv'
      <4>1. hand # Nothing => FlowInv
        BY <2>1, <3>2 DEF HandLost
      <4> QED
        BY <2>1, <2>5, <3>2, <4>1, BoxStep, GivenStep
    <3>4. loop' = "panicked" \/ FlowInv'
      <4> SUFFICES ASSUME loop' # "panicked"
                   PROVE  FlowInv'
        OBVIOUS
      <4>1. loop # "panicked"
        BY <2>1, PanicStays
      <4> QED
        BY <2>1, <2>2, <2>3, <2>5, <3>2, <4>1, FlowStep
    <3> QED
      BY <2>2, <2>3, <3>3, <3>4, Zenon DEF OrderInv
  <2> QED
    BY <2>4, <2>5
<1>3. OrderInv => AnswersInOrder
  <2> SUFFICES ASSUME OrderInv, ~stop, NEW g \in Given
               PROVE  Place(g.n) - Place(g.d) \in
                        0 .. Cardinality({n \in late : Place(n) < Place(g.n)})
    BY Zenon DEF AnswersInOrder
  <2>1. GivenInv
    BY Zenon DEF OrderInv
  <2>2. PICK p \in Caller, a \in inbox :
          /\ pc[p] = "wait" /\ a.box = call[p].box /\ a.d # 0
          /\ g = [n |-> call[p].n, kind |-> call[p].kind, d |-> a.d, t |-> a.t]
    BY GivenIs
  <2>3. g.n = call[p].n /\ g.d = a.d
    BY <2>2
  <2>4. Fits(g.n, g.d)
    BY <2>1, <2>2, <2>3 DEF GivenInv
  <2>5. \A n : Place(n) = PlaceIn(order, n)
    BY DEF Place, PlaceIn
  <2> QED
    BY <2>4, <2>5 DEF Fits, LateBefore
<1> QED
  BY <1>1, <1>2, <1>3, LinkSteps, PTL DEF MCSpec
=============================================================================
