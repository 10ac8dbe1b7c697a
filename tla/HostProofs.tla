----------------------------- MODULE HostProofs -----------------------------
(***************************************************************************)
(* Proofs about the parts of the hub's process on the host that MCHost     *)
(* puts beside those of the serial modem, for any requests, handles,       *)
(* scripts, modules and files.  H is the USB side, A the audio, F the      *)
(* stores; the modem's parts have their proofs in ModemProofs.             *)
(***************************************************************************)
EXTENDS MCHost, TLAPS

-----------------------------------------------------------------------------
(***************************************************************************)
(* The USB AT bridge.                                                      *)
(***************************************************************************)
BridgeType ==
    /\ plugs \in Nat /\ usbModule \in {0, plugs}
    /\ on \in Seq(Nat) /\ \A h \in 1 .. Len(on) : on[h] \in 1 .. plugs
    /\ usbAT \in 0 .. Len(on)
    /\ closed \subseteq 1 .. Len(on)
    /\ port \in {"absent", "bridge"}
    /\ dev \in [Caller -> 0 .. Len(on)]
    /\ DOMAIN rpc = Caller

(* A handle has failed, or its enumeration of the module is over.          *)
Dead(h) == h \in failed \/ on[h] # usbModule

(* A request uses a handle that was opened, gives up only a dead one, and  *)
(* closes it only when nobody can get it any more.                         *)
GivingUpInv ==
    \A c \in Caller :
        /\ rpc[c] \in {"command", "read", "detach", "close"} => dev[c] # 0
        /\ rpc[c] \in {"detach", "close"} => Dead(dev[c])
        /\ rpc[c] = "close" => dev[c] # usbAT

BridgeInv == BridgeType /\ GivingUpInv /\ H!DetachHasCause

(* A dead handle stays dead: an enumeration does not come back.            *)
LEMMA DeadStaysDead ==
    ASSUME BridgeType, failed \subseteq failed',
           \/ usbModule' = usbModule
           \/ usbModule' = 0
           \/ plugs' = plugs + 1 /\ usbModule' = plugs'
    PROVE  \A h \in 1 .. Len(on) : Dead(h) => h \in failed' \/ on[h] # usbModule'
<1>1. SUFFICES ASSUME NEW h \in 1 .. Len(on), on[h] # usbModule
               PROVE  on[h] # usbModule'
  BY DEF Dead
<1>2. on[h] \in 1 .. plugs /\ plugs \in Nat
  BY DEF BridgeType
<1>3. QED
  BY <1>1, <1>2

(* The bridge that every request shares, seen by the steps that leave it   *)
(* as it is.                                                               *)
LEMMA RequestGoesOn ==
    ASSUME BridgeInv, NEW c \in Caller, NEW p,
           rpc' = [rpc EXCEPT ![c] = p], dev' \in [Caller -> 0 .. Len(on)],
           \A e \in Caller : e # c => dev'[e] = dev[e],
           failed \subseteq failed', UNCHANGED <<usbModule, plugs, usbAT, on, closed, port>>,
           p \in {"command", "read", "detach", "close"} => dev'[c] # 0,
           p \in {"detach", "close"} => Dead(dev[c])',
           p = "close" => dev'[c] # usbAT
    PROVE  BridgeInv'
<1>1. BridgeType'
  BY DEF BridgeInv, BridgeType
<1>2. \A h \in 1 .. Len(on) : Dead(h) => h \in failed' \/ on[h] # usbModule
  BY DEF Dead
<1>3. ASSUME NEW e \in Caller
      PROVE  /\ rpc'[e] \in {"command", "read", "detach", "close"} => dev'[e] # 0
             /\ rpc'[e] \in {"detach", "close"} => Dead(dev[e])'
             /\ rpc'[e] = "close" => dev'[e] # usbAT'
  <2>1. CASE e = c
    <3>1. rpc'[e] = p
      BY <2>1 DEF BridgeInv, BridgeType
    <3>2. QED
      BY <2>1, <3>1
  <2>2. CASE e # c
    <3>1. rpc'[e] = rpc[e] /\ dev'[e] = dev[e] /\ dev[e] \in 0 .. Len(on)
      BY <2>2 DEF BridgeInv, BridgeType
    <3>2. rpc[e] \in {"detach", "close"} => dev[e] \in 1 .. Len(on) /\ Dead(dev[e])
      BY <3>1 DEF BridgeInv, GivingUpInv, BridgeType
    <3>3. rpc[e] \in {"detach", "close"} => dev[e] \in failed' \/ on[dev[e]] # usbModule
      BY <1>2, <3>2
    <3>4. QED
      BY <3>1, <3>3 DEF BridgeInv, GivingUpInv, Dead
  <2>3. QED
    BY <2>1, <2>2
<1>4. GivingUpInv'
  BY <1>3 DEF GivingUpInv
<1>5. H!DetachHasCause'
  BY DEF BridgeInv, H!DetachHasCause
<1>6. QED
  BY <1>1, <1>4, <1>5 DEF BridgeInv

(* What a step of a request does to the bridge, for those that do not open *)
(* or give up a handle.                                                    *)
LEMMA RequestStep ==
    ASSUME BridgeInv, NEW c \in Caller,
           \/ H!Start(c) \/ H!Absent(c) \/ H!OpenRefused(c) \/ H!Use(c) \/ H!Write(c)
           \/ H!Read(c) \/ H!TimedOut(c) \/ H!NoDevice(c)
    PROVE  BridgeInv'
<1> USE DEF H!Goto
<1>t. /\ usbAT \in 0 .. Len(on) /\ dev \in [Caller -> 0 .. Len(on)] /\ 0 \in 0 .. Len(on)
      /\ plugs \in Nat /\ \A h \in 1 .. Len(on) : on[h] \in 1 .. plugs
      /\ DOMAIN rpc = Caller /\ port \in {"absent", "bridge"}
  BY DEF BridgeInv, BridgeType
<1>g. /\ rpc[c] \in {"command", "read", "detach", "close"} => dev[c] # 0
      /\ port = "bridge" <=> usbAT # 0
  BY DEF BridgeInv, GivingUpInv, H!DetachHasCause
<1>1. CASE H!Start(c)
  <2>1. UNCHANGED <<usbModule, plugs, usbAT, on, closed, port, failed>>
    BY <1>1 DEF H!Start
  <2>2. CASE usbAT # 0 /\ H!Goto(c, "use") /\ UNCHANGED dev
    BY <1>t, <2>1, <2>2, RequestGoesOn
  <2>3. CASE usbAT # 0 /\ usbModule = 0 /\ H!Goto(c, "detach") /\ dev' = [dev EXCEPT ![c] = usbAT]
    <3>1. dev'[c] = usbAT /\ usbAT \in 1 .. Len(on) /\ on[usbAT] # usbModule
      BY <1>t, <2>3
    <3>2. Dead(dev[c])'
      BY <2>1, <3>1 DEF Dead
    <3>3. QED
      BY <1>t, <2>1, <2>3, <3>1, <3>2, RequestGoesOn
  <2>4. CASE H!Goto(c, "absent") /\ UNCHANGED dev
    BY <1>t, <2>1, <2>4, RequestGoesOn
  <2>5. CASE H!Goto(c, "open") /\ UNCHANGED dev
    BY <1>t, <2>1, <2>5, RequestGoesOn
  <2>6. QED
    BY <1>1, <2>2, <2>3, <2>4, <2>5 DEF H!Start
<1>2. CASE H!Absent(c)
  <2>1. UNCHANGED <<usbModule, plugs, usbAT, on, closed, port, failed, dev>>
    BY <1>2, <1>t, <1>g DEF H!Absent
  <2>2. CASE H!Goto(c, "use")
    BY <1>t, <2>1, <2>2, RequestGoesOn
  <2>3. CASE H!Goto(c, "idle")
    BY <1>t, <2>1, <2>3, RequestGoesOn
  <2>4. QED
    BY <1>2, <2>2, <2>3 DEF H!Absent
<1>3. CASE H!OpenRefused(c)
  <2>1. UNCHANGED <<usbModule, plugs, usbAT, on, closed, port, failed, dev>>
    BY <1>3 DEF H!OpenRefused
  <2>2. CASE H!Goto(c, "use")
    BY <1>t, <2>1, <2>2, RequestGoesOn
  <2>3. CASE H!Goto(c, "idle")
    BY <1>t, <2>1, <2>3, RequestGoesOn
  <2>4. QED
    BY <1>3, <2>2, <2>3 DEF H!OpenRefused
<1>4. CASE H!Use(c)
  <2>1. UNCHANGED <<usbModule, plugs, usbAT, on, closed, port, failed>>
        /\ dev' = [dev EXCEPT ![c] = usbAT]
    BY <1>4 DEF H!Use
  <2>2. CASE usbAT = 0 /\ H!Goto(c, "idle")
    BY <1>t, <2>1, <2>2, RequestGoesOn
  <2>3. CASE usbAT # 0 /\ H!Goto(c, "command")
    BY <1>t, <2>1, <2>3, RequestGoesOn
  <2>4. QED
    BY <1>4, <2>2, <2>3 DEF H!Use
<1>5. CASE H!Write(c)
  <2>1. UNCHANGED <<usbModule, plugs, usbAT, on, closed, port, dev>> /\ dev[c] # 0
    BY <1>5, <1>g DEF H!Write
  <2>2. CASE H!Goto(c, "idle") /\ UNCHANGED failed
    BY <1>t, <2>1, <2>2, RequestGoesOn
  <2>3. CASE H!Goto(c, "read") /\ UNCHANGED failed
    BY <1>t, <2>1, <2>3, RequestGoesOn
  <2>4. CASE failed' = failed \cup {dev[c]} /\ H!Goto(c, "detach")
    <3>1. Dead(dev[c])'
      BY <2>1, <2>4 DEF Dead
    <3>2. QED
      BY <1>t, <2>1, <2>4, <3>1, RequestGoesOn
  <2>5. QED
    BY <1>5, <2>2, <2>3, <2>4 DEF H!Write
<1>6. CASE H!Read(c)
  <2>1. UNCHANGED <<usbModule, plugs, usbAT, on, closed, port, failed>>
        /\ dev' = [dev EXCEPT ![c] = 0] /\ H!Goto(c, "idle")
    BY <1>6 DEF H!Read
  <2>2. QED
    BY <1>t, <2>1, RequestGoesOn
<1>7. CASE H!TimedOut(c) \/ H!NoDevice(c)
  <2>1. /\ UNCHANGED <<usbModule, plugs, usbAT, on, closed, port, dev>> /\ dev[c] # 0
        /\ failed' = failed \cup {dev[c]} /\ H!Goto(c, "detach")
    BY <1>7, <1>g DEF H!TimedOut, H!NoDevice
  <2>2. Dead(dev[c])'
    BY <2>1 DEF Dead
  <2>3. QED
    BY <1>t, <2>1, <2>2, RequestGoesOn
<1>8. QED
  BY <1>1, <1>2, <1>3, <1>4, <1>5, <1>6, <1>7

(* A module that comes or goes: dead handles stay dead.                    *)
LEMMA PlugStep ==
    ASSUME BridgeInv, H!Plug \/ H!Unplug
    PROVE  BridgeInv'
<1>1. /\ UNCHANGED <<usbAT, on, closed, failed, port, rpc, dev>>
      /\ \/ usbModule' = 0 /\ UNCHANGED plugs
         \/ plugs' = plugs + 1 /\ usbModule' = plugs'
  BY DEF H!Plug, H!Unplug
<1>2. BridgeType'
  BY <1>1 DEF BridgeInv, BridgeType
<1>3. \A h \in 1 .. Len(on) : Dead(h) => h \in failed' \/ on[h] # usbModule'
  BY <1>1, DeadStaysDead DEF BridgeInv
<1>4. GivingUpInv'
  <2>1. ASSUME NEW c \in Caller
        PROVE  /\ rpc[c] \in {"command", "read", "detach", "close"} => dev[c] # 0
               /\ rpc[c] \in {"detach", "close"} => dev[c] \in failed' \/ on[dev[c]] # usbModule'
               /\ rpc[c] = "close" => dev[c] # usbAT
    <3>1. dev[c] \in 0 .. Len(on)
      BY DEF BridgeInv, BridgeType
    <3>2. rpc[c] \in {"detach", "close"} => Dead(dev[c]) /\ dev[c] \in 1 .. Len(on)
      BY <3>1 DEF BridgeInv, GivingUpInv
    <3>3. QED
      BY <1>3, <3>2 DEF BridgeInv, GivingUpInv
  <2>2. QED
    BY <1>1, <2>1 DEF GivingUpInv, Dead
<1>5. H!DetachHasCause'
  <2>1. \A h \in closed : Dead(h) /\ h \in 1 .. Len(on)
    BY DEF BridgeInv, BridgeType, H!DetachHasCause, Dead
  <2>2. QED
    BY <1>1, <1>3, <2>1 DEF BridgeInv, H!DetachHasCause
<1>6. QED
  BY <1>2, <1>4, <1>5 DEF BridgeInv

(* A handle that is opened is a new one.                                   *)
LEMMA OpenStep ==
    ASSUME BridgeInv, NEW c \in Caller, H!Open(c)
    PROVE  BridgeInv'
<1>1. /\ usbAT = 0 /\ usbModule # 0 /\ on' = Append(on, usbModule) /\ usbAT' = Len(on')
      /\ port' = "bridge" /\ rpc' = [rpc EXCEPT ![c] = "use"]
      /\ UNCHANGED <<usbModule, plugs, closed, failed, dev>>
  BY DEF H!Open, H!Goto, H!Claimable
<1>2. /\ usbModule \in 1 .. plugs /\ usbModule \in Nat /\ on \in Seq(Nat) /\ Len(on) \in Nat
      /\ plugs \in Nat /\ usbModule \in {0, plugs} /\ closed \subseteq 1 .. Len(on)
      /\ dev \in [Caller -> 0 .. Len(on)] /\ DOMAIN rpc = Caller
      /\ \A h \in 1 .. Len(on) : on[h] \in 1 .. plugs
  BY <1>1 DEF BridgeInv, BridgeType
<1>3. /\ on' \in Seq(Nat) /\ Len(on') = Len(on) + 1
      /\ \A h \in 1 .. Len(on) : on'[h] = on[h]
      /\ on'[Len(on) + 1] = usbModule
  BY <1>1, <1>2
<1>4. \A h \in 1 .. Len(on') : on'[h] \in 1 .. plugs
  <2>1. ASSUME NEW h \in 1 .. Len(on')
        PROVE  h \in 1 .. Len(on) \/ h = Len(on) + 1
    BY <1>2, <1>3
  <2>2. QED
    BY <1>2, <1>3, <2>1
<1>5. BridgeType'
  <2>1. usbAT' \in 0 .. Len(on') /\ closed' \subseteq 1 .. Len(on')
    BY <1>1, <1>2, <1>3
  <2>2. dev' \in [Caller -> 0 .. Len(on')]
    <3>1. 0 .. Len(on) \subseteq 0 .. Len(on')
      BY <1>2, <1>3
    <3>2. QED
      BY <1>1, <1>2, <3>1
  <2>3. QED
    BY <1>1, <1>2, <1>3, <1>4, <2>1, <2>2 DEF BridgeType
<1>6. GivingUpInv'
  <2>1. ASSUME NEW e \in Caller
        PROVE  /\ rpc'[e] \in {"command", "read", "detach", "close"} => dev[e] # 0
               /\ rpc'[e] \in {"detach", "close"} => dev[e] \in failed \/ on'[dev[e]] # usbModule
               /\ rpc'[e] = "close" => dev[e] # usbAT'
    <3>1. dev[e] \in 0 .. Len(on) /\ (rpc'[e] = rpc[e] \/ rpc'[e] = "use")
      BY <1>1, <1>2
    <3>2. rpc'[e] \in {"command", "read", "detach", "close"} => rpc'[e] = rpc[e] /\ dev[e] # 0
      BY <3>1 DEF BridgeInv, GivingUpInv
    <3>3. rpc'[e] \in {"detach", "close"} => Dead(dev[e]) /\ on'[dev[e]] = on[dev[e]]
      BY <1>3, <3>1, <3>2 DEF BridgeInv, GivingUpInv
    <3>4. dev[e] # usbAT'
      BY <1>1, <1>2, <1>3, <3>1
    <3>5. QED
      BY <3>2, <3>3, <3>4 DEF Dead
  <2>2. QED
    BY <1>1, <2>1 DEF GivingUpInv, Dead
<1>7. H!DetachHasCause'
  <2>1. usbAT' \notin closed /\ usbAT' # 0
    BY <1>1, <1>2, <1>3
  <2>2. \A h \in closed : h \in failed \/ on'[h] # usbModule
    BY <1>2, <1>3 DEF BridgeInv, H!DetachHasCause
  <2>3. QED
    BY <1>1, <2>1, <2>2 DEF H!DetachHasCause
<1>8. QED
  BY <1>5, <1>6, <1>7 DEF BridgeInv

(* A handle is given up and closed.                                        *)
LEMMA GiveUpStep ==
    ASSUME BridgeInv, NEW c \in Caller, H!Detach(c) \/ H!Close(c)
    PROVE  BridgeInv'
<1>1. UNCHANGED <<usbModule, plugs, on, failed>>
  BY DEF H!Detach, H!Close
<1>2. /\ plugs \in Nat /\ usbModule \in {0, plugs} /\ on \in Seq(Nat) /\ Len(on) \in Nat
      /\ \A h \in 1 .. Len(on) : on[h] \in 1 .. plugs
      /\ usbAT \in 0 .. Len(on) /\ closed \subseteq 1 .. Len(on)
      /\ dev \in [Caller -> 0 .. Len(on)] /\ DOMAIN rpc = Caller
      /\ port \in {"absent", "bridge"}
  BY DEF BridgeInv, BridgeType
<1>3. /\ \A h \in closed : h \in failed \/ on[h] # usbModule
      /\ usbAT \notin closed /\ (port = "bridge" <=> usbAT # 0)
  BY DEF BridgeInv, H!DetachHasCause
<1>4. \A e \in Caller :
        /\ rpc[e] \in {"command", "read", "detach", "close"} => dev[e] # 0
        /\ rpc[e] \in {"detach", "close"} => dev[e] \in failed \/ on[dev[e]] # usbModule
        /\ rpc[e] = "close" => dev[e] # usbAT
  BY DEF BridgeInv, GivingUpInv, Dead
<1>5. CASE H!Detach(c)
  <2>1. rpc[c] = "detach" /\ UNCHANGED closed
    BY <1>5 DEF H!Detach
  <2>2. CASE /\ usbAT = dev[c] /\ usbAT' = 0 /\ port' = "absent"
             /\ dev' = [dev EXCEPT ![c] = usbAT] /\ H!Goto(c, "close")
    <3>1. dev' = dev /\ 0 \notin closed
      BY <1>2, <2>2
    <3>2. rpc' = [rpc EXCEPT ![c] = "close"]
      BY <2>2 DEF H!Goto
    <3>3. BridgeType'
      BY <1>1, <1>2, <2>1, <2>2, <3>1, <3>2 DEF BridgeType
    <3>4. ASSUME NEW e \in Caller
          PROVE  /\ rpc'[e] \in {"command", "read", "detach", "close"} => dev[e] # 0
                 /\ rpc'[e] \in {"detach", "close"} => dev[e] \in failed \/ on[dev[e]] # usbModule
                 /\ rpc'[e] = "close" => dev[e] # 0
      BY <1>2, <1>4, <2>1, <3>2
    <3>5. GivingUpInv'
      BY <1>1, <2>2, <3>1, <3>4 DEF GivingUpInv, Dead
    <3>6. H!DetachHasCause'
      BY <1>1, <1>3, <2>1, <2>2, <3>1 DEF H!DetachHasCause
    <3>7. QED
      BY <3>3, <3>5, <3>6 DEF BridgeInv
  <2>3. CASE dev' = [dev EXCEPT ![c] = 0] /\ H!Goto(c, "idle") /\ UNCHANGED <<usbAT, port>>
    <3>1. rpc' = [rpc EXCEPT ![c] = "idle"]
      BY <2>3 DEF H!Goto
    <3>2. BridgeType'
      BY <1>1, <1>2, <2>1, <2>3, <3>1 DEF BridgeType
    <3>3. ASSUME NEW e \in Caller
          PROVE  /\ rpc'[e] \in {"command", "read", "detach", "close"} => dev'[e] # 0
                 /\ rpc'[e] \in {"detach", "close"} => dev'[e] \in failed \/ on[dev'[e]] # usbModule
                 /\ rpc'[e] = "close" => dev'[e] # usbAT
      BY <1>2, <1>4, <2>3, <3>1
    <3>4. GivingUpInv'
      BY <1>1, <2>3, <3>3 DEF GivingUpInv, Dead
    <3>5. H!DetachHasCause'
      BY <1>1, <1>3, <2>1, <2>3 DEF H!DetachHasCause
    <3>6. QED
      BY <3>2, <3>4, <3>5 DEF BridgeInv
  <2>4. QED
    BY <1>5, <2>2, <2>3 DEF H!Detach, H!Expected
<1>6. CASE H!Close(c)
  <2>1. /\ rpc[c] = "close" /\ closed' = closed \cup {dev[c]}
        /\ dev' = [dev EXCEPT ![c] = 0] /\ rpc' = [rpc EXCEPT ![c] = "idle"]
        /\ UNCHANGED <<usbAT, port>>
    BY <1>6 DEF H!Close, H!Released, H!Goto
  <2>2. dev[c] \in 1 .. Len(on) /\ dev[c] # usbAT /\ (dev[c] \in failed \/ on[dev[c]] # usbModule)
    BY <1>2, <1>4, <2>1
  <2>3. BridgeType'
    <3>1. dev' \in [Caller -> 0 .. Len(on)]
      BY <1>2, <2>1
    <3>2. closed' \subseteq 1 .. Len(on)
      BY <1>2, <2>1, <2>2
    <3>3. DOMAIN rpc' = Caller
      BY <1>2, <2>1
    <3>4. QED
      BY <1>1, <1>2, <2>1, <3>1, <3>2, <3>3 DEF BridgeType
  <2>4. ASSUME NEW e \in Caller
        PROVE  /\ rpc'[e] \in {"command", "read", "detach", "close"} => dev'[e] # 0
               /\ rpc'[e] \in {"detach", "close"} => dev'[e] \in failed \/ on[dev'[e]] # usbModule
               /\ rpc'[e] = "close" => dev'[e] # usbAT
    BY <1>2, <1>4, <2>1
  <2>5. GivingUpInv'
    BY <1>1, <2>1, <2>4 DEF GivingUpInv, Dead
  <2>6. H!DetachHasCause'
    BY <1>1, <1>3, <2>1, <2>2 DEF H!DetachHasCause
  <2>7. QED
    BY <2>3, <2>5, <2>6 DEF BridgeInv
<1>7. QED
  BY <1>5, <1>6

(* The invariant of the bridge is inductive.                               *)
LEMMA BridgeStep ==
    ASSUME BridgeInv, [H!Next]_(H!vars)
    PROVE  BridgeInv'
<1>1. CASE UNCHANGED H!bridge
  BY <1>1 DEF H!bridge, BridgeInv, BridgeType, GivingUpInv, Dead, H!DetachHasCause
<1>2. CASE H!BridgeNext
  <2>1. CASE H!CoolDown
    BY <2>1 DEF H!CoolDown, BridgeInv, BridgeType, GivingUpInv, Dead, H!DetachHasCause
  <2>2. ASSUME NEW c \in Caller, H!Request(c)
        PROVE  BridgeInv'
    BY <2>2, RequestStep, OpenStep, GiveUpStep, Zenon DEF H!Request
  <2>3. QED
    BY <1>2, <2>1, <2>2, PlugStep DEF H!BridgeNext
<1>3. CASE H!NotesNext
  BY <1>1, <1>3 DEF H!NotesNext, H!Refused, H!CheckME, H!ReadBook, H!WriteBook,
    H!Probe, H!Console, H!SelectME
<1>4. CASE H!SMSNext
  BY <1>1, <1>4 DEF H!SMSNext, H!Send, H!Segment, H!LateDropped, H!Log
<1>5. QED
  BY <1>1, <1>2, <1>3, <1>4 DEF H!Next, H!vars

(* A handle of the bridge is given up only when its module is gone or a    *)
(* command on it failed, however slow the request that gives it up.        *)
THEOREM DetachesHaveCause == H!Spec => []DetachHasCause
<1>1. H!Init => BridgeInv
  <2>1. ASSUME H!Init
        PROVE  BridgeType /\ GivingUpInv /\ H!DetachHasCause
    <3>1. /\ usbModule = 0 /\ plugs = 0 /\ usbAT = 0 /\ on = <<>> /\ closed = {}
          /\ port = "absent" /\ rpc = [c \in Caller |-> "idle"] /\ dev = [c \in Caller |-> 0]
      BY <2>1 DEF H!Init
    <3>2. QED
      BY <3>1 DEF BridgeType, GivingUpInv, H!DetachHasCause
  <2>2. QED
    BY <2>1 DEF BridgeInv
<1>2. BridgeInv /\ [H!Next]_(H!vars) => BridgeInv'
  BY BridgeStep
<1>3. BridgeInv => DetachHasCause
  BY DEF BridgeInv, DetachHasCause
<1>4. QED
  BY <1>1, <1>2, <1>3, PTL DEF H!Spec

-----------------------------------------------------------------------------
(***************************************************************************)
(* Sending SMS.                                                            *)
(***************************************************************************)

(* Segments reported as taken were taken, or a late report was read as one *)
(* of them; nothing is told or recorded before the end; and what was told  *)
(* at the end is what came of it.                                          *)
SendInv ==
    /\ sending \in {"idle", "segment", "sent", "failed"} /\ seg \in Nat /\ gone \in Nat
    /\ lateReport \in BOOLEAN /\ misled \in BOOLEAN
    /\ sending # "idle" => reported = None /\ logged = None
    /\ sending = "segment" => gone = seg \/ misled
    /\ sending = "sent" => gone = Segments \/ misled

SMSInv == SendInv /\ H!SentAsRecorded

(* The invariant of sending is inductive.                                  *)
LEMMA SendStep ==
    ASSUME H!HostAssumption, SMSInv, [H!Next]_(H!vars)
    PROVE  SMSInv'
<1>t. /\ sending \in {"idle", "segment", "sent", "failed"} /\ seg \in Nat /\ gone \in Nat
      /\ lateReport \in BOOLEAN /\ misled \in BOOLEAN
      /\ None # "sent" /\ None # "failed" /\ None # "unsaved"
  BY DEF H!HostAssumption, SMSInv, SendInv
<1>i. /\ sending # "idle" => reported = None /\ logged = None
      /\ sending = "segment" => gone = seg \/ misled
      /\ sending = "sent" => gone = Segments \/ misled
      /\ "sent" \in {reported, logged} => gone = Segments \/ misled
      /\ reported # None /\ gone > 0 => logged # None \/ reported = "unsaved"
  BY DEF SMSInv, SendInv, H!SentAsRecorded
<1>1. CASE UNCHANGED H!sms
  BY <1>1 DEF H!sms, SMSInv, SendInv, H!SentAsRecorded
<1>2. CASE H!Send
  BY <1>2, <1>t DEF H!Send, SMSInv, SendInv, H!SentAsRecorded
<1>3. CASE H!Segment
  <2>1. sending = "segment" /\ reported' = None /\ logged' = None
    BY <1>3, <1>i DEF H!Segment
  <2>2. PICK answer \in {"ok", "unknown", "error"} :
          /\ \/ /\ answer # "error" /\ gone' = gone + 1
                /\ lateReport' = (lateReport \/ answer = "unknown") /\ UNCHANGED misled
             \/ answer # "ok" /\ UNCHANGED <<gone, lateReport, misled>>
             \/ /\ answer = "ok" /\ lateReport /\ lateReport' = FALSE /\ misled' = TRUE
                /\ gone' \in {gone, gone + 1}
          /\ IF answer \in {"ok"}
             THEN seg' = seg + 1 /\ sending' = IF seg' = Segments THEN "sent" ELSE "segment"
             ELSE UNCHANGED seg /\ sending' = "failed"
    BY <1>3 DEF H!Segment, H!Accepted
  <2>3. gone' \in Nat /\ lateReport' \in BOOLEAN /\ misled' \in BOOLEAN /\ seg' \in Nat
    <3>1. gone' \in Nat
      BY <1>t, <2>2
    <3>2. seg' \in Nat
      BY <1>t, <2>2
    <3>3. lateReport' \in BOOLEAN
      BY <1>t, <2>2
    <3>4. misled' \in BOOLEAN
      BY <1>t, <2>2
    <3>5. QED
      BY <3>1, <3>2, <3>3, <3>4
  <2>4. sending' \in {"segment", "sent", "failed"}
    BY <2>2
  <2>5. sending' # "failed" => gone' = seg' \/ misled'
    <3>1. CASE answer = "ok"
      <4>1. seg' = seg + 1 /\ ((gone' = gone + 1 /\ UNCHANGED misled) \/ misled')
        BY <2>2, <3>1
      <4>2. QED
        BY <1>t, <1>i, <2>1, <4>1
    <3>2. CASE answer # "ok"
      BY <2>2, <3>2
    <3>3. QED
      BY <3>1, <3>2
  <2>6. sending' = "sent" => seg' = Segments
    BY <2>2
  <2>7. QED
    BY <1>t, <2>1, <2>3, <2>4, <2>5, <2>6 DEF SMSInv, SendInv, H!SentAsRecorded
<1>4. CASE H!LateDropped
  BY <1>4, <1>t, <1>i DEF H!LateDropped, SMSInv, SendInv, H!SentAsRecorded
<1>5. CASE H!Log
  <2>1. /\ sending \in {"sent", "failed"} /\ sending' = "idle"
        /\ UNCHANGED <<seg, gone, lateReport, misled>>
        /\ \/ logged' = sending /\ reported' = sending
           \/ UNCHANGED logged /\ reported' = "unsaved"
    BY <1>5 DEF H!Log
  <2>2. "sent" \in {reported', logged'} => gone' = Segments \/ misled'
    BY <1>t, <1>i, <2>1
  <2>3. reported' # None /\ (logged' # None \/ reported' = "unsaved")
    BY <1>t, <2>1
  <2>4. QED
    BY <1>t, <2>1, <2>2, <2>3 DEF SMSInv, SendInv, H!SentAsRecorded
<1>6. CASE H!BridgeNext \/ H!NotesNext
  <2>1. UNCHANGED H!sms
    BY <1>6 DEF H!BridgeNext, H!Plug, H!Unplug, H!CoolDown, H!Request, H!Start, H!Absent, H!Open, H!OpenRefused,
        H!Use, H!Write, H!Read, H!TimedOut, H!NoDevice, H!Detach, H!Close,
        H!NotesNext, H!Refused, H!CheckME, H!ReadBook, H!WriteBook, H!Probe, H!Console, H!SelectME
  <2>2. QED
    BY <1>1, <2>1
<1>7. QED
  BY <1>1, <1>2, <1>3, <1>4, <1>5, <1>6 DEF H!Next, H!vars, H!SMSNext

(* An SMS reported, or recorded, as sent has gone out in full, unless a    *)
(* late report was taken for one of it; what part has gone out is recorded *)
(* or the request told not to repeat it.                                   *)
THEOREM SendingIsRecorded == H!Spec => []SentAsRecorded
<1>1. H!HostAssumption
  BY HostConfiguration
<1>2. H!Init => SMSInv
  <2>1. ASSUME H!Init
        PROVE  SendInv /\ H!SentAsRecorded
    <3>1. /\ sending = "idle" /\ seg = 0 /\ gone = 0 /\ lateReport = FALSE /\ misled = FALSE
          /\ reported = None /\ logged = None
      BY <2>1 DEF H!Init
    <3>2. None # "sent"
      BY <1>1 DEF H!HostAssumption
    <3>3. QED
      BY <3>1, <3>2 DEF SendInv, H!SentAsRecorded
  <2>2. QED
    BY <2>1 DEF SMSInv
<1>3. SMSInv /\ [H!Next]_(H!vars) => SMSInv'
  BY <1>1, SendStep
<1>4. SMSInv => SentAsRecorded
  BY DEF SMSInv, SentAsRecorded
<1>5. QED
  BY <1>2, <1>3, <1>4, PTL DEF H!Spec

-----------------------------------------------------------------------------
(***************************************************************************)
(* Audio sessions.                                                         *)
(***************************************************************************)
ScriptState ==
    {"none", "launched", "drivers", "calibrated", "ready", "stopping", "restoring",
     "closed", "reboot", "gone"}

(* A script that has noted what to restore and has yet to restore it.      *)
Begun == {"drivers", "calibrated", "ready", "stopping", "restoring"}

SessionType ==
    /\ handler \in {"idle", "wait", "seen", "stop"}
    /\ made \in 0 .. MaxScripts /\ audioSession \in 0 .. made
    /\ lastLease \in 0 .. HostLease /\ unanswered \in BOOLEAN /\ overlapped \in BOOLEAN
    /\ script \in [A!Script -> ScriptState] /\ lease \in [A!Script -> 0 .. HostLease]
    /\ DOMAIN original = A!Script

(* Scripts are launched in turn; only one that was ready is a session.     *)
LaunchInv ==
    /\ \A i \in A!Script : i > made => script[i] = "none"
    /\ handler \in {"wait", "seen"} => made > 0
    /\ audioSession # 0 => script[audioSession] \notin {"none", "launched", "drivers", "calibrated"}

(* The hub's age of a lease is at most the script's, which has not passed  *)
(* its own limit while it runs.                                            *)
LeaseInv ==
    audioSession # 0 /\ ~unanswered /\ script[audioSession] = "ready" =>
        lastLease <= lease[audioSession] /\ lease[audioSession] <= DeviceLease

(* One script at a time changes the module's USB functions, and notes them *)
(* before the change.                                                      *)
RestoreInv ==
    ~overlapped =>
        /\ \A i, k \in A!Script : script[i] \in Begun /\ script[k] \in Begun => i = k
        /\ (\A i \in A!Script : script[i] # "reboot") =>
             /\ \A i \in A!Script : script[i] \in Begun => original[i] = "plain"
             /\ \/ functions = "plain"
                \/ \E i \in A!Script : script[i] \in {"ready", "stopping", "restoring"}

SessionInv == SessionType /\ LaunchInv /\ LeaseInv /\ RestoreInv

(* A script that goes on from one state to the next, as all but its launch *)
(* and its beginning do.                                                   *)
LEMMA ScriptGoesOn ==
    ASSUME SessionInv, NEW i \in A!Script, NEW s \in ScriptState,
           script[i] \in Begun, script' = [script EXCEPT ![i] = s],
           s \in Begun \cup {"closed", "reboot"},
           s = "calibrated" => script[i] = "drivers",
           s = "ready" => script[i] = "calibrated",
           script[i] \in {"ready", "stopping", "restoring"} =>
               s \in {"stopping", "restoring", "closed", "reboot"},
           s = "drivers" => FALSE,
           \/ UNCHANGED functions /\ (s \in Begun \cup {"reboot"})
           \/ s = "ready"
           \/ script[i] = "restoring" /\ functions' = original[i],
           s = "closed" => functions' = original[i],
           UNCHANGED <<handler, audioSession, lastLease, unanswered, made, original, lease, overlapped>>
    PROVE  SessionInv'
<1>t. /\ script \in [A!Script -> ScriptState] /\ script' \in [A!Script -> ScriptState]
      /\ \A k \in A!Script : script'[k] = IF k = i THEN s ELSE script[k]
      /\ audioSession \in 0 .. made /\ made \in Nat /\ made \in 0 .. MaxScripts
  <2>1. script \in [A!Script -> ScriptState] /\ audioSession \in 0 .. made /\ made \in 0 .. MaxScripts
    BY DEF SessionInv, SessionType
  <2>2. made \in Nat
    BY <2>1
  <2>3. QED
    BY <2>1, <2>2
<1>1. SessionType'
  BY <1>t DEF SessionInv, SessionType
<1>2. LaunchInv'
  <2>1. \A k \in A!Script : k > made => script'[k] = "none"
    <3>1. \A k \in A!Script : k > made => script[k] = "none" /\ k # i
      BY DEF SessionInv, LaunchInv, Begun
    <3>2. QED
      BY <1>t, <3>1
  <2>2. audioSession # 0 => audioSession \in A!Script
    BY <1>t, HostConfiguration DEF A!Script, A!AudioAssumption
  <2>3. audioSession # 0 => script'[audioSession] \notin {"none", "launched", "drivers", "calibrated"}
    <3>1. audioSession # 0 => script[audioSession] \notin {"none", "launched", "drivers", "calibrated"}
      BY DEF SessionInv, LaunchInv
    <3>2. audioSession # 0 /\ s = "calibrated" => audioSession # i
      BY <3>1
    <3>3. QED
      BY <1>t, <2>2, <3>1, <3>2 DEF Begun
  <2>4. QED
    BY <2>1, <2>3 DEF SessionInv, LaunchInv
<1>3. LeaseInv'
  <2>1. audioSession # 0 => audioSession \in A!Script
    BY <1>t, HostConfiguration DEF A!Script, A!AudioAssumption
  <2>2. audioSession # 0 /\ script'[audioSession] = "ready" => script[audioSession] = "ready"
    <3>1. audioSession # 0 => script[audioSession] # "calibrated"
      BY DEF SessionInv, LaunchInv
    <3>2. QED
      BY <1>t, <2>1, <3>1
  <2>3. QED
    BY <2>2 DEF SessionInv, LeaseInv
<1>4. RestoreInv'
  <2>1. SUFFICES ASSUME ~overlapped
                 PROVE  /\ \A j, k \in A!Script : script'[j] \in Begun /\ script'[k] \in Begun => j = k
                        /\ (\A k \in A!Script : script'[k] # "reboot") =>
                             /\ \A k \in A!Script : script'[k] \in Begun => original[k] = "plain"
                             /\ \/ functions' = "plain"
                                \/ \E k \in A!Script : script'[k] \in {"ready", "stopping", "restoring"}
    BY DEF RestoreInv
  <2>2. \A k \in A!Script : script'[k] \in Begun => script[k] \in Begun
    BY <1>t
  <2>3. \A k \in A!Script : script[k] \in Begun => k = i
    BY <2>1 DEF SessionInv, RestoreInv
  <2>4. ASSUME \A k \in A!Script : script'[k] # "reboot"
        PROVE  /\ original[i] = "plain"
               /\ \/ functions = "plain"
                  \/ script[i] \in {"ready", "stopping", "restoring"}
    <3>1. \A k \in A!Script : script[k] # "reboot"
      BY <1>t, <2>4 DEF Begun
    <3>2. original[i] = "plain"
      BY <2>1, <3>1 DEF SessionInv, RestoreInv
    <3>3. \/ functions = "plain"
          \/ \E k \in A!Script : script[k] \in {"ready", "stopping", "restoring"}
      BY <2>1, <3>1 DEF SessionInv, RestoreInv
    <3>4. QED
      BY <2>3, <3>2, <3>3 DEF Begun
  <2>5. ASSUME \A k \in A!Script : script'[k] # "reboot"
        PROVE  \/ functions' = "plain"
               \/ script'[i] \in {"ready", "stopping", "restoring"}
    <3>1. script'[i] = s /\ s # "reboot"
      BY <1>t, <2>5
    <3>2. CASE s = "ready"
      BY <3>1, <3>2
    <3>3. CASE functions' = original[i]
      BY <2>4, <2>5, <3>3
    <3>4. CASE UNCHANGED functions /\ s \in Begun
      <4>1. CASE functions = "plain"
        BY <3>4, <4>1
      <4>2. CASE script[i] \in {"ready", "stopping", "restoring"}
        BY <3>1, <3>4, <4>2 DEF Begun
      <4>3. QED
        BY <2>4, <2>5, <4>1, <4>2
    <3>5. QED
      BY <3>1, <3>2, <3>3, <3>4
  <2>6. QED
    BY <2>2, <2>3, <2>4, <2>5
<1>5. QED
  BY <1>1, <1>2, <1>3, <1>4 DEF SessionInv

(* The steps of a script after its beginning.                              *)
LEMMA ScriptStep ==
    ASSUME SessionInv, NEW i \in A!Script,
           \/ A!Calibrate(i) \/ A!Enumerate(i) \/ A!ScriptFails(i) \/ A!LoopEnds(i)
           \/ A!StopChildren(i) \/ A!Restore(i)
    PROVE  SessionInv'
<1>1. UNCHANGED <<handler, audioSession, lastLease, unanswered, made, original, lease, overlapped>>
  BY DEF A!Calibrate, A!Enumerate, A!ScriptFails, A!LoopEnds, A!StopChildren, A!Restore
<1>2. CASE A!Calibrate(i)
  <2>1. PICK s \in {"restoring", "calibrated"} : script' = [script EXCEPT ![i] = s]
    BY <1>2 DEF A!Calibrate, A!Become
  <2>2. script[i] = "drivers" /\ UNCHANGED functions
    BY <1>2 DEF A!Calibrate
  <2>3. QED
    BY <1>1, <2>1, <2>2, ScriptGoesOn DEF Begun, ScriptState
<1>3. CASE A!Enumerate(i)
  BY <1>1, <1>3, ScriptGoesOn DEF A!Enumerate, A!Become, Begun, ScriptState
<1>4. CASE A!ScriptFails(i)
  <2>1. UNCHANGED functions
    BY <1>4 DEF A!ScriptFails
  <2>2. CASE script[i] = "drivers" /\ script' = [script EXCEPT ![i] = "restoring"]
    BY <1>1, <2>1, <2>2, ScriptGoesOn DEF Begun, ScriptState
  <2>3. CASE script[i] \in {"calibrated", "ready"} /\ script' = [script EXCEPT ![i] = "stopping"]
    BY <1>1, <2>1, <2>3, ScriptGoesOn DEF Begun, ScriptState
  <2>4. QED
    BY <1>4, <2>2, <2>3 DEF A!ScriptFails, A!Become
<1>5. CASE A!LoopEnds(i)
  BY <1>1, <1>5, ScriptGoesOn DEF A!LoopEnds, A!Become, Begun, ScriptState
<1>6. CASE A!StopChildren(i)
  <2>1. PICK s \in {"restoring", "reboot"} : script' = [script EXCEPT ![i] = s]
    BY <1>6 DEF A!StopChildren, A!Become
  <2>2. script[i] = "stopping" /\ UNCHANGED functions
    BY <1>6 DEF A!StopChildren
  <2>3. QED
    BY <1>1, <2>1, <2>2, ScriptGoesOn DEF Begun, ScriptState
<1>7. CASE A!Restore(i)
  BY <1>1, <1>7, ScriptGoesOn DEF A!Restore, A!Restored, A!Become, Begun, ScriptState
<1>8. QED
  BY <1>2, <1>3, <1>4, <1>5, <1>6, <1>7

(* A script begins: it notes the functions that another script may have    *)
(* changed only if that one is not over.                                   *)
LEMMA BeginStep ==
    ASSUME SessionInv, NEW i \in A!Script, A!Begin(i)
    PROVE  SessionInv'
<1>1. /\ script[i] = "launched" /\ script' = [script EXCEPT ![i] = "drivers"]
      /\ original' = [original EXCEPT ![i] = functions]
      /\ overlapped' = (overlapped \/ \E k \in A!Script \ {i} : script[k] \notin A!Ended)
      /\ UNCHANGED <<handler, audioSession, lastLease, unanswered, made, lease, functions>>
  BY DEF A!Begin, A!Become
<1>t. /\ script \in [A!Script -> ScriptState] /\ script' \in [A!Script -> ScriptState]
      /\ \A k \in A!Script : script'[k] = IF k = i THEN "drivers" ELSE script[k]
      /\ audioSession \in 0 .. made /\ made \in Nat /\ made \in 0 .. MaxScripts
      /\ DOMAIN original = A!Script /\ overlapped \in BOOLEAN
  <2>1. /\ script \in [A!Script -> ScriptState] /\ audioSession \in 0 .. made /\ made \in 0 .. MaxScripts
        /\ DOMAIN original = A!Script /\ overlapped \in BOOLEAN
    BY DEF SessionInv, SessionType
  <2>2. made \in Nat
    BY <2>1
  <2>3. script' \in [A!Script -> ScriptState]
    BY <1>1, <2>1 DEF ScriptState
  <2>4. QED
    BY <1>1, <2>1, <2>2, <2>3
<1>2. SessionType'
  <2>1. DOMAIN original' = A!Script /\ overlapped' \in BOOLEAN
    BY <1>1, <1>t
  <2>2. QED
    BY <1>1, <1>t, <2>1 DEF SessionInv, SessionType
<1>3. audioSession # 0 => audioSession \in A!Script /\ audioSession # i
  <2>1. audioSession # 0 => script[audioSession] # "launched"
    BY DEF SessionInv, LaunchInv
  <2>2. QED
    BY <1>1, <1>t, <2>1, HostConfiguration DEF A!Script, A!AudioAssumption
<1>4. LaunchInv'
  <2>1. \A k \in A!Script : k > made => script'[k] = "none"
    BY <1>1, <1>t DEF SessionInv, LaunchInv
  <2>2. audioSession # 0 => script'[audioSession] \notin {"none", "launched", "drivers", "calibrated"}
    BY <1>t, <1>3 DEF SessionInv, LaunchInv
  <2>3. QED
    BY <1>1, <2>1, <2>2 DEF SessionInv, LaunchInv
<1>5. LeaseInv'
  BY <1>1, <1>t, <1>3 DEF SessionInv, LeaseInv
<1>6. RestoreInv'
  <2>1. CASE overlapped'
    BY <2>1 DEF RestoreInv
  <2>2. CASE ~overlapped'
    <3>1. ~overlapped /\ \A k \in A!Script : k # i => script[k] \in A!Ended
      BY <1>1, <2>2
    <3>2. \A k \in A!Script : script'[k] \in Begun => k = i
      BY <1>t, <3>1 DEF A!Ended, Begun
    <3>3. (\A k \in A!Script : script'[k] # "reboot") => functions = "plain"
      <4>1. (\A k \in A!Script : script'[k] # "reboot") => \A k \in A!Script : script[k] # "reboot"
        BY <1>1, <1>t
      <4>2. \A k \in A!Script : script[k] \notin {"ready", "stopping", "restoring"}
        BY <1>1, <3>1 DEF A!Ended
      <4>3. QED
        BY <3>1, <4>1, <4>2 DEF SessionInv, RestoreInv
    <3>4. original'[i] = functions
      BY <1>1, <1>t
    <3>5. QED
      BY <1>1, <3>2, <3>3, <3>4 DEF RestoreInv
  <2>3. QED
    BY <2>1, <2>2
<1>7. QED
  BY <1>2, <1>4, <1>5, <1>6 DEF SessionInv

(* A step that changes no script.                                          *)
LEMMA ScriptsStay ==
    ASSUME SessionInv, SessionType', LeaseInv',
           UNCHANGED <<made, script, original, functions, overlapped>>,
           handler' \in {"wait", "seen"} => handler \in {"wait", "seen"},
           \/ audioSession' \in {0, audioSession}
           \/ audioSession' = made /\ script[made] \in {"ready", "stopping"}
    PROVE  SessionInv'
<1>1. LaunchInv'
  BY DEF SessionInv, LaunchInv
<1>2. RestoreInv'
  BY DEF SessionInv, RestoreInv
<1>3. QED
  BY <1>1, <1>2 DEF SessionInv

(* Time passes for the leases of the hub and of the scripts alike.         *)
LEMMA TickStep ==
    ASSUME SessionInv, A!Tick
    PROVE  SessionInv'
<1> DEFINE Older(a) == IF a < HostLease THEN a + 1 ELSE a
<1>1. /\ \A i \in A!Script : script[i] = "ready" => lease[i] < DeviceLease
      /\ lastLease' = IF audioSession = 0 THEN 0 ELSE Older(lastLease)
      /\ lease' = [i \in A!Script |-> IF script[i] \in A!Ended THEN 0 ELSE Older(lease[i])]
      /\ UNCHANGED <<handler, audioSession, unanswered, made, script, original, functions, overlapped>>
  <2>1. \A i \in A!Script : script[i] = "ready" => lease[i] < DeviceLease
    <3>1. lease \in [A!Script -> 0 .. HostLease]
      BY DEF SessionInv, SessionType
    <3>2. \A i \in A!Script : lease[i] \in Nat
      BY <3>1, HostConfiguration DEF A!AudioAssumption
    <3>3. \A i \in A!Script : script[i] = "ready" => ~(lease[i] >= DeviceLease)
      BY DEF A!Tick, A!Lapsed
    <3>4. QED
      BY <3>2, <3>3, HostConfiguration DEF A!AudioAssumption
  <2>2. QED
    BY <2>1 DEF A!Tick
<1>n. HostLease \in Nat /\ DeviceLease \in Nat /\ DeviceLease < HostLease /\ MaxScripts \in Nat
  BY HostConfiguration DEF A!AudioAssumption
<1>2. \A a \in 0 .. HostLease : Older(a) \in 0 .. HostLease
  BY <1>n
<1>t. lease \in [A!Script -> 0 .. HostLease] /\ lastLease \in 0 .. HostLease /\ audioSession \in 0 .. made
      /\ made \in 0 .. MaxScripts
  BY DEF SessionInv, SessionType
<1>3. SessionType'
  <2>1. lease' \in [A!Script -> 0 .. HostLease]
    <3>1. \A i \in A!Script : lease[i] \in 0 .. HostLease
      BY <1>t
    <3>2. 0 \in 0 .. HostLease
      BY <1>n
    <3>3. \A i \in A!Script : (IF script[i] \in A!Ended THEN 0 ELSE Older(lease[i])) \in 0 .. HostLease
      BY <1>2, <3>1, <3>2
    <3>4. QED
      BY <1>1, <3>3
  <2>2. lastLease' \in 0 .. HostLease
    BY <1>1, <1>2, <1>t, <1>n
  <2>3. QED
    BY <1>1, <2>1, <2>2 DEF SessionInv, SessionType
<1>4. LeaseInv'
  <2>1. SUFFICES ASSUME audioSession # 0, ~unanswered, script[audioSession] = "ready"
                 PROVE  lastLease' <= lease'[audioSession] /\ lease'[audioSession] <= DeviceLease
    BY <1>1 DEF LeaseInv
  <2>2. audioSession \in A!Script
    BY <1>t, <1>n, <2>1 DEF A!Script
  <2>3. lastLease <= lease[audioSession] /\ lease[audioSession] < DeviceLease
    BY <1>1, <2>1, <2>2 DEF SessionInv, LeaseInv
  <2>4. lease'[audioSession] = Older(lease[audioSession]) /\ lastLease' = Older(lastLease)
    BY <1>1, <2>1, <2>2 DEF A!Ended
  <2>5. lease[audioSession] \in Nat /\ lastLease \in Nat
    BY <1>t, <1>n, <2>2
  <2>6. QED
    BY <1>n, <2>3, <2>4, <2>5
<1>5. QED
  BY <1>1, <1>3, <1>4, ScriptsStay

(* What the handlers do.                                                   *)
LEMMA HandlerStep ==
    ASSUME SessionInv,
           \/ A!Prepare \/ A!ReadyRead \/ A!Prepared \/ A!NotPrepared \/ A!Lease
           \/ A!Stop \/ A!Stopped \/ A!CallAction
    PROVE  SessionInv'
<1>n. HostLease \in Nat /\ DeviceLease \in Nat /\ DeviceLease < HostLease /\ MaxScripts \in Nat
      /\ 0 \in 0 .. HostLease
  BY HostConfiguration DEF A!AudioAssumption
<1>t. /\ handler \in {"idle", "wait", "seen", "stop"}
      /\ made \in 0 .. MaxScripts /\ audioSession \in 0 .. made /\ made \in Nat /\ audioSession \in Nat
      /\ lastLease \in 0 .. HostLease /\ unanswered \in BOOLEAN /\ overlapped \in BOOLEAN
      /\ script \in [A!Script -> ScriptState] /\ lease \in [A!Script -> 0 .. HostLease]
      /\ DOMAIN original = A!Script
  <2>1. /\ handler \in {"idle", "wait", "seen", "stop"}
        /\ made \in 0 .. MaxScripts /\ audioSession \in 0 .. made
        /\ lastLease \in 0 .. HostLease /\ unanswered \in BOOLEAN /\ overlapped \in BOOLEAN
        /\ script \in [A!Script -> ScriptState] /\ lease \in [A!Script -> 0 .. HostLease]
        /\ DOMAIN original = A!Script
    BY DEF SessionInv, SessionType
  <2>2. made \in Nat /\ audioSession \in Nat
    BY <2>1
  <2>3. QED
    BY <2>1, <2>2
<1>s. audioSession # 0 => audioSession \in A!Script
  BY <1>n, <1>t DEF A!Script
<1>1. CASE A!Prepare
  <2>1. /\ made' = made + 1 /\ handler' = "wait" /\ made < MaxScripts
        /\ script' = [script EXCEPT ![made + 1] = "launched"]
        /\ lease' = [lease EXCEPT ![made + 1] = 0]
        /\ UNCHANGED <<audioSession, lastLease, unanswered, original, functions, overlapped>>
    BY <1>1 DEF A!Prepare, A!Become
  <2>2. made + 1 \in A!Script /\ made + 1 \in 0 .. MaxScripts /\ made + 1 > made /\ audioSession # made + 1
    BY <1>n, <1>t, <2>1 DEF A!Script
  <2>3. script[made + 1] = "none"
    BY <2>2 DEF SessionInv, LaunchInv
  <2>4. \A k \in A!Script : script'[k] = IF k = made + 1 THEN "launched" ELSE script[k]
    BY <1>t, <2>1
  <2>5. SessionType'
    <3>1. script' \in [A!Script -> ScriptState]
      BY <1>t, <2>1 DEF ScriptState
    <3>2. lease' \in [A!Script -> 0 .. HostLease]
      BY <1>t, <1>n, <2>1
    <3>3. audioSession \in 0 .. made + 1
      BY <1>t
    <3>4. QED
      BY <1>t, <2>1, <2>2, <3>1, <3>2, <3>3 DEF SessionType
  <2>6. LaunchInv'
    <3>1. \A k \in A!Script : k > made + 1 => script'[k] = "none"
      <4>1. \A k \in A!Script : k > made + 1 => k > made /\ k # made + 1
        BY <1>t DEF A!Script
      <4>2. QED
        BY <2>4, <4>1 DEF SessionInv, LaunchInv
    <3>2. made + 1 > 0
      BY <1>t
    <3>3. audioSession # 0 => script'[audioSession] = script[audioSession]
      BY <1>s, <2>2, <2>4
    <3>4. QED
      BY <2>1, <3>1, <3>2, <3>3 DEF SessionInv, LaunchInv
  <2>7. LeaseInv'
    <3>1. audioSession # 0 => script'[audioSession] = script[audioSession] /\ lease'[audioSession] = lease[audioSession]
      BY <1>s, <1>t, <2>1, <2>2
    <3>2. QED
      BY <2>1, <3>1 DEF SessionInv, LeaseInv
  <2>8. RestoreInv'
    <3>1. \A k \in A!Script : (script'[k] \in Begun => script[k] \in Begun /\ k # made + 1)
      BY <2>4 DEF Begun
    <3>2. (\A k \in A!Script : script'[k] # "reboot") => \A k \in A!Script : script[k] # "reboot"
      BY <2>3, <2>4
    <3>3. \A k \in A!Script : script[k] \in {"ready", "stopping", "restoring"} => script'[k] = script[k]
      BY <2>3, <2>4
    <3>4. QED
      BY <2>1, <3>1, <3>2, <3>3 DEF SessionInv, RestoreInv
  <2>9. QED
    BY <2>5, <2>6, <2>7, <2>8 DEF SessionInv
<1>2. CASE A!ReadyRead
  <2>1. /\ handler = "wait" /\ handler' = "seen"
        /\ UNCHANGED <<audioSession, lastLease, unanswered, made, script, original, lease, functions, overlapped>>
    BY <1>2 DEF A!ReadyRead
  <2>2. SessionType' /\ LeaseInv'
    BY <1>t, <2>1 DEF SessionType, SessionInv, LeaseInv
  <2>3. QED
    BY <2>1, <2>2, ScriptsStay
<1>3. CASE A!Prepared
  <2>1. /\ handler = "seen" /\ script[made] \in {"ready", "stopping"}
        /\ handler' = "idle" /\ audioSession' = made /\ lastLease' = 0 /\ unanswered' = FALSE
        /\ lease' = [lease EXCEPT ![made] = 0]
        /\ UNCHANGED <<made, script, original, functions, overlapped>>
    BY <1>3 DEF A!Prepared
  <2>2. made > 0 /\ made \in A!Script
    <3>1. made > 0
      BY <2>1 DEF SessionInv, LaunchInv
    <3>2. QED
      BY <1>t, <1>n, <3>1 DEF A!Script
  <2>3. SessionType'
    <3>1. lease' \in [A!Script -> 0 .. HostLease]
      BY <1>t, <1>n, <2>1
    <3>2. audioSession' \in 0 .. made
      BY <1>t, <2>1
    <3>3. QED
      BY <1>t, <1>n, <2>1, <3>1, <3>2 DEF SessionType
  <2>4. LeaseInv'
    <3>1. lease'[audioSession'] = 0
      BY <1>t, <2>1, <2>2
    <3>2. QED
      BY <1>n, <2>1, <3>1 DEF LeaseInv
  <2>5. QED
    BY <2>1, <2>3, <2>4, ScriptsStay
<1>4. CASE A!NotPrepared
  <2>1. /\ handler' = "idle"
        /\ UNCHANGED <<audioSession, lastLease, unanswered, made, script, original, lease, functions, overlapped>>
    BY <1>4 DEF A!NotPrepared
  <2>2. SessionType' /\ LeaseInv'
    BY <1>t, <2>1 DEF SessionType, SessionInv, LeaseInv
  <2>3. QED
    BY <2>1, <2>2, ScriptsStay
<1>5. CASE A!Lease
  <2>1. /\ audioSession # 0 /\ lease' = [lease EXCEPT ![audioSession] = 0]
        /\ \/ lastLease' = 0 /\ unanswered' = FALSE
           \/ unanswered' = TRUE /\ UNCHANGED lastLease
        /\ UNCHANGED <<handler, audioSession, made, script, original, functions, overlapped>>
    BY <1>5 DEF A!Lease
  <2>2. SessionType'
    <3>1. lease' \in [A!Script -> 0 .. HostLease]
      BY <1>t, <1>n, <2>1
    <3>2. lastLease' \in 0 .. HostLease /\ unanswered' \in BOOLEAN
      BY <1>t, <1>n, <2>1
    <3>3. QED
      BY <1>t, <2>1, <3>1, <3>2 DEF SessionType
  <2>3. LeaseInv'
    <3>1. lease'[audioSession] = 0
      BY <1>t, <1>s, <2>1
    <3>2. QED
      BY <1>n, <2>1, <3>1 DEF LeaseInv
  <2>4. QED
    BY <2>1, <2>2, <2>3, ScriptsStay
<1>6. CASE A!Stop \/ A!CallAction
  <2>1. /\ handler' \in {"stop", "idle"}
        /\ UNCHANGED <<audioSession, lastLease, unanswered, made, script, original, lease, functions, overlapped>>
    BY <1>6 DEF A!Stop, A!CallAction
  <2>2. SessionType' /\ LeaseInv'
    BY <1>t, <2>1 DEF SessionType, SessionInv, LeaseInv
  <2>3. QED
    BY <2>1, <2>2, ScriptsStay
<1>7. CASE A!Stopped
  <2>1. /\ handler' = "idle"
        /\ \/ audioSession' = 0 /\ lastLease' = 0 /\ unanswered' = FALSE
           \/ UNCHANGED <<audioSession, lastLease, unanswered>>
        /\ UNCHANGED <<made, script, original, lease, functions, overlapped>>
    BY <1>7 DEF A!Stopped
  <2>2. SessionType'
    <3>1. audioSession' \in 0 .. made
      BY <1>t, <2>1
    <3>2. lastLease' \in 0 .. HostLease /\ unanswered' \in BOOLEAN
      BY <1>t, <1>n, <2>1
    <3>3. QED
      BY <1>t, <2>1, <3>1, <3>2 DEF SessionType
  <2>3. LeaseInv'
    BY <2>1 DEF SessionInv, LeaseInv
  <2>4. QED
    BY <2>1, <2>2, <2>3, ScriptsStay
<1>8. QED
  BY <1>1, <1>2, <1>3, <1>4, <1>5, <1>6, <1>7

(* A restart of the module ends every script and what it did.              *)
LEMMA ModuleRestartStep ==
    ASSUME SessionInv, A!Restart
    PROVE  SessionInv'
<1>1. /\ script' = [i \in A!Script |-> IF script[i] = "none" THEN "none" ELSE "gone"]
      /\ functions' = "plain"
      /\ UNCHANGED <<handler, audioSession, lastLease, unanswered, made, original, lease, overlapped>>
  BY DEF A!Restart
<1>2. SessionType'
  <2>1. script' \in [A!Script -> ScriptState]
    BY <1>1 DEF ScriptState
  <2>2. QED
    BY <1>1, <2>1 DEF SessionInv, SessionType
<1>3. \A i \in A!Script : script'[i] \notin Begun /\ (script'[i] = "none" <=> script[i] = "none")
  BY <1>1 DEF Begun
<1>4. audioSession # 0 => audioSession \in A!Script
  <2>1. audioSession \in 0 .. made /\ made \in 0 .. MaxScripts
    BY DEF SessionInv, SessionType
  <2>2. QED
    BY <2>1, HostConfiguration DEF A!Script, A!AudioAssumption
<1>5. audioSession # 0 => script'[audioSession] = "gone"
  BY <1>1, <1>4 DEF SessionInv, LaunchInv
<1>6. LaunchInv'
  BY <1>1, <1>3, <1>5 DEF SessionInv, LaunchInv
<1>7. LeaseInv'
  BY <1>1, <1>5 DEF LeaseInv
<1>8. RestoreInv'
  BY <1>1, <1>3 DEF RestoreInv
<1>9. QED
  BY <1>2, <1>6, <1>7, <1>8 DEF SessionInv

(* The invariant of the sessions is inductive.                             *)
LEMMA SessionStep ==
    ASSUME SessionInv, [A!Next]_(A!vars)
    PROVE  SessionInv'
<1>1. CASE UNCHANGED <<handler, audioSession, lastLease, unanswered, made, script, original, lease,
                       functions, overlapped>>
  BY <1>1 DEF SessionInv, SessionType, LaunchInv, LeaseInv, RestoreInv
<1>2. CASE A!SessionNext
  <2>1. CASE A!ScriptNext
    BY <2>1, BeginStep, ScriptStep, Zenon DEF A!ScriptNext
  <2>2. QED
    BY <1>2, <2>1, ModuleRestartStep, TickStep, HandlerStep DEF A!SessionNext
<1>3. CASE A!InitializationNext
  BY <1>1, <1>3 DEF A!InitializationNext, A!Identify, A!ReadConfig, A!BackUp, A!Authorize, A!Reread,
      A!WriteConfig, A!GuardAgain, A!RestartModule, A!Await, A!Meddle, A!session_
<1>4. CASE UNCHANGED A!vars
  BY <1>1, <1>4 DEF A!vars, A!session_
<1>5. QED
  BY <1>2, <1>3, <1>4 DEF A!Next

(* What the hub takes for over is over on the module, and the module's USB *)
(* functions are what they were: for any leases, the script's shorter than *)
(* the hub's, and any number of sessions.                                  *)
THEOREM SessionsAreOver == A!Spec => []SessionsEnd
<1>1. A!Init => SessionInv
  <2>1. ASSUME A!Init
        PROVE  SessionType /\ LaunchInv /\ LeaseInv /\ RestoreInv
    <3>1. /\ handler = "idle" /\ audioSession = 0 /\ lastLease = 0 /\ unanswered = FALSE /\ made = 0
          /\ script = [i \in A!Script |-> "none"] /\ original = [i \in A!Script |-> None]
          /\ lease = [i \in A!Script |-> 0] /\ functions = "plain" /\ overlapped = FALSE
      BY <2>1 DEF A!Init
    <3>2. MaxScripts \in Nat /\ HostLease \in Nat
      BY HostConfiguration DEF A!AudioAssumption
    <3>3. 0 \in 0 .. HostLease /\ 0 \in 0 .. MaxScripts /\ 0 \in 0 .. 0
      BY <3>2
    <3>4. SessionType
      BY <3>1, <3>3 DEF SessionType, ScriptState
    <3>5. LaunchInv /\ LeaseInv /\ RestoreInv
      BY <3>1 DEF LaunchInv, LeaseInv, RestoreInv, Begun
    <3>6. QED
      BY <3>4, <3>5
  <2>2. QED
    BY <2>1 DEF SessionInv
<1>2. SessionInv /\ [A!Next]_(A!vars) => SessionInv'
  BY SessionStep
<1>3. SessionInv => SessionsEnd
  <2>1. ASSUME SessionInv
        PROVE  A!ExpiredHasStopped
    <3>1. SUFFICES ASSUME audioSession # 0, A!Expired, ~unanswered, script[audioSession] = "ready"
                   PROVE  FALSE
      BY DEF A!ExpiredHasStopped
    <3>2. /\ lastLease <= lease[audioSession] /\ lease[audioSession] <= DeviceLease
          /\ audioSession \in 0 .. made /\ made \in 0 .. MaxScripts
          /\ lease \in [A!Script -> 0 .. HostLease] /\ lastLease \in 0 .. HostLease
      BY <2>1, <3>1 DEF SessionInv, LeaseInv, SessionType
    <3>3. DeviceLease \in Nat /\ HostLease \in Nat /\ DeviceLease < HostLease /\ MaxScripts \in Nat
      BY HostConfiguration DEF A!AudioAssumption
    <3>4. audioSession \in A!Script
      BY <3>1, <3>2, <3>3 DEF A!Script
    <3>5. lease[audioSession] \in Nat /\ lastLease \in Nat
      BY <3>2, <3>3, <3>4
    <3>6. lastLease >= HostLease
      BY <3>1 DEF A!Expired
    <3>7. QED
      BY <3>2, <3>3, <3>5, <3>6
  <2>2. ASSUME SessionInv
        PROVE  A!USBRestored
    BY <2>2 DEF SessionInv, RestoreInv, A!USBRestored, A!Ended
  <2>3. QED
    BY <2>1, <2>2 DEF SessionsEnd, A!SessionsEnd
<1>4. QED
  BY <1>1, <1>2, <1>3, PTL DEF A!Spec

-----------------------------------------------------------------------------
(***************************************************************************)
(* Audio initialization.                                                   *)
(***************************************************************************)

(* What has been checked stays so until somebody meddles; and the backup   *)
(* was written before the configuration is.                                *)
CareInv ==
    /\ device \in Module /\ DOMAIN usbcfg = Module
    /\ step \in {"authorize", "reread", "write"} => <<expected, savedCfg>> \in backup
    /\ step \in {"reread", "write", "restart"} =>
         /\ "exchanged" \notin since => device = expected
         /\ "called" \notin since => ~ringing
    /\ step = "write" /\ "exchanged" \notin since /\ "altered" \notin since =>
         usbcfg[device] = savedCfg

(* The invariant of the initialization is inductive.                       *)
LEMMA CareStep ==
    ASSUME CareInv, [A!Next]_(A!vars)
    PROVE  CareInv'
<1>1. CASE UNCHANGED <<step, device, usbcfg, expected, savedCfg, backup, ringing, since>>
  BY <1>1 DEF CareInv
<1>2. CASE A!Identify
  BY <1>2 DEF A!Identify, CareInv
<1>3. CASE A!ReadConfig
  BY <1>3 DEF A!ReadConfig, A!Fails, CareInv
<1>4. CASE A!BackUp
  BY <1>4 DEF A!BackUp, A!Fails, CareInv
<1>5. CASE A!Authorize
  BY <1>5 DEF A!Authorize, A!Guarded, A!Fails, CareInv
<1>6. CASE A!Reread
  BY <1>6 DEF A!Reread, A!Fails, CareInv
<1>7. CASE A!WriteConfig
  BY <1>7 DEF A!WriteConfig, A!Fails, CareInv
<1>8. CASE A!GuardAgain
  BY <1>8 DEF A!GuardAgain, A!Guarded, A!Fails, CareInv
<1>9. CASE A!RestartModule \/ A!Await
  BY <1>9 DEF A!RestartModule, A!Await, A!Fails, CareInv
<1>10. CASE A!Meddle
  BY <1>10 DEF A!Meddle, CareInv
<1>11. CASE A!SessionNext
  BY <1>1, <1>11 DEF A!SessionNext, A!ScriptNext, A!Begin, A!Calibrate, A!Enumerate, A!ScriptFails,
      A!LoopEnds, A!StopChildren, A!Restore, A!Restart, A!Tick, A!Prepare, A!ReadyRead, A!Prepared,
      A!NotPrepared, A!Lease, A!Stop, A!Stopped, A!CallAction, A!init_
<1>12. CASE UNCHANGED A!vars
  BY <1>1, <1>12 DEF A!vars, A!init_
<1>13. QED
  BY <1>2, <1>3, <1>4, <1>5, <1>6, <1>7, <1>8, <1>9, <1>10, <1>11, <1>12
     DEF A!Next, A!InitializationNext

(* A module's persistent configuration is written only if it is the module *)
(* identified and what is overwritten is in a backup of it, and it is only *)
(* restarted if it has no call, but for what happens between the last      *)
(* check and the command: for any modules and any number of exchanges.     *)
THEOREM InitializationTakesCare == A!Spec => InitializationIsCareful
<1>1. A!Init => CareInv
  BY DEF A!Init, CareInv
<1>2. CareInv /\ [A!Next]_(A!vars) => CareInv'
  BY CareStep
<1>3. CareInv /\ [A!Next]_(A!vars) =>
        [/\ step = "write" /\ usbcfg' # usbcfg /\ "exchanged" \notin since =>
              /\ device = expected
              /\ "altered" \notin since => <<device, usbcfg[device]>> \in backup
         /\ step = "restart" /\ step' = "await" =>
              /\ "exchanged" \notin since => device = expected
              /\ "called" \notin since => ~ringing]_(A!vars)
  BY DEF CareInv
<1>4. QED
  BY <1>1, <1>2, <1>3, PTL DEF A!Spec, InitializationIsCareful, A!InitializationIsCareful

-----------------------------------------------------------------------------
(***************************************************************************)
(* The files beside the history.                                           *)
(***************************************************************************)

(* The notes loaded are those of the file, but where a save has failed.    *)
ProfileInv ==
    /\ notesFile \in F!Notes \cup {NoFile} /\ legacy \in F!Notes \cup {NoFile}
    /\ profileNotes \in F!Notes /\ DOMAIN promised = Card
    /\ \A c \in Card : promised[c] \in {"any", F!Found[c]}
    /\ loaded => \A c \in Card : promised[c] \in {"any", profileNotes[c]}

Configuration == [devices : SUBSET Device, web : Nat]

(* One updater at a time, as long as none has run beside another; what it  *)
(* is to write differs from the file only in what it is to change.         *)
UpdateInv ==
    /\ config \in Configuration /\ tmp \in Configuration /\ kept \in Configuration
    /\ copy \in [Updater -> Configuration] /\ DOMAIN at = Updater /\ changes \in Nat
    /\ \A u \in Updater : lock = u => at[u] # "idle"
    /\ ~raced =>
         /\ config = kept
         /\ \A u, v \in Updater : at[u] # "idle" /\ at[v] # "idle" => u = v
         /\ \A u \in Updater : at[u] # "idle" =>
              /\ lock = u => copy[u].web = config.web
              /\ lock # u => copy[u].devices = config.devices
              /\ at[u] = "rename" => tmp = copy[u]

(* A transaction is marked as done when it has all of the source.          *)
ImportInv ==
    /\ source \in SUBSET Record
    /\ work # None => work \in [rows : SUBSET Record, marker : BOOLEAN]
    /\ work # None /\ work.marker => source \subseteq work.rows
    /\ marker => source \subseteq rows

StoresInv == ProfileInv /\ UpdateInv /\ ImportInv

(* What a process that has loaded nothing would find is notes.             *)
LEMMA FoundIsNotes ==
    ASSUME ProfileInv
    PROVE  F!Found \in F!Notes /\ F!NoNotes \in F!Notes
BY DEF ProfileInv, F!Found, F!NoNotes, F!Notes

(* The invariant of the notes is inductive.                                *)
LEMMA ProfileStep ==
    ASSUME F!StoresAssumption, ProfileInv, [F!Next]_(F!vars)
    PROVE  ProfileInv'
<1>t. /\ notesFile \in F!Notes \cup {NoFile} /\ legacy \in F!Notes \cup {NoFile}
      /\ profileNotes \in F!Notes /\ DOMAIN promised = Card
      /\ F!Found \in F!Notes /\ F!NoNotes \in F!Notes /\ NoFile \notin F!Notes
  BY FoundIsNotes DEF ProfileInv, F!StoresAssumption
<1>i. /\ \A c \in Card : promised[c] \in {"any", F!Found[c]}
      /\ loaded => \A c \in Card : promised[c] \in {"any", profileNotes[c]}
  BY DEF ProfileInv
<1>1. CASE UNCHANGED <<notesFile, legacy, loaded, profileNotes, promised>>
  BY <1>1 DEF ProfileInv, F!Found
<1>2. CASE F!ListNotes
  <2>1. /\ loaded' = TRUE /\ profileNotes' = F!Found
        /\ UNCHANGED <<notesFile, legacy, promised>>
    BY <1>2 DEF F!ListNotes, F!Loads, F!Loadable
  <2>2. F!Found' = F!Found
    BY <2>1 DEF F!Found
  <2>3. QED
    BY <1>t, <1>i, <2>1, <2>2 DEF ProfileInv
<1>3. CASE F!RestartHub
  <2>1. /\ loaded' = FALSE /\ profileNotes' = F!NoNotes
        /\ UNCHANGED <<notesFile, legacy, promised>>
    BY <1>3 DEF F!RestartHub
  <2>2. F!Found' = F!Found
    BY <2>1 DEF F!Found
  <2>3. QED
    BY <1>t, <1>i, <2>1, <2>2 DEF ProfileInv
<1>4. CASE F!EditFile
  BY <1>1, <1>4 DEF F!EditFile
<1>5. ASSUME NEW c \in Card, NEW text \in Text \cup {None}, F!SaveNote(c, text)
      PROVE  ProfileInv'
  <2>1. PICK result \in F!Notes : F!Loads(result) /\ profileNotes' = [result EXCEPT ![c] = text]
    BY <1>5 DEF F!SaveNote
  <2>2. \A k \in Card : promised[k] \in {"any", result[k]}
    BY <1>i, <2>1 DEF F!Loads, F!Loadable
  <2>3. /\ profileNotes' \in F!Notes /\ profileNotes'[c] = text
        /\ \A k \in Card : k # c => profileNotes'[k] = result[k]
    BY <2>1 DEF F!Notes
  <2>4. UNCHANGED legacy
    BY <1>5 DEF F!SaveNote
  <2>5. CASE notesFile' = profileNotes' /\ promised' = [promised EXCEPT ![c] = text]
    <3>1. F!Found' = profileNotes'
      BY <1>t, <2>3, <2>5 DEF F!Found
    <3>2. \A k \in Card : promised'[k] \in {"any", profileNotes'[k]}
      BY <1>t, <2>2, <2>3, <2>5
    <3>3. DOMAIN promised' = Card
      BY <1>t, <2>5
    <3>4. QED
      BY <1>t, <2>3, <2>4, <2>5, <3>1, <3>2, <3>3 DEF ProfileInv
  <2>6. CASE promised' = [promised EXCEPT ![c] = "any"] /\ UNCHANGED notesFile
    <3>1. F!Found' = F!Found
      BY <2>4, <2>6 DEF F!Found
    <3>2. \A k \in Card : promised'[k] = IF k = c THEN "any" ELSE promised[k]
      BY <1>t, <2>6
    <3>3. \A k \in Card : promised'[k] \in {"any", profileNotes'[k]}
      BY <2>2, <2>3, <3>2
    <3>4. \A k \in Card : promised'[k] \in {"any", F!Found'[k]}
      BY <1>i, <3>1, <3>2
    <3>5. DOMAIN promised' = Card
      BY <1>t, <2>6
    <3>6. QED
      BY <1>t, <2>3, <2>4, <2>6, <3>3, <3>4, <3>5 DEF ProfileInv
  <2>7. QED
    BY <1>5, <2>5, <2>6 DEF F!SaveNote
<1>6. CASE F!ConfigNext \/ F!ImportNext
  BY <1>1, <1>6 DEF F!ConfigNext, F!ChangeDevices, F!ChangeSection, F!WriteTemporary, F!Replace,
      F!UpdateFails, F!ImportNext, F!BeginImport, F!ImportRows, F!Commit, F!RollBack, F!MendSource, F!notes_
<1>7. CASE UNCHANGED F!vars
  BY <1>1, <1>7 DEF F!vars, F!notes_
<1>8. QED
  BY <1>2, <1>3, <1>4, <1>5, <1>6, <1>7 DEF F!Next, F!NotesNext

(* Two configurations with the same sections are the same.                 *)
LEMMA SameSections ==
    ASSUME NEW a \in Configuration, NEW b \in Configuration, a.devices = b.devices, a.web = b.web
    PROVE  a = b
BY DEF Configuration

(* The invariant of the configuration is inductive.                        *)
LEMMA UpdateStep ==
    ASSUME F!StoresAssumption, UpdateInv, [F!Next]_(F!vars)
    PROVE  UpdateInv'
<1>t. /\ config \in Configuration /\ tmp \in Configuration /\ kept \in Configuration
      /\ copy \in [Updater -> Configuration] /\ DOMAIN at = Updater /\ changes \in Nat
      /\ \A u \in Updater : lock = u => at[u] # "idle"
      /\ None \notin Updater
  BY DEF UpdateInv, F!StoresAssumption
<1>i. ~raced =>
        /\ config = kept
        /\ \A u, v \in Updater : at[u] # "idle" /\ at[v] # "idle" => u = v
        /\ \A u \in Updater : at[u] # "idle" =>
             /\ lock = u => copy[u].web = config.web
             /\ lock # u => copy[u].devices = config.devices
             /\ at[u] = "rename" => tmp = copy[u]
  BY DEF UpdateInv
<1>1. CASE UNCHANGED <<config, tmp, lock, at, copy, kept, raced>> /\ changes' \in {changes, changes + 1}
  <2>1. changes' \in Nat
    BY <1>t, <1>1
  <2>2. QED
    BY <1>1, <2>1 DEF UpdateInv
<1>2. ASSUME NEW u \in Updater, F!ChangeDevices(u) \/ F!ChangeSection(u)
      PROVE  UpdateInv'
  <2>1. /\ at[u] = "idle" /\ at' = [at EXCEPT ![u] = "write"] /\ changes' = changes + 1
        /\ raced' = (raced \/ F!Busy # {})
        /\ UNCHANGED <<config, tmp, kept>>
    BY <1>2 DEF F!ChangeDevices, F!ChangeSection, F!Bounded
  <2>2. PICK new \in Configuration :
          /\ copy' = [copy EXCEPT ![u] = new]
          /\ \/ lock' = u /\ lock = None /\ new.web = config.web
             \/ lock' = lock /\ new.devices = config.devices
    <3>1. CASE F!ChangeDevices(u)
      <4>1. PICK d \in Device : \E devices \in {config.devices \cup {d}, config.devices \ {d}} :
              copy' = [copy EXCEPT ![u] = [config EXCEPT !.devices = devices]]
        BY <3>1 DEF F!ChangeDevices
      <4>2. PICK devices \in {config.devices \cup {d}, config.devices \ {d}} :
              copy' = [copy EXCEPT ![u] = [config EXCEPT !.devices = devices]]
        BY <4>1
      <4>3. config.devices \in SUBSET Device
        BY <1>t DEF Configuration
      <4>4. devices \in SUBSET Device
        BY <4>2, <4>3
      <4>5. [config EXCEPT !.devices = devices] \in Configuration
        BY <1>t, <4>4 DEF Configuration
      <4>6. [config EXCEPT !.devices = devices].web = config.web
        BY <1>t DEF Configuration
      <4>7. lock' = u /\ lock = None
        BY <3>1 DEF F!ChangeDevices
      <4>8. QED
        BY <4>2, <4>5, <4>6, <4>7
    <3>2. CASE F!ChangeSection(u)
      <4>1. copy' = [copy EXCEPT ![u] = [config EXCEPT !.web = changes']] /\ lock' = lock
        BY <3>2 DEF F!ChangeSection
      <4>2. changes' \in Nat
        BY <1>t, <2>1
      <4>3. [config EXCEPT !.web = changes'] \in Configuration
        BY <1>t, <4>2 DEF Configuration
      <4>4. [config EXCEPT !.web = changes'].devices = config.devices
        BY <1>t DEF Configuration
      <4>5. QED
        BY <4>1, <4>3, <4>4
    <3>3. QED
      BY <1>2, <3>1, <3>2
  <2>3. /\ copy' \in [Updater -> Configuration] /\ DOMAIN at' = Updater /\ changes' \in Nat
        /\ copy'[u] = new /\ at'[u] = "write"
        /\ \A v \in Updater : v # u => at'[v] = at[v] /\ copy'[v] = copy[v]
    BY <1>t, <2>1, <2>2
  <2>4. \A v \in Updater : lock' = v => at'[v] # "idle"
    BY <1>t, <2>1, <2>2, <2>3
  <2>5. lock # u
    BY <1>t, <2>1
  <2>6. ASSUME ~raced'
        PROVE  \A v \in Updater : at'[v] # "idle" => v = u
    <3>1. F!Busy = {}
      BY <2>1, <2>6
    <3>2. \A v \in Updater : at[v] = "idle"
      BY <3>1 DEF F!Busy
    <3>3. QED
      BY <2>3, <3>2
  <2>7. ASSUME ~raced'
        PROVE  /\ lock' = u => copy'[u].web = config.web
               /\ lock' # u => copy'[u].devices = config.devices
    BY <2>2, <2>3, <2>5
  <2>8. ~raced' => config = kept
    BY <1>i, <2>1
  <2>9. QED
    BY <1>t, <2>1, <2>3, <2>4, <2>6, <2>7, <2>8 DEF UpdateInv
<1>3. ASSUME NEW u \in Updater, F!WriteTemporary(u)
      PROVE  UpdateInv'
  <2>1. /\ at[u] = "write" /\ tmp' = copy[u] /\ at' = [at EXCEPT ![u] = "rename"]
        /\ UNCHANGED <<config, lock, copy, kept, raced, changes>>
    BY <1>3 DEF F!WriteTemporary
  <2>2. DOMAIN at' = Updater /\ \A v \in Updater : (at'[v] # "idle" <=> at[v] # "idle")
    BY <1>t, <2>1
  <2>3. tmp' \in Configuration
    BY <1>t, <2>1
  <2>4. ~raced => \A v \in Updater : at[v] # "idle" => v = u
    BY <1>i, <2>1
  <2>5. QED
    BY <1>t, <1>i, <2>1, <2>2, <2>3, <2>4 DEF UpdateInv
<1>4. ASSUME NEW u \in Updater, F!Replace(u)
      PROVE  UpdateInv'
  <2>1. /\ at[u] = "rename" /\ at' = [at EXCEPT ![u] = "idle"] /\ config' = tmp
        /\ UNCHANGED <<tmp, copy, raced, changes>>
        /\ \/ /\ lock = u /\ lock' = None
              /\ kept' = [kept EXCEPT !.devices = copy[u].devices]
           \/ /\ lock # u /\ lock' = lock
              /\ kept' = [kept EXCEPT !.web = copy[u].web]
    BY <1>4 DEF F!Replace, F!Locked
  <2>2. copy[u] \in Configuration
    BY <1>t
  <2>3. kept' \in Configuration
    <3>1. copy[u].devices \in SUBSET Device /\ copy[u].web \in Nat
      BY <2>2 DEF Configuration
    <3>2. [kept EXCEPT !.devices = copy[u].devices] \in Configuration
      BY <1>t, <3>1 DEF Configuration
    <3>3. [kept EXCEPT !.web = copy[u].web] \in Configuration
      BY <1>t, <3>1 DEF Configuration
    <3>4. QED
      BY <2>1, <3>2, <3>3
  <2>4. ASSUME ~raced
        PROVE  config' = kept'
    <3>1. /\ tmp = copy[u] /\ config = kept
          /\ lock = u => copy[u].web = config.web
          /\ lock # u => copy[u].devices = config.devices
      BY <1>i, <2>1, <2>4
    <3>2. CASE lock = u
      <4>1. kept'.devices = copy[u].devices /\ kept'.web = copy[u].web
        BY <1>t, <2>1, <3>1, <3>2 DEF Configuration
      <4>2. QED
        BY <2>1, <2>2, <2>3, <3>1, <4>1, SameSections
    <3>3. CASE lock # u
      <4>1. kept'.devices = copy[u].devices /\ kept'.web = copy[u].web
        BY <1>t, <2>1, <3>1, <3>3 DEF Configuration
      <4>2. QED
        BY <2>1, <2>2, <2>3, <3>1, <4>1, SameSections
    <3>4. QED
      BY <3>2, <3>3
  <2>5. DOMAIN at' = Updater /\ \A v \in Updater : at'[v] # "idle" => at[v] # "idle" /\ v # u
    BY <1>t, <2>1
  <2>6. ~raced => \A v \in Updater : at'[v] = "idle"
    BY <1>i, <2>1, <2>5
  <2>7. \A v \in Updater : lock' = v => at'[v] # "idle"
    <3>1. \A v \in Updater : v # u => at'[v] = at[v]
      BY <1>t, <2>1
    <3>2. QED
      BY <1>t, <2>1, <3>1
  <2>8. QED
    BY <1>t, <2>1, <2>3, <2>4, <2>5, <2>6, <2>7 DEF UpdateInv
<1>5. ASSUME NEW u \in Updater, F!UpdateFails(u)
      PROVE  UpdateInv'
  <2>1. /\ at[u] # "idle" /\ at' = [at EXCEPT ![u] = "idle"]
        /\ lock' = IF lock = u THEN None ELSE lock
        /\ UNCHANGED <<config, tmp, copy, kept, raced, changes>>
    BY <1>5 DEF F!UpdateFails, F!Locked
  <2>2. DOMAIN at' = Updater /\ at'[u] = "idle" /\ \A v \in Updater : v # u => at'[v] = at[v]
    BY <1>t, <2>1
  <2>3. ~raced => \A v \in Updater : at'[v] = "idle"
    BY <1>i, <2>1, <2>2
  <2>4. \A v \in Updater : lock' = v => at'[v] # "idle"
    BY <1>t, <2>1, <2>2
  <2>5. QED
    BY <1>t, <1>i, <2>1, <2>2, <2>3, <2>4 DEF UpdateInv
<1>6. CASE F!NotesNext \/ F!ImportNext
  BY <1>1, <1>6 DEF F!NotesNext, F!ListNotes, F!RestartHub, F!EditFile, F!SaveNote, F!Bounded,
      F!ImportNext, F!BeginImport, F!ImportRows, F!Commit, F!RollBack, F!MendSource, F!config_
<1>7. CASE UNCHANGED F!vars
  BY <1>1, <1>7 DEF F!vars, F!config_
<1>8. QED
  BY <1>2, <1>3, <1>4, <1>5, <1>6, <1>7 DEF F!Next, F!ConfigNext

(* The invariant of the import is inductive.                               *)
LEMMA ImportStep ==
    ASSUME ImportInv, [F!Next]_(F!vars)
    PROVE  ImportInv'
<1>1. CASE UNCHANGED <<source, rows, marker, work>>
  BY <1>1 DEF ImportInv
<1>2. CASE F!BeginImport
  <2>1. /\ work' = [rows |-> {}, marker |-> FALSE] /\ UNCHANGED <<source, rows, marker>>
    BY <1>2 DEF F!BeginImport
  <2>2. work' \in [rows : SUBSET Record, marker : BOOLEAN] /\ ~work'.marker
    BY <2>1
  <2>3. QED
    BY <2>1, <2>2 DEF ImportInv
<1>3. CASE F!ImportRows
  <2>1. work # None /\ UNCHANGED <<source, rows, marker>>
    BY <1>3 DEF F!ImportRows
  <2>2. work \in [rows : SUBSET Record, marker : BOOLEAN] /\ source \in SUBSET Record
        /\ (work.marker => source \subseteq work.rows)
    BY <2>1 DEF ImportInv
  <2>3. CASE \E r \in source \ work.rows : work' = [work EXCEPT !.rows = @ \cup {r}]
    <3>1. PICK r \in source \ work.rows : work' = [work EXCEPT !.rows = work.rows \cup {r}]
      BY <2>3
    <3>2. work' \in [rows : SUBSET Record, marker : BOOLEAN]
      BY <2>2, <3>1
    <3>3. work'.marker = work.marker /\ work.rows \subseteq work'.rows
      BY <2>2, <3>1
    <3>4. QED
      BY <2>1, <2>2, <3>2, <3>3 DEF ImportInv
  <2>4. CASE source \subseteq work.rows /\ work' = [work EXCEPT !.marker = TRUE]
    <3>1. work' \in [rows : SUBSET Record, marker : BOOLEAN] /\ work'.rows = work.rows
      BY <2>2, <2>4
    <3>2. QED
      BY <2>1, <2>2, <2>4, <3>1 DEF ImportInv
  <2>5. QED
    BY <1>3, <2>3, <2>4 DEF F!ImportRows
<1>4. CASE F!Commit
  BY <1>4 DEF F!Commit, ImportInv
<1>5. CASE F!RollBack \/ F!MendSource
  BY <1>5 DEF F!RollBack, F!MendSource, ImportInv
<1>6. CASE F!NotesNext \/ F!ConfigNext
  BY <1>1, <1>6 DEF F!NotesNext, F!ListNotes, F!RestartHub, F!EditFile, F!SaveNote,
      F!ConfigNext, F!ChangeDevices, F!ChangeSection, F!WriteTemporary, F!Replace, F!UpdateFails, F!import_
<1>7. CASE UNCHANGED F!vars
  BY <1>1, <1>7 DEF F!vars, F!import_
<1>8. QED
  BY <1>2, <1>3, <1>4, <1>5, <1>6, <1>7 DEF F!Next, F!ImportNext

(* What a request was told is saved is what the next process loads: notes, *)
(* updates of the configuration unless one without the lock ran beside     *)
(* another, and all of an import that is marked as done.                   *)
THEOREM SavedStays == F!Spec => []SavedIsDurable
<1>1. F!StoresAssumption
  BY HostConfiguration
<1>2. F!Init => StoresInv
  <2>1. ASSUME F!Init
        PROVE  ProfileInv /\ UpdateInv /\ ImportInv
    <3>1. ProfileInv
      <4>1. /\ notesFile \in F!Notes \cup {NoFile} /\ legacy \in F!Notes \cup {NoFile}
            /\ loaded = FALSE /\ profileNotes = F!NoNotes /\ promised = F!Found
        BY <2>1 DEF F!Init, F!Found
      <4>2. F!NoNotes \in F!Notes /\ F!Found \in F!Notes
        BY <4>1 DEF F!NoNotes, F!Notes, F!Found
      <4>3. DOMAIN promised = Card
        BY <4>1, <4>2 DEF F!Notes
      <4>4. QED
        BY <4>1, <4>2, <4>3 DEF ProfileInv
    <3>2. UpdateInv
      <4>1. /\ config = [devices |-> {}, web |-> 0] /\ tmp = config /\ lock = None
            /\ at = [u \in Updater |-> "idle"] /\ copy = [u \in Updater |-> config]
            /\ kept = config /\ changes = 0
        BY <2>1 DEF F!Init
      <4>2. config \in Configuration
        BY <4>1 DEF Configuration
      <4>3. \A u \in Updater : lock # u /\ at[u] = "idle"
        BY <1>1, <4>1 DEF F!StoresAssumption
      <4>4. copy \in [Updater -> Configuration] /\ DOMAIN at = Updater
        BY <4>1, <4>2
      <4>5. QED
        BY <4>1, <4>2, <4>3, <4>4 DEF UpdateInv
    <3>3. ImportInv
      BY <2>1 DEF F!Init, ImportInv
    <3>4. QED
      BY <3>1, <3>2, <3>3
  <2>2. QED
    BY <2>1 DEF StoresInv
<1>3. StoresInv /\ [F!Next]_(F!vars) => StoresInv'
  BY <1>1, ProfileStep, UpdateStep, ImportStep DEF StoresInv
<1>4. StoresInv => SavedIsDurable
  BY DEF StoresInv, ProfileInv, UpdateInv, ImportInv, SavedIsDurable, F!SavedIsDurable
<1>5. QED
  BY <1>2, <1>3, <1>4, PTL DEF F!Spec
=============================================================================
