--------------------------- MODULE MCAPDUArbiter ---------------------------
(* Instances of APDUArbiter for TLC: request mixes and symmetry. *)
EXTENDS APDUArbiter, TLC

Transport(class, mode, channel, scope) ==
    [type |-> "transport", class |-> class, mode |-> mode,
     channel |-> channel, scope |-> scope, policy |-> {}]

Legacy(type) ==
    [type |-> type, class |-> "", mode |-> "QMI", channel |-> 0,
     scope |-> "qmi_channel", policy |-> {}]

SwitchBarrier(policy) ==
    [type |-> "barrier", class |-> "", mode |-> "QMI", channel |-> 0,
     scope |-> "exclusive", policy |-> policy]

Write    == Transport("EUICCWrite", "QMI", 0, "exclusive")
WriteAT  == Transport("", "AT", 1, "qmi_channel")
AKA      == Transport("USIMAKA", "QMI", 0, "exclusive")
SMSC     == Transport("SMSC", "AT", 0, "exclusive")
Chan(n)  == Transport("EUICCWrite", "QMI", n, "qmi_channel")

(* Every kind of caller the code has. *)
AllKinds ==
    {WriteAT, AKA, Chan(1), Chan(2), Legacy("session"), Legacy("oneshot"), SwitchBarrier({})}

(* A lease the switch barrier lets through, one it blocks, the barrier. *)
LiveMix == {Write, SMSC, SwitchBarrier({})}

(* An eUICC writer against AKA traffic. *)
PriorityMix == {Write, AKA}

Symmetry == Permutations(Client)
=============================================================================
