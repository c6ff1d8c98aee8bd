------------------------------- MODULE BusSetup -------------------------------
(***************************************************************************)
(* The bus as ecat_node.cpp brings it up, and the process data after it:   *)
(* ec_config_init finds the slaves, ec_config_map lays out the process     *)
(* image, ec_configdc measures the delays, and the data thread then sends  *)
(* and receives one cycle after the other.  A program that wants its       *)
(* slaves to give sync signals calls ec_dcsync0 or ec_dcsync01 in between. *)
(***************************************************************************)
EXTENDS ProcessData, ClockSync

vars == <<topologyVars, ioMapVars, processDataVars, clockSyncVars>>

Init == TopologyInit /\ IoMapInit /\ ProcessDataInit /\ ClockSyncInit

\* Bound: a bus whose slaves have been synchronized exchanges no data.
Next ==
    \/ FindSlave /\ UNCHANGED <<ioMapVars, processDataVars, clockSyncVars>>
    \/ found = Len(bus) /\ ConfigMap /\ UNCHANGED <<topologyVars, processDataVars, clockSyncVars>>
    \/ mapping = "done" /\ ConfigDc /\ UNCHANGED <<ioMapVars, processDataVars, clockSyncVars>>
    \/ readAt = <<>> /\ SendProcessData /\ UNCHANGED <<topologyVars, ioMapVars, clockSyncVars>>
    \/ Receive /\ UNCHANGED <<topologyVars, ioMapVars, clockSyncVars>>
    \/ /\ measured = Len(bus) /\ stack = <<>>
       /\ Synchronize
       /\ UNCHANGED <<topologyVars, ioMapVars, processDataVars>>
Spec == Init /\ [][Next]_vars

-----------------------------------------------------------------------------
BusTypeOK ==
    /\ ports \in [Slaves -> SUBSET (0 .. 3)]
    /\ parents \in [Slaves -> 0 .. Len(bus)]
    /\ \A i \in Slaves : consumed[i] \subseteq ports[i]
    /\ entries \in [Slaves -> 0 .. 3]
    /\ \A i \in Slaves : pdelay[i] \in -ClockSpan .. ClockSpan
    /\ parenthold \in 0 .. Len(bus)
    /\ found \in 0 .. Len(bus) /\ measured \in 0 .. found
    /\ mapping \in {"coe", "sii", "out", "in", "overlap", "done"} /\ mapped \in 0 .. Len(bus)
    /\ logAddr \in Nat /\ bitPos \in 0 .. 7
    /\ segments \in Seq(1 .. EC_MAXLRWDATA) /\ segmentsize \in 0 .. EC_MAXLRWDATA
    /\ wkcs \in [Directions -> Nat]
    /\ pulled \in 0 .. Len(stack) /\ missing \subseteq 1 .. pulled
    /\ wkc \in Nat
    /\ silent \subseteq Slaves

\* The delays to the slaves are measured, and their sync signals come together.
ClocksTogether == DelaysMeasured /\ SyncsTogether

\* Every variable has its type, and no two slaves own one bit of the process image.
BusSafe == BusTypeOK /\ OwnPartOfImage
=============================================================================
