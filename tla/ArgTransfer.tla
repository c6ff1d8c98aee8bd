---------------------------- MODULE ArgTransfer ----------------------------
(***************************************************************************)
(* What the argument transfer promises: each slave receives the argument   *)
(* bytes in order, the master counts a byte as confirmed only when the     *)
(* slave holds it, is never more than one byte behind, and nothing that    *)
(* was stored changes again.                                               *)
(*                                                                         *)
(* This is promised of the bytes that have not gone astray: a byte whose   *)
(* number something else than the transfer sends to the slave may be       *)
(* stored with any value, at any time, and counts as confirmed whatever    *)
(* the slave holds.  It does not take others with it.                      *)
(***************************************************************************)
EXTENDS Integers

CONSTANTS SlaveCount, ArgLen, Arg, Byte, NoByte

VARIABLES
    confirmed,   \* how many bytes the master knows to be delivered, per slave
    store,       \* what each slave holds
    astray       \* the arguments that have gone astray, per slave

tvars == <<confirmed, store, astray>>

Slaves == 1 .. SlaveCount

Init ==
    /\ confirmed = [s \in Slaves |-> 0]
    /\ store = [s \in Slaves |-> [i \in 1 .. ArgLen |-> NoByte]]
    /\ astray = [s \in Slaves |-> {}]

\* The byte that follows the last confirmed one reaches the slave.
Deliver(s) ==
    LET next == confirmed[s] + 1
    IN  /\ next <= ArgLen
        /\ store' = [store EXCEPT ![s] = [i \in 1 .. ArgLen |-> IF i = next THEN Arg[i] ELSE @[i]]]
        /\ UNCHANGED <<confirmed, astray>>

\* The master learns that the slave holds it.
Confirm(s) ==
    LET next == confirmed[s] + 1
    IN  /\ next <= ArgLen
        /\ store[s][next] = Arg[next] \/ next \in astray[s]
        /\ confirmed' = [confirmed EXCEPT ![s] = next]
        /\ UNCHANGED <<store, astray>>

\* Something else than the transfer takes the number of argument i ...
GoAstray(s, i) ==
    /\ astray' = [astray EXCEPT ![s] = @ \cup {i}]
    /\ UNCHANGED <<confirmed, store>>

\* ... and its value reaches the slave.
Stray(s, i, value) ==
    /\ i \in astray[s]
    /\ store' = [store EXCEPT ![s] = [j \in 1 .. ArgLen |-> IF j = i THEN value ELSE @[j]]]
    /\ UNCHANGED <<confirmed, astray>>

Next ==
    \E s \in Slaves :
        \/ Deliver(s)
        \/ Confirm(s)
        \/ \E i \in 1 .. ArgLen : GoAstray(s, i) \/ \E value \in Byte : Stray(s, i, value)

Spec == Init /\ [][Next]_tvars
=============================================================================
