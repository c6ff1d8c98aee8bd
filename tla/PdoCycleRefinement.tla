------------------------ MODULE PdoCycleRefinement -------------------------
(***************************************************************************)
(* The process-data cycle implements the argument transfer: the confirmed  *)
(* count is read off the index being sent, the store is the firmware's,    *)
(* astray are the bytes a command stood in for.                            *)
(***************************************************************************)
EXTENDS PdoCycle

ConfirmedArgs ==
    [s \in Slaves |-> IF dev[s].arg_sent THEN ArgLen ELSE dev[s].arg_idx - 1]

Transfers == INSTANCE ArgTransfer WITH
    confirmed <- ConfirmedArgs,
    store     <- [s \in Slaves |-> fw[s].store],
    astray    <- [s \in Slaves |-> hist[s].astray]

\* Whatever frames are lost and whatever the threads do in between, the slaves receive
\* the arguments as ArgTransfer describes: in order, each one confirmed only once it is
\* stored, none overwritten -- but for the bytes whose number a command began with.
ImplementsTransfer == Transfers!Spec
=============================================================================
