---------------------------- MODULE MCPdoCycle -----------------------------
(* Values of the constants for the model checker. *)
EXTENDS PdoCycleInv

MCInitWord == <<1000, 0>>
MCArgOne == [i \in 1 .. 1 |-> 7]
MCArgThree == <<7, 7, 9>>

\* Commands that begin with no argument's number, one that a slave which is still being
\* sent its arguments takes for the first byte with another value, and one that it takes
\* for the second byte ahead of time.
MCCommands == { <<900, 1>>, <<901, 2>>, <<1, 77>>, <<2, 7>> }
MCOneCommand == { <<900, 1>> }

\* Telemetry that looks like the echo of the first argument.
MCTelemetry == { <<1, 7>> }
=============================================================================
