---------------------------- MODULE MCSlaveLink ----------------------------
(* Values of the constants for the model checker. *)
EXTENDS SlaveLink

MCInitWord == <<1000, 0>>
MCArgOne == <<7>>
MCOneCommand == { <<900, 1>> }
MCTelemetry == { <<900, 1>> }
MCBoards == {1, 2}
MCOneBoard == {1}
=============================================================================
