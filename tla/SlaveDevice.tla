---------------------------- MODULE SlaveDevice ----------------------------
(***************************************************************************)
(* The master's record of one slave board, class SlaveDevice of            *)
(* soem_wrapper, and its methods.  A device is a record and a method an    *)
(* operator from a device to the device it leaves behind; the modules that *)
(* extend this one say which thread calls a method, when, and under which  *)
(* lock.                                                                   *)
(*                                                                         *)
(* Of the process-data buffers only the first three bytes are kept, as a   *)
(* pair <<16-bit number, byte>>: a Word.  These are the bytes through      *)
(* which the argument transfer sends an index and an argument byte, and    *)
(* the ones it shares with the task mapped at offset 0, whose commands and *)
(* telemetry pass through them once the slave works.                       *)
(***************************************************************************)
EXTENDS Integers

CONSTANTS
    ArgLen,       \* arg_buf_len_: the number of argument bytes
    Arg,          \* arg_buf_: [1..ArgLen -> Byte], its index shifted by one
    InitWord,     \* what the task's init_value() leaves in the first bytes
    ResetOnLoss,  \* connection_lost_write_action = 0x02
    SeqMax,       \* the largest master_status_ (250)
    ReconnMod     \* reconnected_times_ is an uint8_t (256)

MaxByte == 255
MaxNumber == 65535
Byte == 0 .. MaxByte
Number == 0 .. MaxNumber
Word == Number \X Byte
ZeroWord == <<0, 0>>

ASSUME ArgAssumption ==
    /\ ArgLen \in Number \ {0}
    /\ Arg \in [1 .. ArgLen -> Byte]
ASSUME DeviceAssumption ==
    /\ InitWord \in Word
    /\ ResetOnLoss \in BOOLEAN
    /\ ReconnMod \in Nat \ {0}

\* Status bytes.
SLAVE_INITIALIZING == 1
SLAVE_READY == 2
SLAVE_CONFIRM_READY == 3
MASTER_SENDING_ARGUMENTS == 2
MASTER_READY == 3

\* The latency counter must take at least two values between its wraps.
ASSUME SeqAssumption == SeqMax \in (MASTER_READY + 3) .. MaxByte

\* The three bytes that carry argument i.
ArgWord(i) == <<i, Arg[i]>>

Device ==
    [ master_status : Byte,  m2s_buf : Word,  backup_buf : Word \cup {<<>>},
      slave_status : Byte,   s2m_buf : Word,
      arg_idx : 1 .. ArgLen, arg_sent : BOOLEAN, ready : BOOLEAN,
      ecat_conf : BOOLEAN,   ros_conf : BOOLEAN, reconnected : 0 .. ReconnMod - 1 ]

\* A device as init() and init_task_list() leave it when the board is configured
\* for the first time.
ConfiguredDevice ==
    [ master_status |-> MASTER_SENDING_ARGUMENTS, m2s_buf |-> ZeroWord, backup_buf |-> <<>>,
      slave_status |-> 0, s2m_buf |-> ZeroWord,
      arg_idx |-> 1, arg_sent |-> FALSE, ready |-> FALSE,
      ecat_conf |-> TRUE, ros_conf |-> TRUE, reconnected |-> 0 ]

-----------------------------------------------------------------------------
(* Methods the data cycle calls.                                            *)

\* The slave echoes what it received.
Echoed_ByteOnly(d) == d.s2m_buf[2] = Arg[d.arg_idx]     \* mutant: ignores the index
Echoed(d) == d.s2m_buf = ArgWord(d.arg_idx)

\* An echo of the byte being sent confirms it, and the next byte, if there is one,
\* takes its place in the buffer.
send_arg(d) ==
    LET confirmed == Echoed(d)
        all_sent  == d.arg_sent \/ (confirmed /\ d.arg_idx = ArgLen)
        idx       == IF confirmed /\ d.arg_idx # ArgLen THEN d.arg_idx + 1 ELSE d.arg_idx
    IN  [d EXCEPT !.arg_sent = all_sent,
                  !.arg_idx  = idx,
                  !.m2s_buf  = IF all_sent THEN @ ELSE ArgWord(idx)]

write_init_values(d) == [d EXCEPT !.m2s_buf = InitWord]

\* The size test of the code fails only when no backup was ever taken.
recover_master_to_slave_buf(d) ==
    IF d.backup_buf = <<>> THEN d ELSE [d EXCEPT !.m2s_buf = d.backup_buf]

NextStatus_Saturates(m) == IF m >= SeqMax THEN m ELSE m + 1        \* mutant: no wrap
NextStatus_Overflows(m) == (m + 1) % (SeqMax + 1)                  \* mutant: wraps to 0
NextStatus(m) == IF m >= SeqMax THEN MASTER_READY + 2 ELSE m + 1

\* The slave has answered the current status: the sample in s2m_buf is published
\* and the status moves on.
Answered(d) == d.slave_status = d.master_status

process_pdo(d) ==
    IF Answered(d) THEN [d EXCEPT !.master_status = NextStatus(@)] ELSE d

-----------------------------------------------------------------------------
(* Methods the state checker calls.                                         *)

pre_recover(d) ==
    [d EXCEPT !.arg_sent = FALSE, !.arg_idx = 1, !.ros_conf = TRUE,
              !.reconnected = (@ + 1) % ReconnMod]

\* Mutant: the slave stays configured.
reset_state_Open(d) == [d EXCEPT !.ready = FALSE, !.slave_status = SLAVE_INITIALIZING]
reset_state(d) ==
    [d EXCEPT !.ready = FALSE, !.ros_conf = FALSE, !.slave_status = SLAVE_INITIALIZING]

recover_state(d) == [d EXCEPT !.ready = TRUE, !.ros_conf = TRUE]

on_connection_lost(d) == IF ResetOnLoss THEN write_init_values(d) ELSE d

backup_master_to_slave_buf(d) == [d EXCEPT !.backup_buf = d.m2s_buf]
=============================================================================
