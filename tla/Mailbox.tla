-------------------------------- MODULE Mailbox --------------------------------
(***************************************************************************)
(* The two mailboxes of a slave, as SOEM uses them: ecx_mbxsend writes a   *)
(* request when the slave's IN mailbox is empty, ecx_mbxreceive waits for  *)
(* the OUT mailbox to be full and reads it.  The slave's side is external: *)
(* it takes a request, works on it, and puts the answers into the OUT      *)
(* mailbox one after the other; emergencies come between.                  *)
(*                                                                         *)
(* What the requests and the answers say is the business of the protocols  *)
(* over the mailbox: SdoTransfer, ObjectInfo, FileAccess, ServoDrive and   *)
(* EthernetFrames.  A protocol is a set of operators on a job, the local   *)
(* variables of the call under way: the next request, and the next step    *)
(* after an answer (To... below).  MailboxServices puts them together.     *)
(***************************************************************************)
EXTENDS Integers, Sequences

CONSTANTS
    Calls,      \* the calls made: [op, index, size, room]; size is that of the object,
                \* file, list or frame called index, and room that of the caller's buffer
    mbx_l,      \* length of the mailboxes
    MaxCnt,     \* the last mailbox counter, 7 in the code
    MaxAnswers, \* external: answers that the slave holds back when it takes a request
    MaxFaults   \* bound: emergencies, repeated requests, exchanged boards, refusals

ASSUME MailboxAssumption ==
    /\ \A c \in Calls : c.size \in Nat /\ c.room \in Nat
    /\ \A c, d \in Calls : c.index = d.index => c.size = d.size
    /\ mbx_l \in Nat /\ MaxCnt \in Nat \ {0} /\ MaxAnswers \in Nat \ {0} /\ MaxFaults \in Nat

VARIABLES
    mbx_in, mbx_out,  \* the mailboxes of the slave, <<>> or <<message>>
    answers,          \* what the slave has still to put into its OUT mailbox
    lastcnt,          \* the counter of the last request it took
    board,            \* which board it is
    server,           \* external: the transfer the slave is in, or [op |-> "none"]
    store,            \* external: index -> the last call whose data a slave took whole, 0 if none
    mbx_cnt,          \* the counter of the master for this slave
    pc,               \* "idle", "send", "sent", "empty", "receive", "again", "lost", "ended"
    last,             \* the request sent, until that is confirmed, or the message read again
    disturbed,        \* this call was disturbed from outside,
    stale,            \* an answer was not waited for since the board was started,
    unsent,           \* and how many requests in a row did not reach the mailbox
    faults
slaveVars == <<mbx_in, mbx_out, answers, lastcnt, board, server, store>>
ghostVars == <<disturbed, stale, unsent, faults>>
mailboxVars == <<slaveVars, mbx_cnt, pc, last, ghostVars>>

Lesser(a, b) == IF a < b THEN a ELSE b
Indexes == {c.index : c \in Calls}
ObjectSize(i) == (CHOOSE c \in Calls : c.index = i).size
Emergency == [kind |-> "emergency"]
MailboxError == [kind |-> "mbx_error"]
NoTransfer == [op |-> "none"]
NoRequest == [kind |-> "none"]

MailboxInit ==
    /\ mbx_in = <<>> /\ mbx_out = <<>> /\ answers = <<>>
    /\ lastcnt = 0 /\ board = 1
    /\ server = NoTransfer /\ store = [i \in Indexes |-> 0]
    /\ mbx_cnt = 0 /\ pc = "idle" /\ last = NoRequest
    /\ disturbed = FALSE /\ stale = FALSE /\ unsent = 0 /\ faults = 0

-----------------------------------------------------------------------------
(* What a job does next: send its next request, wait for an answer, wait for the IN *)
(* mailbox to be taken, begin a request anew, or end.                               *)
ToSend(j) == [next |-> "send", job |-> j]
ToReceive(j) == [next |-> "receive", job |-> j]
ToEmpty(j) == [next |-> "empty", job |-> j]
ToDrain(j) == [next |-> "drain", job |-> j]
ToEnd(j, r) == [next |-> "ended", job |-> [j EXCEPT !.result = r]]

\* Mutant: the counter stays at its last value.
NextCntStuck == IF mbx_cnt >= MaxCnt THEN mbx_cnt ELSE mbx_cnt + 1
\* ec_nextmbxcnt: 0 is not used.
NextCnt == IF mbx_cnt >= MaxCnt THEN 1 ELSE mbx_cnt + 1

\* Something of the slave's is still to be read.
Pending == mbx_in # <<>> \/ answers # <<>> \/ mbx_out # <<>>

-----------------------------------------------------------------------------
(* The master.                                                              *)

\* ecx_mbxreceive with time-out 0, before every request: what is in the OUT mailbox is
\* thrown away, unless the frame that reads it is lost.
Drain ==
    /\ mbx_out' \in {<<>>, mbx_out}
    /\ stale' = (stale \/ mbx_in # <<>> \/ answers # <<>> \/ mbx_out' # <<>>)
    /\ UNCHANGED <<mbx_in, answers, lastcnt, board, server, store, mbx_cnt, last, unsent, faults>>

\* After so many lost requests the counter is that of the last one that the slave took,
\* which takes this one for its repetition.
Wrapped == unsent >= MaxCnt - 1

\* ecx_mbxsend writes the IN mailbox if that is empty.  The counter is used up even if it
\* cannot be written in time, or the frame gets lost.
SendMessage(request, taken) ==
    /\ pc = "send"
    /\ mbx_cnt' = NextCnt
    /\ IF taken
         THEN /\ mbx_in = <<>> /\ mbx_in' = <<[cnt |-> NextCnt, request |-> request]>>
              /\ last' = mbx_in'[1]
              /\ pc' = "sent" /\ disturbed' = (disturbed \/ Wrapped) /\ unsent' = 0
         ELSE /\ last' = NoRequest /\ UNCHANGED mbx_in
              /\ pc' = "lost" /\ disturbed' = TRUE /\ unsent' = Lesser(unsent + 1, MaxCnt)
    /\ UNCHANGED <<mbx_out, answers, lastcnt, board, server, store, stale, faults>>

\* The frame is sent again if its confirmation is lost: it then finds the mailbox full, or
\* the slave has taken the request and gets it twice.
SendAgain ==
    /\ pc = "sent"
    /\ faults < MaxFaults /\ faults' = faults + 1
    /\ mbx_in = <<>> /\ mbx_in' = <<last>>
    /\ UNCHANGED <<mbx_out, answers, lastcnt, board, server, store, mbx_cnt, pc, last,
                   disturbed, stale, unsent>>

\* The write fails although the slave has the request.
Unconfirmed ==
    /\ pc = "sent" /\ pc' = "lost"
    /\ last' = NoRequest
    /\ disturbed' = TRUE /\ stale' = TRUE
    /\ UNCHANGED <<slaveVars, mbx_cnt, unsent, faults>>

\* The time is over.
GiveUp ==
    /\ pc \in {"receive", "again"} /\ pc' = "lost"
    /\ disturbed' = (disturbed \/ Pending) /\ stale' = (stale \/ Pending)
    /\ UNCHANGED <<slaveVars, mbx_cnt, last, unsent, faults>>

\* The OUT mailbox is read; a lost frame is made good with a repeat request.
ReadOut(kept) ==
    /\ pc \in {"receive", "again"}
    /\ mbx_out # <<>> /\ mbx_out' = <<>>
    /\ last' = kept
    /\ UNCHANGED <<mbx_in, answers, lastcnt, board, server, store, mbx_cnt, ghostVars>>

\* After an emergency (or a message that the application's hook has taken) the mailbox is
\* read again without waiting.  If it is empty, that counts as a lost frame, and the slave
\* repeats its last message, the very same.
ReadAgain ==
    /\ pc = "again"
    /\ mbx_out = <<>> /\ mbx_out' = <<last>>
    /\ UNCHANGED <<mbx_in, answers, lastcnt, board, server, store, mbx_cnt, pc, last, ghostVars>>

-----------------------------------------------------------------------------
(* External: the slave.                                                     *)

Put ==
    /\ mbx_out = <<>> /\ answers # <<>>
    /\ mbx_out' = <<Head(answers)>>
    /\ answers' = Tail(answers)
    /\ UNCHANGED <<mbx_in, lastcnt, board, server, store, mbx_cnt, pc, last, ghostVars>>

Report ==
    /\ faults < MaxFaults /\ faults' = faults + 1
    /\ answers' = Append(answers, Emergency)
    /\ UNCHANGED <<mbx_in, mbx_out, lastcnt, board, server, store, mbx_cnt, pc, last,
                   disturbed, stale, unsent>>

\* Another board, or the same after a reset: nothing is in its mailboxes.
Exchange ==
    /\ pc # "ended"
    /\ faults < MaxFaults /\ faults' = faults + 1
    /\ mbx_in' = <<>> /\ mbx_out' = <<>> /\ answers' = <<>>
    /\ lastcnt' = 0 /\ server' = NoTransfer
    /\ board' = board + 1
    /\ disturbed' = TRUE /\ stale' = FALSE
    /\ UNCHANGED <<store, mbx_cnt, pc, last, unsent>>

\* What a slave does with a request: the answers, the transfer it is in then and what it has
\* stored.  That it is not ready, or refuses, is a fault.
Served(as, s, st) ==
    [answers |-> as, server |-> s, store |-> st, fault |-> 0, refused |-> FALSE]
Delayed(as, s) ==
    [answers |-> as, server |-> s, store |-> store, fault |-> 1, refused |-> FALSE]
Refused(as) ==
    [answers |-> as, server |-> server, store |-> store, fault |-> 1, refused |-> TRUE]
Piece(i, from, to) == [board |-> board, index |-> i, from |-> from, to |-> to]
Stored(i, n) == [store EXCEPT ![i] = n]
\* The pieces are bytes 1 .. n of one object, in order and without a gap.
AreBytes(ps, i, n) ==
    /\ ps # <<>> /\ ps[1].from = 1 /\ ps[Len(ps)].to = n
    /\ \A k \in DOMAIN ps : ps[k].index = i
    /\ \A k \in 1 .. Len(ps) - 1 : ps[k + 1].from = ps[k].to + 1
=============================================================================
