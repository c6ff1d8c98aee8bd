---------------------------- MODULE MailboxServices ----------------------------
(***************************************************************************)
(* The mailbox of one slave and the calls that use it, one after the       *)
(* other: SdoTransfer, ObjectInfo, FileAccess, ServoDrive, EthernetFrames. *)
(* The calls are blocking; what an earlier one did not wait for is met by  *)
(* the next, whatever its protocol.                                        *)
(***************************************************************************)
EXTENDS SdoTransfer, ObjectInfo, FileAccess, ServoDrive, EthernetFrames, ErrorList

CONSTANTS
    Follows,   \* call -> the calls that may come after it
    Hooked,    \* the calls during which the application's hook takes Ethernet frames
    Ethernet,  \* and those during which the slave may send one
    FrameRoom, \* the size of the hook's buffer
    MaxCalls   \* bound: calls

VARIABLES
    job,       \* the call under way, or the last one
    rx,        \* the hook: the fragments of a frame so far,
    delivered  \* and the last frame that it has put together
vars == <<mailboxVars, errorVars, job, rx, delivered>>

Init ==
    /\ MailboxInit /\ ErrorInit
    /\ job = SdoBegin(CHOOSE c \in Calls : TRUE, 0)
    /\ rx = NoFrame /\ delivered = <<>>

Op == job.call.op
Sdo == {"read", "write"}
Info == {"odlist", "odesc", "oe", "rxpdo", "txpdo"}
Foe == {"foe_read", "foe_write"}
Soe == {"soe_read", "soe_write"}
Eoe == {"eoe_set", "eoe_get", "eoe_send", "eoe_recv"}
Frames == {"eoe_send", "eoe_recv"}

\* A mailbox has room for the headers of every service.
ASSUME ServicesAssumption ==
    /\ Calls # {} /\ Follows \in [Calls -> SUBSET Calls] /\ MaxCalls \in Nat
    /\ \A c \in Calls : c.op \in Sdo \cup Info \cup Foe \cup Soe \cup Eoe
    /\ mbx_l > 16

\* The local variables of a call.
Begin(c, n) ==
    CASE c.op \in Sdo -> {SdoBegin(c, n)}
      [] c.op \in Info -> {InfoBegin(c, n)}
      [] c.op \in Foe -> {FoeBegin(c, n)}
      [] c.op \in Soe -> {SoeBegin(c, n)}
      [] OTHER -> EoeBegin(c, n)
Prepared == CASE Op \in Sdo -> SdoPrepared(job) [] Op \in Soe -> SoePrepared(job) [] OTHER -> job
Request(j) ==
    CASE Op \in Sdo -> SdoRequest(job)
      [] Op \in Info -> InfoRequest(j)
      [] Op \in Foe -> FoeRequest(j)
      [] Op \in Soe -> SoeRequest(j)
      [] OTHER -> EoeRequest(j)
Sent ==
    CASE Op \in Info -> InfoSent(job)
      [] Op \in Foe -> FoeSent(job)
      [] Op \in Soe -> SoeSent(job)
      [] Op \in Sdo -> ToReceive(job)
      [] OTHER -> EoeSent(job)
Answered(m) ==
    CASE Op \in Sdo -> SdoAnswered(job, m)
      [] Op \in Info -> InfoAnswered(job, m)
      [] Op \in Foe -> FoeAnswered(job, m)
      [] Op \in Soe -> SoeAnswered(job, m)
      [] Op = "eoe_recv" -> RecvAnswered(job, m)
      [] OTHER -> ParamsAnswered(job, m)
Unanswered ==
    CASE Op \in Sdo -> SdoLost(job)
      [] Op \in Info -> InfoLost(job)
      [] Op \in Soe -> SoeLost(job)
      [] OTHER -> ToEnd(job, "lost")

-----------------------------------------------------------------------------
(* The errors, and the messages that ecx_mbxreceive deals with itself.      *)

Push(errors) ==
    \/ errors = {} /\ UNCHANGED errorVars
    \/ \E e \in errors : PushError(e)

\* What an answer is reported as, if it is an error.  Of the list of objects only that it is
\* too long is one, of an object's entries each one has its own.
Errors(m) ==
    LET r == Answered(m).job.result
    IN  IF Op \in Foe \cup Eoe THEN {}
        ELSE IF Op = "oe" /\ m.kind # "oe" THEN {Failure(job, m)}
        ELSE IF Op = "odlist" /\ IsCut(job, m) THEN {"cut"}
        ELSE {r} \cap {"abort", "unexpected", "small"}

IsFrame(m, c) == m.kind = "eoe_data" /\ c \in Hooked
IsReport(m) == m.kind \in {"emergency", "mbx_error"}
Handle(m, c) ==
    /\ Push(IF IsReport(m) THEN {m.kind} ELSE {})
    /\ IF IsFrame(m, c)
         THEN LET r == ReadFragment(rx, m, FrameRoom)
              IN  rx' = r.rx /\ delivered' = IF r.frame = <<>> THEN delivered ELSE r.frame
         ELSE UNCHANGED <<rx, delivered>>

-----------------------------------------------------------------------------
(* The master.                                                              *)

Go(outcome) == job' = outcome.job /\ pc' = outcome.next
NoReport == UNCHANGED <<errorVars, rx, delivered>>

\* What is thrown away is dealt with all the same.
Emptied(c) ==
    /\ Drain
    /\ IF mbx_out' = mbx_out THEN NoReport ELSE Handle(mbx_out[1], c)

\* A frame is sent or received whatever is in the mailboxes.
Start ==
    /\ pc \in {"idle", "ended"} /\ job.n < MaxCalls
    /\ \E c \in IF pc = "idle" THEN Calls ELSE Follows[job.call] :
         /\ job' \in Begin(c, job.n + 1)
         /\ pc' = IF c.op = "eoe_recv" THEN "receive" ELSE "send"
         /\ Emptied(c)
         /\ c.op \in Frames => mbx_out' = mbx_out
    /\ disturbed' = FALSE

\* The next entry of an object is read like the first.
StartEntry ==
    /\ pc = "drain" /\ pc' = "send"
    /\ Emptied(job.call)
    /\ UNCHANGED <<job, disturbed>>

Send(taken) ==
    /\ SendMessage(Request(Prepared), taken)
    /\ job' = Prepared
    /\ NoReport

Confirm ==
    /\ pc = "sent" /\ Go(Sent)
    /\ last' = NoRequest
    /\ UNCHANGED <<slaveVars, mbx_cnt, ghostVars>> /\ NoReport

\* ecx_mbxempty: the slave takes the request, or not in time.
AwaitEmpty ==
    /\ pc = "empty"
    /\ \/ mbx_in = <<>> /\ pc' = "send" /\ UNCHANGED disturbed
       \/ pc' = "receive" /\ disturbed' = TRUE
    /\ UNCHANGED <<slaveVars, mbx_cnt, last, stale, unsent, faults, job>> /\ NoReport

Receive ==
    /\ mbx_out # <<>>
    /\ LET m == mbx_out[1]
       IN  IF IsReport(m) \/ IsFrame(m, job.call)
             THEN /\ ReadOut(m) /\ pc' = "again"
                  /\ Handle(m, job.call)
                  /\ UNCHANGED job
             ELSE /\ ReadOut(NoRequest) /\ Go(Answered(m))
                  /\ Push(Errors(m))
                  /\ UNCHANGED <<rx, delivered>>

\* Only of a drive is it reported that it does not answer.
TimeOut ==
    /\ GiveUp
    /\ Push(IF Op \in Soe THEN {"no response"} ELSE {})
    /\ UNCHANGED <<job, rx, delivered>>

Lost ==
    /\ pc = "lost" /\ Go(Unanswered)
    /\ last' = NoRequest
    /\ UNCHANGED <<slaveVars, mbx_cnt, ghostVars>> /\ NoReport

\* The application looks at the errors between the calls.
ReadErrors ==
    /\ pc = "ended" /\ PopError
    /\ UNCHANGED <<mailboxVars, job, rx, delivered>>

-----------------------------------------------------------------------------
(* External: the slave.                                                     *)

Serve(r) ==
    CASE r.kind \in Sdo -> ServeSdo(r)
      [] r.kind \in Info -> ServeInfo(r)
      [] r.kind \in Foe \cup {"foe_ack", "foe_data"} -> ServeFoe(r)
      [] r.kind \in Soe \cup {"soe_part"} -> ServeSoe(r)
      [] OTHER -> ServeEoe(r)

\* A request with the counter of the one before is the same one again.  A service that the
\* slave does not know is refused when it begins.
Take ==
    /\ mbx_in # <<>> /\ mbx_in' = <<>>
    /\ Len(answers) < MaxAnswers
    /\ lastcnt' = mbx_in[1].cnt
    /\ IF mbx_in[1].cnt = lastcnt
         THEN UNCHANGED <<answers, server, store, disturbed, faults>>
         ELSE \E o \in Serve(mbx_in[1].request)
                        \cup IF server = NoTransfer THEN {Refused(<<MailboxError>>)} ELSE {} :
                /\ faults + o.fault <= MaxFaults /\ faults' = faults + o.fault
                /\ answers' = answers \o o.answers
                /\ server' = o.server /\ store' = o.store
                /\ disturbed' = (disturbed \/ o.refused)
    /\ UNCHANGED <<mbx_out, board, mbx_cnt, pc, last, stale, unsent, job>> /\ NoReport

\* A frame that nobody waits for disturbs a call.
SendFrame ==
    /\ job.call \in Ethernet /\ pc \notin {"idle", "ended"}
    /\ \E c \in Calls, stamped \in BOOLEAN :
         c.op = "eoe_recv" /\ SendEthernet(c.index, stamped)
    /\ disturbed' = (disturbed \/ ~(Op = "eoe_recv" \/ job.call \in Hooked))
    /\ UNCHANGED job /\ NoReport

-----------------------------------------------------------------------------
Master ==
    \/ StartEntry \/ Send(TRUE) \/ Send(FALSE) \/ Confirm \/ AwaitEmpty
    \/ Receive \/ TimeOut \/ Lost
    \/ (SendAgain \/ Unconfirmed \/ ReadAgain) /\ UNCHANGED job /\ NoReport
Slave == Take \/ SendFrame \/ ((Put \/ Report \/ Exchange) /\ UNCHANGED job /\ NoReport)
Next == Start \/ Master \/ ReadErrors \/ Slave
\* The thread that makes the call runs, and its timers end.
Spec == Init /\ [][Next]_vars /\ WF_vars(Master) /\ WF_vars(TimeOut)

-----------------------------------------------------------------------------
Results == {"open", "ok", "lost", "abort", "unexpected", "small", "refused", "packetnumber",
            "mailbox", "invalid"}
ServicesTypeOK ==
    /\ pc \in {"idle", "send", "sent", "empty", "receive", "again", "drain", "lost", "ended"}
    /\ job.call \in Calls /\ job.n \in 0 .. MaxCalls /\ job.result \in Results
    /\ pc = "ended" => job.result # "open"
    /\ mbx_cnt \in 0 .. MaxCnt /\ lastcnt \in 0 .. MaxCnt
    /\ \A m \in {mbx_in, mbx_out} : Len(m) <= 1
    /\ store \in [Indexes -> 0 .. job.n]
    /\ disturbed \in BOOLEAN /\ stale \in BOOLEAN /\ unsent \in 0 .. MaxCnt

Ended(r) == pc = "ended" /\ job.result = r
Index == job.call.index
Size == job.call.size
Room == job.call.room

\* What an SDO read has read in one answer is this object's, of the board that is there or
\* was there when it answered, and what it has read in several is of one board.  The packets
\* of a file follow each other, whatever was left over from an earlier call.
RightObject ==
    /\ Ended("ok") /\ Op = "read" =>
         /\ job.pieces[1].index = Index
         /\ \A k \in DOMAIN job.pieces : job.pieces[k].board = job.pieces[1].board
    /\ Op = "foe_read" =>
         \A k \in DOMAIN job.pieces : job.pieces[k].from = (k - 1) * FoeMax + 1

\* Every variable has its type, what an SDO read has read is one object of one board, a file
\* is read in its order, and the list of errors has lost none but the oldest.
SdoSafe == ServicesTypeOK /\ RightObject /\ ErrorsKept

\* A call only fails if it was disturbed - a frame lost, an answer too late, a refusal,
\* another board - or by an answer that an earlier call did not wait for.  An emergency, a
\* request that arrives twice, a busy slave or a frame that the hook takes does not disturb
\* it.  Receiving a frame is not a request that somebody answers; and a drive's parameter of
\* so many full fragments is announced with one too many.
FailsOnlyDisturbed ==
    pc = "ended" /\ ~disturbed /\ ~stale =>
        CASE Op \in {"read", "foe_read", "txpdo"} /\ Size > Room -> job.result = "small"
          [] Op = "eoe_recv" \/ (Op = "soe_write" /\ Size % SoeMax = 0) -> TRUE
          [] OTHER -> job.result = "ok"

\* A frame is the one that the slave has sent; a time stamp that came with it fits if there is
\* room for it after the frame.
FrameWhole(frame) ==
    LET i == frame.pieces[1].index
    IN  frame.size = ObjectSize(i) /\ AreBytes(frame.pieces, i, frame.size)
StampFits(frame, room) == frame.stamped => ObjectSize(frame.pieces[1].index) + Stamp <= room
\* What the hook takes must also fit in the blocks that the first fragment has announced.
HookRoom(frame) == Lesser(FrameRoom, Blocks(ObjectSize(frame.pieces[1].index)) * Block)

\* What a call that succeeds has read is the object, list, file, parameter or frame, whole
\* and in its order, or as much of it as there is room for.  A frame is if its time stamp fits.
ReadWhole ==
    CASE Op \in {"read", "foe_read"} -> AreBytes(job.pieces, Index, Size)
      [] Op = "eoe_recv" -> StampFits(job, Room) => FrameWhole(job)
      [] Op = "soe_read" -> AreBytes(job.pieces, Index, Lesser(Size, Room))
      [] Op = "odlist" -> AreWords(job.list, Index, 1) /\ Len(job.list) = Lesser(Size, Room)
      [] Op \in {"odesc", "txpdo"} -> AreWords(job.list, Index, 0)
      [] Op = "oe" -> disturbed \/ (AreWords(job.list, Index, 0) /\ Len(job.list) = Size + 1)
      [] Op = "eoe_get" -> \A f \in DOMAIN job.params : job.params[f] = Bytes(f)
      [] OTHER -> TRUE

\* What it has written is in the slave: at once where the slave confirms it, and when it has
\* taken it otherwise.  A file is not if the slave was too busy for the request or the end.
WrittenWhole ==
    CASE Op \in {"write", "soe_write", "eoe_set"} -> store[Index] = job.n
      [] Op = "foe_write" -> store[Index] = job.n \/ job.heard = "foe_busy"
      [] Op \in {"rxpdo", "eoe_send"} -> disturbed \/ mbx_in # <<>> \/ store[Index] = job.n
      [] OTHER -> TRUE

\* Both hold if all answers before it were waited for.  A frame that the hook has put
\* together is whole, whatever was answered before, if its time stamp fits.
TransfersWhole ==
    /\ Ended("ok") /\ ~stale => ReadWhole /\ WrittenWhole
    /\ \A k \in DOMAIN delivered :
         StampFits(delivered[k], HookRoom(delivered[k])) => FrameWhole(delivered[k])

\* What ethercateoe.c:397-398 says of ecx_EOErecv: it assembles the fragments into a complete
\* Ethernet buffer.  So it does unless the time stamp does not fit (ethercateoe.c:482): the
\* last fragment is left out then, and the call succeeds.
FramesComplete == Ended("ok") /\ Op = "eoe_recv" => FrameWhole(job)

\* Every call ends, unless it is an SDO read in segments.
CallEnds == (pc = "send" /\ (Op = "read" => Size <= SdoMax)) ~> pc = "ended"
=============================================================================
