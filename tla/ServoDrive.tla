------------------------------ MODULE ServoDrive ------------------------------
(***************************************************************************)
(* Servo drive profile over EtherCAT: ecx_SoEread and ecx_SoEwrite, for    *)
(* one drive and one element.  What does not fit in a mailbox goes in      *)
(* fragments; all but the last of them say how many are left where the     *)
(* last has the IDN.                                                       *)
(***************************************************************************)
EXTENDS Mailbox

SoeMax == mbx_l - 12

\* total is how many bytes were read and kept; from .. to is the fragment that was made
\* ready last.
SoeBegin(c, n) ==
    [call |-> c, n |-> n, result |-> "open", pieces |-> <<>>, total |-> 0, from |-> 1, to |-> 0]

Remaining(j) == j.call.size - j.to
NotLast(j) == j.to < j.call.size

\* The next fragment; it is used up even if it is not sent.
SoePrepared(j) ==
    IF j.call.op = "soe_read" THEN j
    ELSE [j EXCEPT !.from = j.to + 1, !.to = j.to + Lesser(Remaining(j), SoeMax)]

\* Mutant: the fragment itself is counted.
FragmentsLeftOne(j) == (j.call.size - j.from + 1) \div SoeMax + 1
FragmentsLeft(j) == (j.call.size - j.from + 1) \div SoeMax

\* Of a prepared job.
SoeRequest(j) ==
    IF j.call.op = "soe_read" THEN [kind |-> "soe_read", index |-> j.call.index]
    ELSE IF NotLast(j) THEN [kind |-> "soe_part", left |-> FragmentsLeft(j), len |-> SoeMax]
    ELSE [kind |-> "soe_write", index |-> j.call.index, len |-> j.to - j.from + 1, n |-> j.n]

\* Between two fragments only the mailbox is waited for.
SoeSent(j) == IF j.call.op = "soe_write" /\ NotLast(j) THEN ToEmpty(j) ELSE ToReceive(j)

\* Mutant: what does not fit is kept.
RoomForAll(j, m) == m.piece
\* Data beyond the buffer is cut off.  Which IDN it is of is not looked at.
Cut(j, m) == [m.piece EXCEPT !.to = Lesser(@, m.piece.from + (j.call.room - j.total) - 1)]

SoeReadAnswered(j, m) ==
    IF m.kind = "soe_data"
      THEN LET kept == Cut(j, m)
               read == [j EXCEPT !.pieces = IF kept.to < kept.from THEN @ ELSE Append(@, kept),
                                 !.total = Lesser(@ + m.len, j.call.room)]
           IN  IF m.more THEN ToReceive(read) ELSE ToEnd(read, "ok")
      ELSE ToEnd(j, IF m.kind = "soe_error" /\ m.op = "soe_read" THEN "abort" ELSE "unexpected")

\* An answer ends the call, even one between two fragments.  The error that a slave answers a
\* write with is not known for one: the code looks for that of a read.
SoeWriteAnswered(j, m) ==
    ToEnd(j, IF m.kind = "soe_written" THEN "ok"
             ELSE IF m.kind = "soe_error" /\ m.op = "soe_read" THEN "abort" ELSE "unexpected")

SoeAnswered(j, m) ==
    IF j.call.op = "soe_read" THEN SoeReadAnswered(j, m) ELSE SoeWriteAnswered(j, m)

\* No answer, or a fragment lost: the next one follows all the same.
SoeLost(j) == IF j.call.op = "soe_write" /\ NotLast(j) THEN ToSend(j) ELSE ToEnd(j, "lost")

-----------------------------------------------------------------------------
(* External: the drive.                                                     *)

SoeError(op) == [kind |-> "soe_error", op |-> op]
DriveData(i, k) ==
    LET from == (k - 1) * SoeMax + 1
        to == Lesser(k * SoeMax, ObjectSize(i))
    IN  [kind |-> "soe_data", len |-> to - from + 1, more |-> to < ObjectSize(i),
         piece |-> Piece(i, from, to)]
AllData(i) == [k \in 1 .. (ObjectSize(i) + SoeMax - 1) \div SoeMax |-> DriveData(i, k)]

\* A fragment announces the next; the last must be as many as were announced.
Expected(left) == server.op # "soe_write" \/ server.left = left + 1
Got == IF server.op = "soe_write" THEN server.got ELSE 0
ServePart(r) ==
    IF Expected(r.left)
      THEN Served(<<>>, [op |-> "soe_write", left |-> r.left, got |-> Got + r.len], store)
      ELSE Served(<<SoeError("soe_write")>>, NoTransfer, store)
ServeLast(r) ==
    IF Expected(0) /\ Got + r.len = ObjectSize(r.index)
      THEN Served(<<[kind |-> "soe_written"]>>, NoTransfer, Stored(r.index, r.n))
      ELSE Served(<<SoeError("soe_write")>>, NoTransfer, store)

ServeSoe(r) ==
    {CASE r.kind = "soe_read" -> Served(AllData(r.index), NoTransfer, store)
       [] r.kind = "soe_part" -> ServePart(r)
       [] r.kind = "soe_write" -> ServeLast(r)}
=============================================================================
