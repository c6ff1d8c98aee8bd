------------------------------ MODULE SdoTransfer ------------------------------
(***************************************************************************)
(* CANopen over EtherCAT: ecx_SDOread and ecx_SDOwrite, with which         *)
(* SlaveDevice::init reads the serial number (0x1018:4) and the firmware   *)
(* revision (0x100A) of a board and writes the length of its arguments     *)
(* (0x8000).  An object that does not fit in a mailbox goes in segments.   *)
(*                                                                         *)
(* Data is never looked at: a piece of it is [board, index, from, to],     *)
(* bytes from .. to of the object, as the board has it.                    *)
(***************************************************************************)
EXTENDS Mailbox

SdoMax == mbx_l - 16

\* part is "first" or "segment", pieces what was read so far, written how many bytes were
\* handed to the slave.
SdoBegin(c, n) ==
    [call |-> c, n |-> n, result |-> "open",
     part |-> "first", toggle |-> 0, pieces |-> <<>>, written |-> 0]

\* The last byte of the next piece: a segment has 7 bytes more.
LastByte(j) == Lesser(j.call.size, j.written + SdoMax + (IF j.part = "first" THEN 0 ELSE 7))

\* The data is used up even if the request is not sent.
SdoPrepared(j) == IF j.call.op = "write" THEN [j EXCEPT !.written = LastByte(j)] ELSE j

SdoRequest(j) ==
    [kind |-> j.call.op, part |-> j.part, index |-> j.call.index, toggle |-> j.toggle,
     n |-> j.n, from |-> j.written + 1, to |-> IF j.call.op = "write" THEN LastByte(j) ELSE 0,
     size |-> j.call.size]

\* Mutant: an answer about another object is taken.
FitsAnyIndex(j, m) == m.kind \in {"read", "write"} /\ m.part = "first"
\* An answer to the first request is for this object; whether it is one to a read or a
\* write is not looked at.  One to a segment has no index.
Fits(j, m) ==
    /\ m.kind \in {"read", "write"}
    /\ IF j.part = "first" THEN m.part = "first" /\ m.index = j.call.index
                           ELSE m.kind = j.call.op /\ m.part = "segment"

\* Mutant: the first segment is taken for the last.
MoreOnce(j, m) == j.part = "first" /\ IF j.call.op = "read" THEN m.more ELSE j.written < j.call.size
More(j, m) == IF j.call.op = "read" THEN m.more ELSE j.written < j.call.size

\* The first segment has toggle bit 0.
NextPart(j) ==
    ToSend([j EXCEPT !.part = "segment", !.toggle = IF j.part = "first" THEN 0 ELSE 1 - j.toggle])

SdoAnswered(j, m) ==
    LET kept == IF j.call.op = "read" THEN [j EXCEPT !.pieces = Append(@, m.piece)] ELSE j
    IN  IF m.kind = "abort" THEN ToEnd(j, "abort")
        ELSE IF ~Fits(j, m) THEN ToEnd(j, "unexpected")
        ELSE IF j.call.op = "read" /\ j.part = "first" /\ m.size > j.call.room THEN ToEnd(j, "small")
        ELSE IF More(j, m) THEN NextPart(kept) ELSE ToEnd(kept, "ok")

\* Mutant: a write is not given up when there is nothing more to write.
KeepsOnForever(j) == j.part = "segment"
\* No answer to a segment does not end the loop: a read goes on until the slave answers
\* again, a write as long as it has data.
KeepsOn(j) == j.part = "segment" /\ (j.call.op = "read" \/ j.written < j.call.size)
SdoLost(j) == IF KeepsOn(j) THEN NextPart(j) ELSE ToEnd(j, "lost")

-----------------------------------------------------------------------------
(* External: the server in the slave.                                       *)

ReadAnswer(part, i, from, to) ==
    [kind |-> "read", part |-> part, index |-> i, size |-> ObjectSize(i),
     more |-> to < ObjectSize(i), piece |-> Piece(i, from, to)]
WriteAnswer(r) ==
    [kind |-> "write", part |-> r.part, index |-> r.index, size |-> 0, more |-> FALSE,
     piece |-> Piece(r.index, 1, 0)]
Abort == [kind |-> "abort"]

\* A segment out of turn ends the transfer.
InTurn(r) == server.op = r.kind /\ server.toggle = r.toggle

ServeRead(r) ==
    LET i == IF r.part = "first" THEN r.index ELSE server.index
        from == IF r.part = "first" THEN 1 ELSE server.pos + 1
        max == IF r.part = "first" THEN (IF ObjectSize(i) <= 4 THEN 4 ELSE SdoMax) ELSE SdoMax + 7
        to == Lesser(from + max - 1, ObjectSize(i))
    IN  Served(<<ReadAnswer(r.part, i, from, to)>>,
               IF to = ObjectSize(i) THEN NoTransfer
               ELSE [op |-> "read", index |-> i, pos |-> to,
                     toggle |-> IF r.part = "first" THEN 0 ELSE 1 - server.toggle],
               store)

\* It knows how many bytes it has, not which: all of them must have come.
ServeWrite(r) ==
    LET pos == (IF r.part = "first" THEN 0 ELSE server.pos) + r.to - r.from + 1
    IN  IF r.to < r.size
          THEN Served(<<WriteAnswer(r)>>,
                      [op |-> "write", index |-> r.index, pos |-> pos,
                       toggle |-> IF r.part = "first" THEN 0 ELSE 1 - server.toggle],
                      store)
        ELSE IF pos = r.size THEN Served(<<WriteAnswer(r)>>, NoTransfer, Stored(r.index, r.n))
        ELSE Served(<<Abort>>, NoTransfer, store)

ServeSdo(r) ==
    {IF r.part = "segment" /\ ~InTurn(r) THEN Served(<<Abort>>, NoTransfer, store)
     ELSE IF r.kind = "read" THEN ServeRead(r) ELSE ServeWrite(r)}

=============================================================================
