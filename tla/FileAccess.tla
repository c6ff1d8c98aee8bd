------------------------------ MODULE FileAccess ------------------------------
(***************************************************************************)
(* File access over EtherCAT: ecx_FOEread and ecx_FOEwrite.  A file goes   *)
(* in numbered packets, each of them acknowledged; the first that is not   *)
(* full is the last one.  A slave that is busy may refuse a packet.        *)
(***************************************************************************)
EXTENDS Mailbox

FoeMax == mbx_l - 12

\* sends is what goes next: the request, an acknowledgement or data.  Reading: packet is the
\* last number seen, more whether it was full.  Writing: packet is the last number sent,
\* left how many bytes remain, seg the length of the last packet and final whether an empty
\* one is due.  heard is the last answer.
FoeBegin(c, n) ==
    [call |-> c, n |-> n, result |-> "open", sends |-> "request", packet |-> 0,
     pieces |-> <<>>, got |-> 0, more |-> FALSE,
     left |-> c.size, seg |-> 0, final |-> TRUE, heard |-> "nothing"]

FoeRequest(j) ==
    [kind |-> IF j.sends = "request" THEN j.call.op ELSE j.sends, index |-> j.call.index, n |-> j.n,
     packet |-> j.packet, len |-> j.seg, size |-> j.call.size]

\* Mutant: any packet is taken.
IsNextAny(j, m) == m.len >= 0
IsNext(j, m) == m.packet = j.packet + 1

ReadAnswered(j, m) ==
    IF m.kind = "foe_data" THEN
        IF IsNext(j, m) /\ j.got + m.len <= j.call.room
          THEN ToSend([j EXCEPT !.sends = "foe_ack", !.packet = m.packet, !.got = @ + m.len,
                                !.pieces = Append(@, m.piece), !.more = (m.len = FoeMax)])
          ELSE ToEnd(j, "small")
    ELSE ToEnd(j, IF m.kind = "foe_error" THEN "refused" ELSE "unexpected")

\* Mutant: a file that ends with a full packet gets no empty one.
FinalNever(left, len) == FALSE
\* The end of the file is a packet that is not full, an empty one if need be.
FinalDue(left, len) == left = 0 /\ len = FoeMax

\* The next packet, if there is one: an empty file is one empty packet.
NextPacket(j) ==
    LET len == Lesser(j.left, FoeMax)
    IN  IF len > 0 \/ j.final
          THEN ToSend([j EXCEPT !.sends = "foe_data", !.packet = @ + 1, !.left = @ - len, !.seg = len,
                                !.final = FinalDue(j.left - len, len)])
          ELSE ToEnd(j, "ok")

\* A busy slave gets the packet again; one that was busy before the first packet is not waited
\* for, nor is an empty packet sent again.
WriteAnswered(before, m) ==
    LET j == [before EXCEPT !.heard = m.kind]
    IN  CASE m.kind = "foe_ack" ->
               IF m.packet = j.packet THEN NextPacket(j) ELSE ToEnd(j, "packetnumber")
          [] m.kind = "foe_busy" ->
               IF j.packet > 0 THEN NextPacket([j EXCEPT !.left = @ + j.seg, !.packet = @ - 1])
                               ELSE ToEnd(j, "ok")
          [] m.kind = "foe_error" -> ToEnd(j, "refused")
          [] OTHER -> ToEnd(j, "unexpected")

FoeAnswered(j, m) == IF j.call.op = "foe_read" THEN ReadAnswered(j, m) ELSE WriteAnswered(j, m)

\* The acknowledgement of the last packet is not answered.
FoeSent(j) == IF j.sends = "foe_ack" /\ ~j.more THEN ToEnd(j, "ok") ELSE ToReceive(j)

-----------------------------------------------------------------------------
(* External: the file server in the slave.                                  *)

Packet(k, i, from) ==
    LET to == Lesser(from + FoeMax - 1, ObjectSize(i))
    IN  [kind |-> "foe_data", packet |-> k, len |-> to - from + 1, piece |-> Piece(i, from, to)]
Ack(k) == [kind |-> "foe_ack", packet |-> k]
FoeBusy == [kind |-> "foe_busy"]
FoeError == [kind |-> "foe_error"]
Reading(k, i) == [op |-> "foe_read", index |-> i, packet |-> k]
Writing(k, i, got) == [op |-> "foe_write", index |-> i, packet |-> k, got |-> got]

SendPacket(k, i) == {Served(<<Packet(k, i, (k - 1) * FoeMax + 1)>>, Reading(k, i), store)}
LastOf(i) == ObjectSize(i) \div FoeMax + 1

ServeAck(r) ==
    IF server.op # "foe_read" \/ r.packet # server.packet THEN {Served(<<FoeError>>, NoTransfer, store)}
    ELSE IF r.packet = LastOf(server.index) THEN {Served(<<>>, NoTransfer, store)}
    ELSE SendPacket(r.packet + 1, server.index)

\* A packet after the one before it is stored, or refused for the moment.
ServeData(r) ==
    IF server.op # "foe_write" \/ r.packet # server.packet + 1
      THEN {Served(<<FoeError>>, NoTransfer, store)}
      ELSE LET got == server.got + r.len
           IN  {IF r.len = FoeMax THEN Served(<<Ack(r.packet)>>, Writing(r.packet, r.index, got), store)
                ELSE Served(<<Ack(r.packet)>>, NoTransfer,
                            IF got = r.size THEN Stored(r.index, r.n) ELSE store),
                Delayed(<<FoeBusy>>, server)}

ServeFoe(r) ==
    CASE r.kind = "foe_read" -> SendPacket(1, r.index)
      [] r.kind = "foe_ack" -> ServeAck(r)
      [] r.kind = "foe_write" -> {Served(<<Ack(0)>>, Writing(0, r.index, 0), store),
                                  Delayed(<<FoeBusy, Ack(0)>>, Writing(0, r.index, 0))}
      [] r.kind = "foe_data" -> ServeData(r)
=============================================================================
