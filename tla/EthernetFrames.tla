---------------------------- MODULE EthernetFrames ----------------------------
(***************************************************************************)
(* Ethernet over EtherCAT: the IP parameters of a slave (ecx_EOEsetIp,     *)
(* ecx_EOEgetIp), and Ethernet frames in fragments of whole blocks         *)
(* (ecx_EOEsend, ecx_EOErecv, and ecx_EOEreadfragment in an application's  *)
(* hook).  The first fragment says how long the frame is, the others where *)
(* they belong.                                                            *)
(***************************************************************************)
EXTENDS Mailbox, SequencesExt

CONSTANTS
    Block,      \* 32 bytes
    FieldSize   \* the parameters, in their order: <<name, bytes>>

ASSUME EthernetAssumption == Block \in Nat \ {0} /\ mbx_l - 10 >= Block

Fields == DOMAIN FieldSize
EoeMax == mbx_l - 10
Blocks(bytes) == (bytes + Block - 1) \div Block

\* fields is what is to be set.  Sending: the offset of the fragment and its number.
\* Receiving: the same of the fragment expected, the frame it belongs to and the bytes and
\* the pieces so far, at the end the size of the frame and if a time stamp came with it.
EoeBegin(c, n) ==
    {[call |-> c, n |-> n, result |-> "open", fields |-> fs, params |-> <<>>,
      fragno |-> 0, offset |-> 0, frameno |-> 0, pieces |-> <<>>, size |-> 0, stamped |-> FALSE] :
         fs \in IF c.op = "eoe_set" THEN SUBSET Fields ELSE {{}}}

-----------------------------------------------------------------------------
(* The parameters: flags say which are included, one after the other.       *)

Bytes(f) == [k \in 1 .. FieldSize[f][2] |-> <<FieldSize[f][1], k>>]
\* What setIp writes after the flags.
Packed(fields) == FlattenSeq([f \in Fields |-> IF f \in fields THEN Bytes(f) ELSE <<>>])

\* Mutant: the place of a parameter does not depend on those before it.
PlaceFixed(f, flags) == MapThenSumSet(LAMBDA g : FieldSize[g][2], {g \in Fields : g < f})
\* Where getIp finds a parameter.
Place(f, flags) == MapThenSumSet(LAMBDA g : FieldSize[g][2], {g \in flags : g < f})
PlaceEnd(f, flags) == Place(f, flags) + FieldSize[f][2]
Unpacked(flags, bytes) ==
    [f \in flags |-> SubSeq(bytes, Place(f, flags) + 1, Lesser(PlaceEnd(f, flags), Len(bytes)))]
\* Also a name that ends before its 32 bytes is taken for an error.
Complete(flags, bytes) == \A f \in flags : PlaceEnd(f, flags) <= Len(bytes)

ParamsAnswered(j, m) ==
    IF m.kind = "eoe_set" /\ j.call.op = "eoe_set" THEN ToEnd(j, "ok")
    ELSE IF m.kind = "eoe_get" /\ j.call.op = "eoe_get"
      THEN ToEnd([j EXCEPT !.params = Unpacked(m.flags, m.bytes)],
                 IF Complete(m.flags, m.bytes) THEN "ok" ELSE "mailbox")
    ELSE ToEnd(j, "unexpected")

-----------------------------------------------------------------------------
(* Sending a frame.  The number of the frame is left out.                   *)

Rest(j) == j.call.size - j.offset
\* All that fits, or as many whole blocks as fit.
FragmentLength(j) == IF Rest(j) <= EoeMax THEN Rest(j) ELSE (EoeMax \div Block) * Block
LastFragment(j) == FragmentLength(j) = Rest(j)

Fragment(j) ==
    [kind |-> "eoe_data", index |-> j.call.index, n |-> j.n, fragno |-> j.fragno, frameno |-> 0,
     blocks |-> IF j.fragno = 0 THEN Blocks(j.call.size) ELSE j.offset \div Block,
     len |-> FragmentLength(j), last |-> LastFragment(j)]

EoeRequest(j) ==
    CASE j.call.op = "eoe_set" ->
           [kind |-> "eoe_set", index |-> j.call.index, n |-> j.n, flags |-> j.fields, bytes |-> Packed(j.fields)]
      [] j.call.op = "eoe_get" -> [kind |-> "eoe_get"]
      [] j.call.op = "eoe_send" -> Fragment(j)

\* The next fragment follows as soon as the mailbox is empty; none is answered.
EoeSent(j) ==
    IF j.call.op # "eoe_send" THEN ToReceive(j)
    ELSE IF LastFragment(j) THEN ToEnd(j, "ok")
    ELSE ToSend([j EXCEPT !.offset = @ + FragmentLength(j), !.fragno = @ + 1])

-----------------------------------------------------------------------------
(* Receiving a frame.                                                       *)

\* The fragment after those before it.
Belongs(j, m) ==
    IF j.fragno = 0 THEN TRUE ELSE m.frameno = j.frameno /\ m.blocks * Block = j.offset

\* Data that does not fit is left out: a whole fragment, the time stamp after it included.
Joined(j, m, room) ==
    LET first == [j EXCEPT !.frameno = m.frameno]
    IN  IF j.offset + m.len <= room
          THEN [first EXCEPT !.offset = @ + m.len, !.fragno = @ + 1, !.pieces = Append(@, m.piece)]
          ELSE first
\* A time stamp after the frame is not part of it.  It is taken off also if the fragment that
\* it came with has been left out.
Stamp == 4
\* Mutant: the time stamp is left in the frame.
ClosedStamped(j, m) == [j EXCEPT !.size = j.offset, !.stamped = m.stamped]
Closed(j, m) ==
    [j EXCEPT !.size = IF m.stamped THEN j.offset - Stamp ELSE j.offset, !.stamped = m.stamped]

\* ecx_EOErecv
RecvAnswered(j, m) ==
    IF m.kind # "eoe_data" THEN ToEnd(j, "unexpected")
    ELSE IF \/ m.fragno # j.fragno /\ m.fragno > 0
            \/ j.fragno = 0 /\ m.blocks * Block > j.call.room
            \/ ~Belongs(j, m)
      THEN ToEnd(j, "invalid")
    ELSE LET taken == Joined(j, m, j.call.room)
         IN  IF m.last THEN ToEnd(Closed(taken, m), "ok") ELSE ToReceive(taken)

\* ecx_EOEreadfragment, in the hook of an application: what it keeps between the fragments
\* (rx), and the frame that is complete then, if one is.  It begins anew with every first
\* fragment.
NoFrame ==
    [fragno |-> 0, offset |-> 0, frameno |-> 0, pieces |-> <<>>, size |-> 0, stamped |-> FALSE]
ReadFragment(rx, m, room) ==
    LET old == IF m.fragno = rx.fragno THEN rx ELSE NoFrame
        taken == Joined(old, m, Lesser(room, IF m.fragno = 0 THEN m.blocks * Block ELSE old.size))
        sized == IF m.fragno = 0 THEN [taken EXCEPT !.size = m.blocks * Block] ELSE taken
    IN  IF m.fragno # old.fragno \/ ~Belongs(old, m) THEN [rx |-> NoFrame, frame |-> <<>>]
        ELSE IF m.last THEN [rx |-> NoFrame, frame |-> <<Closed(taken, m)>>]
        ELSE [rx |-> sized, frame |-> <<>>]

-----------------------------------------------------------------------------
(* External: the slave.                                                     *)

\* It has all parameters, or some, or sends a name that ends early.
ServeParams(r) ==
    IF r.kind = "eoe_set"
      THEN {Served(<<[kind |-> "eoe_set"]>>, server,
                   IF \A f \in r.flags : Unpacked(r.flags, r.bytes)[f] = Bytes(f)
                     THEN Stored(r.index, r.n) ELSE store)}
      ELSE {Served(<<[kind |-> "eoe_get", flags |-> fs, bytes |-> Packed(fs)]>>, server, store) :
               fs \in SUBSET Fields}
           \cup {Refused(<<[kind |-> "eoe_get", flags |-> Fields, bytes |-> Front(Packed(Fields))]>>)}

\* It takes the fragments of a frame one after the other.
ServeFragment(r) ==
    LET next == server.op = "eoe" /\ server.fragno = r.fragno
                 /\ server.got = r.blocks * Block
        got == (IF r.fragno = 0 THEN 0 ELSE server.got) + r.len
    IN  {IF r.fragno > 0 /\ ~next THEN Served(<<>>, NoTransfer, store)
         ELSE IF r.last
           THEN Served(<<>>, NoTransfer,
                       IF got = ObjectSize(r.index) THEN Stored(r.index, r.n) ELSE store)
         ELSE Served(<<>>, [op |-> "eoe", fragno |-> r.fragno + 1, got |-> got], store)}

ServeEoe(r) == IF r.kind = "eoe_data" THEN ServeFragment(r) ELSE ServeParams(r)

\* A frame that it sends, with or without a time stamp.
FragmentsOf(i, frameno, stamped) ==
    LET size == ObjectSize(i)
        width == (EoeMax \div Block) * Block
        total == size + (IF stamped THEN Stamp ELSE 0)
        count == IF total <= EoeMax THEN 1 ELSE (total - EoeMax + width - 1) \div width + 1
    IN  [k \in 1 .. count |->
            LET from == (k - 1) * width
                to == IF k = count THEN size ELSE k * width
                stamp == k = count /\ stamped
            IN  [kind |-> "eoe_data", fragno |-> k - 1, frameno |-> frameno, last |-> k = count,
                 blocks |-> IF k = 1 THEN Blocks(size) ELSE from \div Block,
                 len |-> to - from + (IF stamp THEN Stamp ELSE 0), stamped |-> stamp,
                 piece |-> Piece(i, from + 1, to)]]
SendEthernet(i, stamped) ==
    /\ faults < MaxFaults /\ faults' = faults + 1
    /\ answers' = answers \o FragmentsOf(i, faults', stamped)
    /\ UNCHANGED <<mbx_in, mbx_out, lastcnt, board, server, store, mbx_cnt, pc, last, stale, unsent>>
=============================================================================
