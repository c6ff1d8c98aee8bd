---------------------------- MODULE TaskReports ----------------------------
(***************************************************************************)
(* How the tasks turn the bytes of a slave into messages: read() and       *)
(* publish_empty_message() of every task of soem_wrapper/src/tasks.  A     *)
(* message is the sequence of its fields, without the stamp; a quantity    *)
(* scaled by a constant is kept as the integer it is scaled from.  The     *)
(* message object of a class is static, so read() starts from what the     *)
(* last task of the class left in it: the operand old.                     *)
(***************************************************************************)
EXTENDS TaskBytes

Part(block, from, n) == SubSeq(block, from + 1, from + n)

-----------------------------------------------------------------------------
\* Remote controls.  A channel is 11 bits of two or three bytes, each shifted
\* right by its number or, when that is negative, left.
ChannelTerms ==
    << << <<0, 0>>, <<1, -8>> >>,            << <<1, 3>>, <<2, -5>> >>,
       << <<2, 6>>, <<3, -2>>, <<4, -10>> >>, << <<4, 1>>, <<5, -7>> >>,
       << <<5, 4>>, <<6, -4>> >>,            << <<6, 7>>, <<7, -1>>, <<8, -9>> >>,
       << <<8, 2>>, <<9, -6>> >>,            << <<9, 5>>, <<10, -3>> >> >>
Channel(block, c) ==
    LET byte(t) == block[t[1] + 11 * (c \div 8) + 1]
        shifted(t) == IF t[2] >= 0 THEN byte(t) \div 2 ^ t[2] ELSE byte(t) * 2 ^ (-t[2])
    IN  FoldLeft(LAMBDA sum, t : sum + shifted(t), 0, ChannelTerms[(c % 8) + 1]) % 2048
SbusRead(old, block) ==
    IF block[24] # 0
      THEN <<1>> \o [c \in 1 .. 16 |-> Channel(block, c - 1)]
                 \o [k \in 1 .. 4 |-> Bit(block[23], k - 1)]
      ELSE [old EXCEPT ![1] = 0]

\* In units of 1/660, with a dead band of 5 around the middle.
GetPercentage(raw) == IF raw - 1024 \in -5 .. 5 THEN 0 ELSE raw - 1024
DbusRead(old, block) ==
    IF block[19] # 0
      THEN <<1>> \o [c \in 1 .. 4 |-> GetPercentage(Channel(block, c - 1))]
                 \o <<GetPercentage(ReadUint(block, 16, 2) % 2048),
                      (block[6] \div 16) % 4, block[6] \div 64,
                      ReadInt(block, 6), ReadInt(block, 8), block[13], block[14]>>
                 \o [k \in 1 .. 16 |-> Bit(ReadUint(block, 14, 2), k - 1)]
      ELSE [old EXCEPT ![1] = 0]

-----------------------------------------------------------------------------
\* Motors.  The blocks of the enabled DJI motors follow each other; the fields
\* of the others are zeroed, for the object is shared.
DjiRead(a, old, block) ==
    LET nth(k) == Cardinality({j \in MotorsEnabled(a) : j < k})
        motor(o) == <<block[o + 1], ReadUint(block, o + 1, 2), ReadInt(block, o + 3),
                      ReadInt(block, o + 5), block[o + 8], block[o + 9]>>
    IN  FlattenSeq([k \in 1 .. 4 |-> IF k \in MotorsEnabled(a)
                                       THEN motor(9 * nth(k)) ELSE Zeros(6)])
LkRead(a, block) ==
    LET rest(o) == <<ReadInt(block, o), ReadInt(block, o + 2),
                     ReadUint(block, o + 4, 2), block[o + 7]>>
    IN  IF Broadcast(a)
          THEN FlattenSeq([k \in 1 .. 4 |-> <<block[8 * (k - 1) + 1]>> \o rest(8 * (k - 1) + 1)])
          ELSE <<Bit(block[1], 0), Bit(block[1], 2)>> \o rest(1)

\* uint_to_float, in units of 1 / (2^bits - 1).
UintToFloat(x, min, max, bits) == x * (max - min) + min * (2 ^ bits - 1)
DmStates == <<0, 1, 8, 9, 10, 11, 12, 13, 14>>
DmRead(a, block) ==
    <<block[9]>>
    \o [k \in 1 .. 9 |-> IF block[1] \div 16 = DmStates[k] THEN 1 ELSE 0]
    \o <<UintToFloat(256 * block[2] + block[3], -a.scale.p, a.scale.p, 16),
         UintToFloat(16 * block[4] + block[5] \div 16, -a.scale.v, a.scale.v, 12),
         UintToFloat(256 * (block[5] % 16) + block[6], -a.scale.t, a.scale.t, 12),
         block[7], block[8]>>

CapRead(block) == Part(block, 0, 7)
ImuRead(block) == [k \in 1 .. 10 |-> ReadInt(block, 2 * (k - 1))]

-----------------------------------------------------------------------------
TaskRead(a, old, block) ==
    CASE a.type = DJIRC -> DbusRead(old, block)
      [] a.type = SBUS_RC -> SbusRead(old, block)
      [] a.type = DJICAN -> DjiRead(a, old, block)
      [] a.type = LK -> LkRead(a, block)
      [] a.type = DM_MOTOR -> DmRead(a, block)
      [] a.type = SUPER_CAP -> CapRead(block)
      [] a.type = HIPNUC_IMU_CAN -> ImuRead(block)

\* publish_empty_message: zeros, but the unit quaternion of an IMU.
DbusEmpty == Zeros(28)
SbusEmpty == Zeros(21)
DjiEmpty == Zeros(24)
LkEmpty(a) == IF Broadcast(a) THEN Zeros(20) ELSE Zeros(6)
DmEmpty == Zeros(15)
CapEmpty == Zeros(7)
ImuEmpty == [Zeros(10) EXCEPT ![1] = 10000]
EmptyMessage(a) ==
    CASE a.type = DJIRC -> DbusEmpty
      [] a.type = SBUS_RC -> SbusEmpty
      [] a.type = DJICAN -> DjiEmpty
      [] a.type = LK -> LkEmpty(a)
      [] a.type = DM_MOTOR -> DmEmpty
      [] a.type = SUPER_CAP -> CapEmpty
      [] a.type = HIPNUC_IMU_CAN -> ImuEmpty
=============================================================================
