----------------------------- MODULE TaskBytes -----------------------------
(***************************************************************************)
(* What the tasks of a slave put into bytes and read from bytes            *)
(* (soem_wrapper/src/tasks, src/utils/io_utils.cpp): the layout of the     *)
(* arguments, of the commands, of the values a reset writes and of the     *)
(* reports.  A configured task, an App, is a record:                       *)
(*   type     its sdowrite_task_type                                       *)
(*   args     the fields of its configuration, <<motor or 0, name>> to     *)
(*            <<width, value>>; the width is that of the field's YAML tag  *)
(*   wofs      pdowrite_offset                                             *)
(*   lostWrite, lostRead    the actions on a loss (2 resets)               *)
(*   scale    the limits p, v and t of a DM motor, in a unit that makes    *)
(*            every value of its messages an integer                       *)
(* A message is the sequence of its fields in the order of its definition; *)
(* a float32 that is only copied is the number its four bytes spell.       *)
(***************************************************************************)
EXTENDS Integers, Sequences, SequencesExt

Byte == 0 .. 255
DJIRC == 1
LK == 2
HIPNUC_IMU_CAN == 3
DSHOT == 4
DJICAN == 5
ONBOARD_PWM == 6
SBUS_RC == 11
DM_MOTOR == 12
SUPER_CAP == 13
Known == {DJIRC, LK, HIPNUC_IMU_CAN, DSHOT, DJICAN, ONBOARD_PWM, SBUS_RC, DM_MOTOR, SUPER_CAP}

ArgValue(a, name) == a.args[<<0, name>>][2]
MotorsEnabled(a) == {k \in 1 .. 4 : a.args[<<k, "can_id">>][2] > 0}
Broadcast(a) == a.type = LK /\ ArgValue(a, "control_type") = 8
HasPublishers(a) == a.type \notin {DSHOT, ONBOARD_PWM}
HasSubscribers(a) == a.type \notin {DJIRC, SBUS_RC, HIPNUC_IMU_CAN}

-----------------------------------------------------------------------------
\* Little-endian integers; \div and % make the two's complement of a negative one.
WriteInt(v, width) == [k \in 1 .. width |-> (v \div 256 ^ (k - 1)) % 256]
WriteInts(m, widths) == FlattenSeq([k \in 1 .. Len(widths) |-> WriteInt(m[k], widths[k])])

ReadUint(block, o, width) ==
    block[o + 1] + (IF width = 1 THEN 0 ELSE 256 * block[o + 2])
\* An int16.
ReadInt(block, o) == LET u == ReadUint(block, o, 2) IN IF u >= 32768 THEN u - 65536 ELSE u

-----------------------------------------------------------------------------
\* The arguments.  build_buf writes each named field with the width of its tag.
Named(names) == [k \in 1 .. Len(names) |-> <<0, names[k]>>]

MotorArgNames(a, k) ==
    LET pid(loop) == [j \in 1 .. 5 |-> <<k, loop[j]>>]
        speed == pid(<<"speed_pid_kp", "speed_pid_ki", "speed_pid_kd",
                       "speed_pid_max_out", "speed_pid_max_iout">>)
        angle == pid(<<"angle_pid_kp", "angle_pid_ki", "angle_pid_kd",
                       "angle_pid_max_out", "angle_pid_max_iout">>)
        type == a.args[<<k, "control_type">>][2]
    IN  CASE k \notin MotorsEnabled(a) \/ type \notin 1 .. 3 -> <<>>
          [] type = 1 -> << <<k, "control_type">> >>
          [] type = 2 -> << <<k, "control_type">> >> \o speed
          [] type = 3 -> << <<k, "control_type">> >> \o speed \o angle

DjiArgNames(a) ==
       Named(<<"connection_lost_write_action", "control_period", "can_packet_id">>)
    \o [k \in 1 .. 4 |-> <<k, "can_id">>] \o Named(<<"can_inst">>)
    \o FlattenSeq([k \in 1 .. 4 |-> MotorArgNames(a, k)])
LkArgNames(a) ==
    Named(<<"connection_lost_write_action", "control_period", "control_type">>
          \o (IF Broadcast(a) THEN <<>> ELSE <<"can_packet_id">>) \o <<"can_inst">>)
DmArgNames == Named(<<"connection_lost_write_action", "control_period", "can_id",
                      "master_id", "can_inst", "control_type">>)
CapArgNames == Named(<<"connection_lost_write_action", "can_inst",
                       "chassis_to_cap_id", "cap_to_chassis_id">>)
\* Mutant: a field less than the slave reads.
DshotArgNamesShort == Named(<<"dshot_id", "init_value">>)
DshotArgNames == Named(<<"connection_lost_write_action", "dshot_id", "init_value">>)
PwmArgNames == Named(<<"connection_lost_write_action", "port_id", "pwm_period", "init_value">>)
ImuArgNames == Named(<<"can_inst", "packet1_id", "packet2_id", "packet3_id">>)

ArgNames(a) ==
    CASE a.type = DJICAN -> DjiArgNames(a)
      [] a.type = LK -> LkArgNames(a)
      [] a.type = DM_MOTOR -> DmArgNames
      [] a.type = SUPER_CAP -> CapArgNames
      [] a.type = DSHOT -> DshotArgNames
      [] a.type = ONBOARD_PWM -> PwmArgNames
      [] a.type = HIPNUC_IMU_CAN -> ImuArgNames
      [] a.type \in {DJIRC, SBUS_RC} -> <<>>

\* get() of a name that is not in the configuration throws.
HasArgs(a) == \A k \in DOMAIN ArgNames(a) : ArgNames(a)[k] \in DOMAIN a.args
BuildBuf(a) ==
    FlattenSeq([k \in DOMAIN ArgNames(a) |->
                  LET field == a.args[ArgNames(a)[k]] IN WriteInt(field[2], field[1])])
\* What init_task_list and the tasks' init_sdo write into arg_buf_.
ArgBytes(apps) ==
    <<Len(apps)>> \o FlattenSeq([i \in DOMAIN apps |-> <<apps[i].type>> \o BuildBuf(apps[i])])

-----------------------------------------------------------------------------
\* The commands.  float_to_uint, truncated towards zero as the cast does.
FloatToUint(x, min, max, bits) ==
    LET n == (x - min) * (2 ^ bits - 1) IN
    IF n >= 0 THEN n \div (max - min) ELSE -((-n) \div (max - min))

\* on_command_mit_control packs 16 + 12 + 12 + 12 + 12 bits; each value is first
\* an uint16_t, so what exceeds its bits runs into the byte of its neighbour.
Bit(v, k) == (v \div 2 ^ k) % 2
Or(x, y) == MapThenSumSet(LAMBDA k : IF Bit(x, k) + Bit(y, k) > 0 THEN 2 ^ k ELSE 0, 0 .. 7)
MitBytes(a, m) ==
    LET u(k, min, max, bits) == FloatToUint(m[k], min, max, bits) % 65536
        pos == u(2, -a.scale.p, a.scale.p, 16)
        vel == u(3, -a.scale.v, a.scale.v, 12)
        kp  == u(4, 0, a.scale.kp, 12)
        kd  == u(5, 0, a.scale.kd, 12)
        tor == u(6, -a.scale.t, a.scale.t, 12)
    IN  << pos \div 256, pos % 256, (vel \div 16) % 256,
           Or((vel % 16) * 16, kp \div 256), kp % 256, (kd \div 16) % 256,
           Or((kd % 16) * 16, tor \div 256), tor % 256 >>

\* The widths of the fields of a command, enable first where there is one.
LkWidths(mode) ==
    << <<1, 2>>, <<1, 2>>, <<1, 2, 4>>, <<1, 4>>, <<1, 2, 4>>, <<1, 1, 4>>,
       <<1, 1, 2, 4>>, <<2, 2, 2, 2>> >>[mode]
DmWidths(mode) == IF mode = 2 THEN <<1, 4, 4>> ELSE <<1, 4>>
\* Mutant: a place for each motor, enabled or not.
DjiCommandAll(a, m) == WriteInts(m, <<1, 2, 1, 2, 1, 2, 1, 2>>)
DjiCommand(a, m) ==
    FlattenSeq([k \in 1 .. 4 |-> IF k \in MotorsEnabled(a)
                                   THEN WriteInts(SubSeq(m, 2 * k - 1, 2 * k), <<1, 2>>)
                                   ELSE <<>>])
DmCommand(a, m) ==
    IF ArgValue(a, "control_type") = 1
      THEN WriteInt(m[1], 1) \o MitBytes(a, m)
      ELSE WriteInts(m, DmWidths(ArgValue(a, "control_type")))
LkCommand(a, m) == WriteInts(m, LkWidths(ArgValue(a, "control_type")))
CapCommand(m) == WriteInts(m, <<1, 1, 1, 1>>)
DshotCommand(m) == WriteInts(m, <<2, 2, 2, 2>>)
PwmCommand(m) == WriteInts(m, <<2, 2, 2, 2>>)
CommandBytes(a, m) ==
    CASE a.type = DJICAN -> DjiCommand(a, m)
      [] a.type = LK -> LkCommand(a, m)
      [] a.type = DM_MOTOR -> DmCommand(a, m)
      [] a.type = SUPER_CAP -> CapCommand(m)
      [] a.type = DSHOT -> DshotCommand(m)
      [] a.type = ONBOARD_PWM -> PwmCommand(m)

\* init_value of each task.
Zeros(n) == [k \in 1 .. n |-> 0]
DjiInit == Zeros(12)
\* Mutant: a broadcast is reset as a single motor is, by its first byte.
LkInitFirst(a) == Zeros(1)
LkInit(a) == IF Broadcast(a) THEN Zeros(8) ELSE Zeros(1)
DmInit == Zeros(1)
CapInit == Zeros(4)
FourTimes(v) == WriteInts(<<v, v, v, v>>, <<2, 2, 2, 2>>)
DshotInit(a) == FourTimes(ArgValue(a, "init_value"))
PwmInit(a) == FourTimes(ArgValue(a, "init_value"))
InitBytes(a) ==
    CASE a.type = DJICAN -> DjiInit
      [] a.type = LK -> LkInit(a)
      [] a.type = DM_MOTOR -> DmInit
      [] a.type = SUPER_CAP -> CapInit
      [] a.type = DSHOT -> DshotInit(a)
      [] a.type = ONBOARD_PWM -> PwmInit(a)
      [] OTHER -> <<>>
=============================================================================
