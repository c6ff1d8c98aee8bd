------------------------------ MODULE MCTasks ------------------------------
(* Boards for Tasks: the two configuration files of the repository and boards  *)
(* with the other tasks, with blocks that leave room for what a reset writes.  *)
(* And two slaves with a task of the same class, one of which has both of two  *)
(* motors enabled and the other only the second.                              *)
EXTENDS TaskMessages

F(pairs) == [n \in {p[1] : p \in pairs} |-> LET p == CHOOSE q \in pairs : q[1] = n IN <<p[2], p[3]>>]
Zero(names, w) == {<<<<0, n>>, w, 1>> : n \in names}
App(type, fields, wofs, lostWrite, lostRead) ==
    [type |-> type, args |-> F(fields), wofs |-> wofs,
     lostWrite |-> lostWrite, lostRead |-> lostRead,
     scale |-> [p |-> 3, v |-> 30, t |-> 10, kp |-> 500, kd |-> 5]]

Sbus == App(SBUS_RC, {}, 0, 0, 1)
Imu == App(HIPNUC_IMU_CAN,
           Zero({"can_inst"}, 1) \cup Zero({"packet1_id", "packet2_id", "packet3_id"}, 4), 0, 0, 1)
Dshot(value, at, lost) ==
    App(DSHOT, Zero({"connection_lost_write_action", "dshot_id"}, 1)
               \cup {<<<<0, "init_value">>, 2, value>>}, at, lost, 0)
StaleDshot == App(DSHOT, {<<<<0, "dshot_id">>, 2, 1>>, <<<<0, "init_value">>, 2, 0>>}, 0, 0, 0)

\* DJI motors, the ones in ids, with the control type of each.
Pid(k, loop) == {<<<<k, n>>, 4, 7>> : n \in
    {loop \o "_pid_kp", loop \o "_pid_ki", loop \o "_pid_kd", loop \o "_pid_max_out", loop \o "_pid_max_iout"}}
Dji(ids, at, lost) ==
    App(DJICAN, Zero({"connection_lost_write_action", "control_period", "can_inst"}, 1)
                \cup Zero({"can_packet_id"}, 4)
                \cup {<<<<k, "can_id">>, 4, IF k \in ids THEN 512 + k ELSE 0>> : k \in 1 .. 4}
                \cup {<<<<k, "control_type">>, 1, k>> : k \in ids}
                \cup UNION {Pid(k, "speed") \cup Pid(k, "angle") : k \in ids}, at, lost, 2)
Lk(mode, at, lost) ==
    App(LK, Zero({"connection_lost_write_action", "control_period", "can_inst"}, 1)
            \cup {<<<<0, "control_type">>, 1, mode>>} \cup Zero({"can_packet_id"}, 4), at, lost, 1)
Dm(mode, at, lost) ==
    App(DM_MOTOR, Zero({"connection_lost_write_action", "control_period", "can_inst"}, 1)
            \cup {<<<<0, "control_type">>, 1, mode>>} \cup Zero({"can_id", "master_id"}, 4),
        at, lost, 2)
Cap(at, lost) ==
    App(SUPER_CAP, Zero({"connection_lost_write_action", "can_inst"}, 1)
            \cup Zero({"chassis_to_cap_id", "cap_to_chassis_id"}, 4), at, lost, 1)
Pwm(value, at, lost) ==
    App(ONBOARD_PWM, Zero({"connection_lost_write_action", "port_id"}, 1)
            \cup {<<<<0, "pwm_period">>, 2, 20000>>, <<<<0, "init_value">>, 2, value>>}, at, lost, 0)
Dbus == App(DJIRC, {}, 0, 0, 2)

\* The messages of each task, and two reports.
MCMessages(a) ==
    CASE a.type = DJICAN -> {<<1, -2, 1, 300, 0, -30000, 1, 9>>, <<0, 5, 1, -1, 1, 258, 0, 0>>}
      [] a.type = LK -> CASE ArgValue(a, "control_type") = 8 -> {<<-2000, 2000, 1, -1>>, <<256, 0, 0, 0>>}
                          [] ArgValue(a, "control_type") = 3 -> {<<1, -2048, -70000>>, <<1, 300, 65536>>}
                          [] OTHER -> {<<1, 1, -300, 36000>>, <<0, 0, 7, 0>>}
      [] a.type = DM_MOTOR /\ ArgValue(a, "control_type") = 1 ->
            {<<1, -3, 30, 500, 5, -10>>, <<1, 1, -7, 33, 2, 10>>, <<0, 0, 0, 0, 0, 0>>}
      [] a.type = DM_MOTOR /\ ArgValue(a, "control_type") # 1 ->
            {<<1, 1078530011, -1054867456>>, <<0, 0, 0>>}
      [] a.type = SUPER_CAP -> {<<1, 1, 250, 80>>, <<0, 1, 0, 0>>}
      [] a.type = DSHOT -> {<<48, 2047, 0, 300>>, <<1, 2, 3, 4>>}
      [] a.type = ONBOARD_PWM -> {<<1500, 1000, 2000, 1100>>, <<65535, 0, 1, 256>>}
      [] OTHER -> {}

\* All channels at rest but one, at its extremes; and one that is off line.
One(n, k, v, base) == [j \in 1 .. n |-> IF j = k THEN v ELSE base]
MCReports(a) ==
    CASE a.type = SBUS_RC ->
            {One(16, k, v, 1024) \o <<k % 2, 0, 1, 0, 0, 1>> : k \in 1 .. 16, v \in {2047}}
            \cup {One(16, 1, 0, 1365) \o <<0, 1, 0, 1, 0, 9>>}
            \cup {One(16, 1, 5, 0) \o <<0, 0, 1, 1, 0, 0>>}
      [] a.type = DJIRC ->
            {One(4, k, v, 1024) \o <<1, 3, -5, 300, 0, 1, 0>> \o One(16, 4 * k, 1, 0) \o <<1684, 1>> :
                <<k, v>> \in {<<1, 364>>, <<2, 1684>>, <<3, 1029>>, <<4, 1030>>}}
            \cup {One(29, 1, 0, 0)}
      [] a.type = DJICAN ->
            {FlattenSeq([k \in 1 .. Cardinality(MotorsEnabled(a)) |-> <<1, 8191, s * (400 + k), s, 60, k>>]) :
                s \in {1, -1}}
      [] a.type = LK /\ Broadcast(a) ->
            {Times(4, <<1, s * 1000, -s, 65535, 40>>) : s \in {1, -1}}
      [] a.type = LK /\ ~Broadcast(a) -> {<<1, 1, e, 3, -33 * e, 5, 40000, 80>> : e \in {0, 1}}
      [] a.type = DM_MOTOR -> {<<1, s, 127, 255, 200, s % 5, 9, 17, 30, 40, 1>> : s \in 0 .. 15}
      [] a.type = SUPER_CAP -> {<<1, 1, 255, 90, 200, 24, 7>>, <<0, 0, 0, 0, 0, 0, 0>>}
      [] a.type = HIPNUC_IMU_CAN -> {[k \in 1 .. 10 |-> s * (1000 + k)] : s \in {1, -1}}
      [] OTHER -> {<<>>}

MCEnabled == << {1, 2}, {2} >>

Board(sdo_len, as, reports) ==
    [sdo_len |-> sdo_len, apps |-> as, messages |-> [i \in DOMAIN as |-> MCMessages(as[i])],
     reports |-> [i \in DOMAIN as |-> reports[i]]]
Few(as) == [i \in DOMAIN as |-> LET r == CHOOSE q \in MCReports(as[i]) : TRUE
                                IN  {r, CHOOSE q \in MCReports(as[i]) : q # r \/ q = <<>>}]
All(as) == [i \in DOMAIN as |-> MCReports(as[i])]

\* soem_bringup/config/config.yaml, and the older soem_wrapper/config/config.yaml.
BringupApps == <<Sbus, Imu, Dshot(0, 0, 1)>>
Bringup == Board(21, BringupApps, Few(BringupApps))
Stale == Board(6, <<StaleDshot>>, Few(<<StaleDshot>>))
\* Boards of actuators: every report of theirs is one of two.
ActuatorBoard(len, as) == Board(len, as, [i \in DOMAIN as |-> {CHOOSE r \in MCReports(as[i]) : TRUE}])
Motors == ActuatorBoard(121, <<Dji({1, 3}, 0, 2), Dji({2}, 12, 1), Lk(3, 24, 2)>>)
Mit == ActuatorBoard(32, <<Dm(1, 0, 1), Pwm(1000, 9, 2), Cap(17, 2)>>)
Floats == ActuatorBoard(28, <<Dm(2, 0, 2), Lk(7, 9, 1), Lk(8, 17, 2)>>)
\* Boards of sensors and feedback, for the reads alone.
ReadBoard(len, as) == [Board(len, as, All(as)) EXCEPT !.messages = [i \in DOMAIN as |-> {}]]
Remote1 == ReadBoard(2, <<Sbus>>)
Remote2 == ReadBoard(2, <<Dbus>>)
Feedback == ReadBoard(112, <<Dji({1, 3}, 0, 2), Dji({2}, 12, 1)>>)
Feedback2 == ReadBoard(14, <<Dm(1, 0, 1)>>)
Feedback3 == ReadBoard(40, <<Cap(9, 1), Lk(3, 13, 2), Lk(8, 20, 1), Imu>>)
Empty == Board(1, <<>>, <<>>)
MCBoards == {Bringup, Stale, Motors, Mit, Floats, Remote1, Remote2, Feedback, Feedback2, Feedback3, Empty}
=============================================================================
