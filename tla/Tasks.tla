------------------------------- MODULE Tasks -------------------------------
(***************************************************************************)
(* The task list of one slave (soem_wrapper/src/soem_backend.cpp and       *)
(* src/tasks): init_task_list reads the configuration and fills the        *)
(* argument buffer; then the commands of the applications, the resets and  *)
(* the recovery write the command buffer, and process_pdo publishes what   *)
(* the tasks read.  All of these hold the slave's mutex, so each is one    *)
(* step; the reset on exit, which does not, is in PdoCycle.  The link      *)
(* itself is in SlaveLink: here it is only up or lost.  A message object   *)
(* that tasks of several slaves use at a time is in SharedReport.          *)
(***************************************************************************)
EXTENDS TaskReports

CONSTANTS
    Boards,    \* the configurations considered, each with the messages that may
               \* come for a task and the reports the slave may make for it:
               \* [sdo_len, apps, messages, reports]
    M2SLen,    \* master_to_slave_buf_len_
    ArgBound   \* only the first arguments are sent: ArgTransfer has them all

\* What may be written for task i of a board, and the blocks it takes.  The code
\* checks neither that a block fits nor that two are apart: the tool that writes the
\* configuration does.
Writes(bd, i) ==
    {InitBytes(bd.apps[i])} \cup {CommandBytes(bd.apps[i], m) : m \in bd.messages[i]}
ASSUME BlocksApart ==
    /\ M2SLen \in Nat
    /\ \A bd \in Boards : DOMAIN bd.apps \subseteq Nat
    /\ \A bd \in Boards : \A i \in DOMAIN bd.apps : \A x \in Writes(bd, i) :
          /\ x \in Seq(Byte)
          /\ bd.apps[i].wofs \in Nat
          /\ bd.apps[i].wofs + Len(x) <= M2SLen
          /\ \A j \in DOMAIN bd.apps \ {i} : \A y \in Writes(bd, j) :
                bd.apps[i].wofs + Len(x) <= bd.apps[j].wofs
                    \/ bd.apps[j].wofs + Len(y) <= bd.apps[i].wofs

VARIABLES
    board,    \* the configuration in use
    phase,    \* "start", "args" ("again" after a restart), "ready", "lost"; "cut off" when
              \* it was lost during the transfer and "resumed" when the transfer then
              \* goes on; or how init_task_list failed
    args,     \* arg_buf_ as init_task_list filled it
    buf,      \* master_to_slave_buf_
    backup,   \* master_to_slave_buf_backup_, <<>> before the first loss
    shared,   \* class -> its static message object
    given,    \* app -> what was last written for it: none, init or a message
    saved,    \* given, when the backup was taken
    report,   \* app -> what the slave reports for it, in slave_to_master_buf_
    out       \* app -> <<the report it is made of, the last message published>>
vars == <<board, phase, args, buf, backup, shared, given, saved, report, out>>

none == <<"none">>
init == <<"init">>
command(m) == <<"command", m>>

apps == board.apps
Apps == DOMAIN apps
\* LK keeps one object for each of its two messages.
Class(a) == <<a.type, Broadcast(a)>>

-----------------------------------------------------------------------------
\* Writing into a buffer, at the offset of a task.
Put(b, at, bytes) ==
    [k \in DOMAIN b |-> IF k - at \in DOMAIN bytes THEN bytes[k - at] ELSE b[k]]
Command(b, a, m) == Put(b, a.wofs, CommandBytes(a, m))
\* init_value of the tasks in S, in the order of the list: a byte is the one that the
\* last of them writes.
InitValues(b, S) ==
    [k \in DOMAIN b |->
       LET writers == {i \in S : k - apps[i].wofs \in DOMAIN InitBytes(apps[i])}
           last == CHOOSE i \in writers : \A j \in writers : j <= i
       IN  IF writers = {} THEN b[k] ELSE InitBytes(apps[last])[k - apps[last].wofs]]

\* memset, then init_value of each task that has subscribers.
WriteInitValues == InitValues(Zeros(M2SLen), {i \in Apps : HasSubscribers(apps[i])})
ResetOnLoss(a) == a.lostWrite = 2

\* The static object before its first use.
Blank(i) == [EmptyMessage(apps[i]) EXCEPT ![1] = 0]

-----------------------------------------------------------------------------
Init ==
    /\ board \in Boards
    /\ phase = "start"
    /\ args = <<>>
    /\ buf = Zeros(M2SLen)
    /\ backup = <<>>
    /\ shared = [c \in {Class(apps[i]) : i \in {j \in Apps : HasPublishers(apps[j])}} |->
                   Blank(CHOOSE i \in Apps : Class(apps[i]) = c)]
    /\ given = [i \in Apps |-> none]
    /\ saved = given
    /\ report = [i \in Apps |-> IF HasPublishers(apps[i])
                                 THEN CHOOSE r \in board.reports[i] : TRUE ELSE <<>>]
    /\ out = [i \in Apps |-> <<>>]

\* init_task_list: no task is refused, a type without a class leaves the pointer
\* null and it is used, a missing field throws out of setup_ecat.
InitTaskList ==
    /\ phase = "start"
    /\ LET broken == {i \in Apps : apps[i].type \notin Known \/ ~HasArgs(apps[i])}
           first == CHOOSE i \in broken : \A j \in broken : i <= j
       IN  \/ /\ Apps = {}
              /\ phase' = "refused"
              /\ UNCHANGED args
           \/ /\ Apps # {}
              /\ broken # {}
              /\ phase' = IF apps[first].type \in Known THEN "thrown" ELSE "null task"
              /\ UNCHANGED args
           \/ /\ Apps # {}
              /\ broken = {}
              /\ phase' = "args"
              /\ args' = ArgBytes(apps)
    /\ UNCHANGED <<board, buf, backup, shared, given, saved, report, out>>

\* The phases after a set-up that worked.
Running == {"args", "again", "resumed", "ready", "lost", "cut off"}

\* send_arg writes the number and the value of an argument into bytes 0 to 2.
SendArg ==
    /\ phase \in {"args", "again", "resumed"}
    /\ \E i \in DOMAIN args \cap 1 .. ArgBound :
          buf' = Put(buf, 0, <<i % 256, (i \div 256) % 256, args[i]>>)
    /\ given' = [i \in Apps |-> none]
    /\ UNCHANGED <<board, phase, args, backup, shared, saved, report, out>>

\* Mutant: the buffer is restored after the first transfer as well.
ArgsDoneRecovers ==
    /\ phase \in {"args", "again"}
    /\ phase' = "ready"
    /\ buf' = backup
    /\ given' = saved
    /\ UNCHANGED <<board, args, backup, shared, saved, report, out>>
\* The slave answered every argument: the first time the buffer is set to the
\* initial values, after a reconnection to the backup.  A slave that was found again during
\* the transfer already counts as ready, so its buffer stays as it is.
ArgsDone ==
    /\ phase \in {"args", "again", "resumed"}
    /\ phase' = "ready"
    /\ \/ phase = "args" /\ buf' = WriteInitValues /\ given' = [i \in Apps |-> init]
       \/ phase = "again" /\ buf' = backup /\ given' = saved
       \/ phase = "resumed" /\ UNCHANGED <<buf, given>>
    /\ UNCHANGED <<board, args, backup, shared, saved, report, out>>

\* on_command, in the executor.
OnCommand(i) ==
    /\ phase \in Running
    /\ HasSubscribers(apps[i])
    /\ \E m \in board.messages[i] :
          /\ buf' = Command(buf, apps[i], m)
          /\ given' = [given EXCEPT ![i] = command(m)]
    /\ UNCHANGED <<board, phase, args, backup, shared, saved, report, out>>

\* Mutant: the backup is taken before the reset.
BackupFirst ==
    /\ phase \in {"args", "again", "resumed", "ready"}
    /\ phase' = IF phase = "ready" THEN "lost" ELSE "cut off"
    /\ buf' = InitValues(buf, {i \in Apps : ResetOnLoss(apps[i])})
    /\ given' = [i \in Apps |-> IF ResetOnLoss(apps[i]) THEN init ELSE given[i]]
    /\ backup' = buf
    /\ saved' = given'
    /\ UNCHANGED <<board, args, shared, report, out>>
\* The checker finds the slave lost, while it works or while it is sent its arguments:
\* on_connection_lost, and then the backup, of whatever the buffer holds.
OnConnectionLost ==
    /\ phase \in {"args", "again", "resumed", "ready"}
    /\ phase' = IF phase = "ready" THEN "lost" ELSE "cut off"
    /\ buf' = InitValues(buf, {i \in Apps : ResetOnLoss(apps[i])})
    /\ given' = [i \in Apps |-> IF ResetOnLoss(apps[i]) THEN init ELSE given[i]]
    /\ backup' = buf'
    /\ saved' = given'
    /\ LET cleared == {i \in Apps : apps[i].lostRead = 2 /\ HasPublishers(apps[i])}
       IN  /\ shared' = [c \in DOMAIN shared |->
                          IF \E i \in cleared : Class(apps[i]) = c
                            THEN EmptyMessage(apps[CHOOSE i \in cleared : Class(apps[i]) = c])
                            ELSE shared[c]]
           /\ out' = [i \in Apps |-> IF i \in cleared THEN <<<<>>, EmptyMessage(apps[i])>>
                                                      ELSE out[i]]
    /\ UNCHANGED <<board, args, report>>

\* The slave is back: after a restart that needs arguments, or still configured.
Back ==
    /\ phase \in {"lost", "cut off"}
    /\ phase' \in {"again", IF phase = "lost" THEN "ready" ELSE "resumed"}
    /\ UNCHANGED <<board, args, buf, backup, shared, given, saved, report, out>>

-----------------------------------------------------------------------------
\* The bytes of a report: the slave packs its fields, low bit first.
Pack(fields, widths) ==
    LET bits == FlattenSeq([f \in DOMAIN widths |->
                              [j \in 1 .. widths[f] |-> Bit(fields[f], j - 1)]])
    IN  [k \in 1 .. Len(bits) \div 8 |->
           MapThenSumSet(LAMBDA j : bits[8 * (k - 1) + j] * 2 ^ (j - 1), 1 .. 8)]
Times(n, s) == FlattenSeq([k \in 1 .. n |-> s])
WireWidths(a) ==
    CASE a.type = SBUS_RC -> Times(16, <<11>>) \o <<1, 1, 1, 1, 4, 8>>
      [] a.type = DJIRC -> Times(4, <<11>>) \o <<2, 2, 16, 16, 16, 8, 8>> \o Times(16, <<1>>)
                           \o <<16, 8>>
      [] a.type = DJICAN -> Times(Cardinality(MotorsEnabled(a)), <<8, 16, 16, 16, 8, 8>>)
      [] a.type = LK -> IF Broadcast(a) THEN Times(4, <<8, 16, 16, 16, 8>>)
                                        ELSE <<1, 1, 1, 5, 16, 16, 16, 8>>
      [] a.type = DM_MOTOR -> <<4, 4, 8, 8, 8, 4, 4, 8, 8, 8, 8>>
      [] a.type = SUPER_CAP -> Times(7, <<8>>)
      [] a.type = HIPNUC_IMU_CAN -> Times(10, <<16>>)
Wire(a, r) == Pack(r, WireWidths(a))

\* A cycle whose answer is new: every publisher reads its block, in the order of
\* the list, and each read starts from the object its class shares.
ReadFrom(objects, i, blocks) ==
    LET a == apps[i]
    IN  [objects EXCEPT ![Class(a)] = TaskRead(a, @, Wire(a, blocks[i]))]
Publishers == SelectSeq([i \in Apps |-> i], LAMBDA i : HasPublishers(apps[i]))
AfterRead(i, blocks) ==
    FoldLeft(LAMBDA objects, j : ReadFrom(objects, j, blocks), shared,
             SelectSeq(Publishers, LAMBDA j : j <= i))
ProcessPdo ==
    /\ phase = "ready"
    /\ \E i \in Apps : \E r \in board.reports[i] : report' = [report EXCEPT ![i] = r]
    /\ shared' = AfterRead(Len(apps), report')
    /\ out' = [i \in Apps |-> IF HasPublishers(apps[i])
                                THEN <<report'[i], AfterRead(i, report')[Class(apps[i])]>>
                                ELSE <<>>]
    /\ UNCHANGED <<board, phase, args, buf, backup, given, saved>>

Next ==
    \/ InitTaskList \/ SendArg \/ ArgsDone \/ OnConnectionLost \/ Back \/ ProcessPdo
    \/ \E i \in Apps : OnCommand(i)
Spec == Init /\ [][Next]_vars

-----------------------------------------------------------------------------
TaskTypeOK ==
    /\ board \in Boards
    /\ phase \in Running \cup {"start", "refused", "thrown", "null task"}
    /\ buf \in [1 .. M2SLen -> Byte]
    /\ backup \in {<<>>} \cup [1 .. M2SLen -> Byte]
    /\ given \in [Apps -> {none, init} \cup UNION {{command(m) : m \in board.messages[i]} : i \in Apps}]

\* The argument buffer is exactly as long as the configuration says (sdo_len):
\* init_task_list copies into it without a check, and the slave counts the bytes.
ArgsFill == phase \in Running => Len(args) = board.sdo_len

\* What was last written for a task is what the buffer holds for it, whatever was
\* written for the others, reset on a loss, or restored after it.
GivenBytes(a, g) == IF g = init THEN InitBytes(a) ELSE CommandBytes(a, g[2])
Holds(b, a, bytes) == \A k \in DOMAIN bytes : b[a.wofs + k] = bytes[k]
KeepsItsOwn(b, g) == \A i \in Apps : g[i] # none => Holds(b, apps[i], GivenBytes(apps[i], g[i]))
EachKeepsItsOwn == KeepsItsOwn(buf, given)

\* The value a slave finds in the bytes of a field, and whether it is the one meant.
Value(bytes) ==
    LET n == Len(bytes)
        byte(k) == IF k = n /\ bytes[n] >= 128 THEN bytes[n] - 256 ELSE bytes[k]
    IN  MapThenSumSet(LAMBDA k : byte(k) * 256 ^ (k - 1), 1 .. n)
Seen(b, at, width, v) ==
    LET x == Value(SubSeq(b, at + 1, at + width))
    IN  x = v \/ (width < 4 /\ x + 256 ^ width = v)
SeenAll(b, at, widths, m) ==
    \A k \in DOMAIN widths :
        Seen(b, at + MapThenSumSet(LAMBDA j : widths[j], 1 .. (k - 1)), widths[k], m[k])

\* A quantised value is the one meant, to less than one step.
Near(q, x, min, max, bits) ==
    LET error == q * (max - min) - (x - min) * (2 ^ bits - 1)
    IN  error < (max - min) /\ -error < (max - min)
MitSeen(b, a, m) ==
    LET byte(k) == b[a.wofs + 1 + k]
        pair(k) == 256 * byte(k) + byte(k + 1)
    IN  /\ b[a.wofs + 1] = m[1]
        /\ Near(pair(1), m[2], -a.scale.p, a.scale.p, 16)
        /\ Near(pair(3) \div 16, m[3], -a.scale.v, a.scale.v, 12)
        /\ Near(pair(4) % 4096, m[4], 0, a.scale.kp, 12)
        /\ Near(pair(6) \div 16, m[5], 0, a.scale.kd, 12)
        /\ Near(pair(7) % 4096, m[6], -a.scale.t, a.scale.t, 12)

\* The fields of the motors that a DJI task controls, one after the other.
DjiFields(a, m) ==
    SelectSeq([k \in 1 .. 8 |-> <<(k + 1) \div 2, m[k]>>], LAMBDA f : f[1] \in MotorsEnabled(a))
CommandSeen(b, a, m) ==
    CASE a.type = DJICAN ->
            SeenAll(b, a.wofs, Times(Cardinality(MotorsEnabled(a)), <<1, 2>>),
                    [k \in DOMAIN DjiFields(a, m) |-> DjiFields(a, m)[k][2]])
      [] a.type = DM_MOTOR /\ ArgValue(a, "control_type") = 1 -> MitSeen(b, a, m)
      [] a.type = DM_MOTOR /\ ArgValue(a, "control_type") # 1 ->
            SeenAll(b, a.wofs, DmWidths(ArgValue(a, "control_type")), m)
      [] a.type = LK -> SeenAll(b, a.wofs, LkWidths(ArgValue(a, "control_type")), m)
      [] a.type = SUPER_CAP -> SeenAll(b, a.wofs, <<1, 1, 1, 1>>, m)
      [] a.type \in {DSHOT, ONBOARD_PWM} -> SeenAll(b, a.wofs, <<2, 2, 2, 2>>, m)

\* The slave decodes from the buffer the command each application last gave,
\* sign, order and scale included.
SlaveSeesCommand ==
    \A i \in Apps : given[i] \notin {none, init} => CommandSeen(buf, apps[i], given[i][2])

\* "all motors will be disabled before receiving any command": a task that was
\* reset and got no command since has every enable byte, or every value, at rest.
Disabled(b, a) ==
    CASE a.type = DJICAN -> \A k \in 1 .. Cardinality(MotorsEnabled(a)) : b[a.wofs + 3 * k - 2] = 0
      [] a.type \in {DM_MOTOR, SUPER_CAP} -> b[a.wofs + 1] = 0
      [] a.type = LK -> \A k \in 1 .. (IF Broadcast(a) THEN 8 ELSE 1) : b[a.wofs + k] = 0
      [] a.type \in {DSHOT, ONBOARD_PWM} ->
            SeenAll(b, a.wofs, <<2, 2, 2, 2>>, [k \in 1 .. 4 |-> ArgValue(a, "init_value")])
      [] OTHER -> TRUE
DisabledUntilCommand == \A i \in Apps : given[i] = init => Disabled(buf, apps[i])

\* The message a report means.
DjiMeant(a, r) ==
    LET nth(k) == Cardinality({j \in MotorsEnabled(a) : j < k})
    IN  [f \in 1 .. 24 |-> LET k == ((f - 1) \div 6) + 1
                           IN  IF k \in MotorsEnabled(a) THEN r[6 * nth(k) + f - 6 * (k - 1)] ELSE 0]
DmMeant(a, r) ==
    LET scaled(hi, lo, base, max, bits) == 2 * (base * hi + lo) * max - max * (2 ^ bits - 1)
    IN  <<r[11]>> \o [k \in 1 .. 9 |-> IF r[2] = DmStates[k] THEN 1 ELSE 0]
                  \o <<scaled(r[3], r[4], 256, a.scale.p, 16), scaled(r[5], r[7], 16, a.scale.v, 12),
                       scaled(r[6], r[8], 256, a.scale.t, 12), r[9], r[10]>>
Meant(a, r) ==
    CASE a.type = SBUS_RC -> <<1>> \o SubSeq(r, 1, 20)
      [] a.type = DJIRC -> <<1>> \o [c \in 1 .. 4 |-> GetPercentage(r[c])]
            \o <<GetPercentage(r[28])>> \o SubSeq(r, 5, 8) \o SubSeq(r, 10, 27)
      [] a.type = DJICAN -> DjiMeant(a, r)
      [] a.type = DM_MOTOR -> DmMeant(a, r)
      [] a.type = LK /\ ~Broadcast(a) -> <<r[1], r[3]>> \o SubSeq(r, 5, 8)
      [] OTHER -> r
\* A message is, field by field, what the slave reported for this very task, or
\* the empty message of a loss; a remote control that is off line says so.
OffLine(a, r) == a.type \in {SBUS_RC, DJIRC} /\ r[Len(r)] = 0
PublishesItsReport ==
    \A i \in Apps : out[i] # <<>> =>
        LET r == out[i][1]
            m == out[i][2]
        IN  IF r = <<>> THEN m = EmptyMessage(apps[i])
            ELSE IF OffLine(apps[i], r) THEN m[1] = 0
            ELSE m = Meant(apps[i], r)
=============================================================================
