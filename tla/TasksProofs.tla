---------------------------- MODULE TasksProofs ----------------------------
(***************************************************************************)
(* Whatever the configured tasks, when their blocks are apart              *)
(* (BlocksApart) no task's command, reset or recovery disturbs the bytes   *)
(* of another: EachKeepsItsOwn, for boards with any number of tasks.       *)
(***************************************************************************)
EXTENDS Tasks, TLAPS

Long(b) == b = [k \in 1 .. M2SLen |-> b[k]]
GivenOK(g) ==
    /\ DOMAIN g = Apps
    /\ \A i \in Apps : \/ g[i] \in {none, init}
                       \/ \E m \in board.messages[i] : g[i] = command(m)

\* The inductive invariant: the backup keeps what it was taken from for as long as
\* the slave may come back to it.
OwnInv ==
    /\ board \in Boards
    /\ Long(buf) /\ GivenOK(given) /\ KeepsItsOwn(buf, given)
    /\ phase \in {"lost", "cut off", "again"} =>
          Long(backup) /\ GivenOK(saved) /\ KeepsItsOwn(backup, saved)

-----------------------------------------------------------------------------
\* What is given for a task is one of the things that may be written for it.
LEMMA GivenIsWritten ==
    ASSUME board \in Boards, NEW g, GivenOK(g), NEW i \in Apps, g[i] # none
    PROVE  GivenBytes(apps[i], g[i]) \in Writes(board, i)
<1>1. CASE g[i] = init
  BY <1>1 DEF GivenBytes, Writes, apps, Apps
<1>2. CASE \E m \in board.messages[i] : g[i] = command(m)
  <2>1. PICK m \in board.messages[i] : g[i] = command(m)
    BY <1>2
  <2>2. g[i] # init /\ g[i][2] = m
    BY <2>1 DEF init, command
  <2> QED BY <2>1, <2>2 DEF GivenBytes, Writes, apps, Apps
<1> QED BY <1>1, <1>2 DEF GivenOK

\* A byte of one block is in no block of another task.
LEMMA Apart ==
    ASSUME board \in Boards, NEW i \in Apps, NEW j \in Apps, i # j,
           NEW x \in Writes(board, i), NEW y \in Writes(board, j), NEW k \in DOMAIN x
    PROVE  (apps[i].wofs + k) - apps[j].wofs \notin DOMAIN y
<1>1. /\ x \in Seq(Byte) /\ y \in Seq(Byte)
      /\ apps[i].wofs \in Nat /\ apps[j].wofs \in Nat
      /\ \/ apps[i].wofs + Len(x) <= apps[j].wofs
         \/ apps[j].wofs + Len(y) <= apps[i].wofs
  BY BlocksApart DEF apps, Apps
<1>2. DOMAIN x = 1 .. Len(x) /\ DOMAIN y = 1 .. Len(y) /\ Len(x) \in Nat /\ Len(y) \in Nat
  BY <1>1
<1> QED BY <1>1, <1>2, SMTT(30)

\* Where a byte of a block is.
LEMMA Inside ==
    ASSUME board \in Boards, NEW i \in Apps, NEW x \in Writes(board, i), NEW k \in DOMAIN x
    PROVE  apps[i].wofs + k \in 1 .. M2SLen /\ (apps[i].wofs + k) - apps[i].wofs = k
<1>1. x \in Seq(Byte) /\ apps[i].wofs \in Nat /\ apps[i].wofs + Len(x) <= M2SLen /\ M2SLen \in Nat
  BY BlocksApart DEF apps, Apps
<1>2. DOMAIN x = 1 .. Len(x) /\ Len(x) \in Nat
  BY <1>1
<1> QED BY <1>1, <1>2

\* A command changes its own block only.
LEMMA PutKeeps ==
    ASSUME board \in Boards, NEW b, Long(b), NEW i \in Apps, NEW m \in board.messages[i]
    PROVE  LET c == Command(b, apps[i], m)
           IN  /\ Long(c)
               /\ Holds(c, apps[i], CommandBytes(apps[i], m))
               /\ \A j \in Apps \ {i} : \A y \in Writes(board, j) : \A k \in DOMAIN y :
                     c[apps[j].wofs + k] = b[apps[j].wofs + k]
<1> DEFINE x == CommandBytes(apps[i], m)
           c == Command(b, apps[i], m)
<1>1. x \in Writes(board, i)
  BY DEF Writes, apps, Apps
<1>2. DOMAIN b = 1 .. M2SLen
  BY DEF Long
<1>3. c = [k \in 1 .. M2SLen |-> IF k - apps[i].wofs \in DOMAIN x THEN x[k - apps[i].wofs] ELSE b[k]]
  BY <1>2 DEF Command, Put
<1> HIDE DEF x, c
<1>4. Long(c)
  BY <1>3 DEF Long
<1>5. Holds(c, apps[i], x)
  BY <1>1, <1>3, Inside DEF Holds
<1>6. ASSUME NEW j \in Apps \ {i}, NEW y \in Writes(board, j), NEW k \in DOMAIN y
      PROVE  c[apps[j].wofs + k] = b[apps[j].wofs + k]
  BY <1>1, <1>3, Inside, Apart
<1> QED BY <1>4, <1>5, <1>6 DEF x, c

\* A reset writes the blocks of its tasks only.
LEMMA InitKeeps ==
    ASSUME board \in Boards, NEW b, Long(b), NEW S \in SUBSET Apps
    PROVE  LET c == InitValues(b, S)
           IN  /\ Long(c)
               /\ \A i \in S : Holds(c, apps[i], InitBytes(apps[i]))
               /\ \A j \in Apps \ S : \A y \in Writes(board, j) : \A k \in DOMAIN y :
                     c[apps[j].wofs + k] = b[apps[j].wofs + k]
<1> DEFINE c == InitValues(b, S)
           writers(k) == {i \in S : k - apps[i].wofs \in DOMAIN InitBytes(apps[i])}
           last(k) == CHOOSE i \in writers(k) : \A j \in writers(k) : j <= i
<1>1. \A i \in Apps : InitBytes(apps[i]) \in Writes(board, i)
  BY DEF Writes, apps, Apps
<1>2. c = [k \in 1 .. M2SLen |-> IF writers(k) = {} THEN b[k]
                                 ELSE InitBytes(apps[last(k)])[k - apps[last(k)].wofs]]
  BY DEF InitValues, Long
<1>3. Apps \subseteq Nat
  BY BlocksApart DEF apps, Apps
<1>4. Long(c)
  BY <1>2 DEF Long
<1>5. ASSUME NEW i \in S, NEW k \in DOMAIN InitBytes(apps[i])
      PROVE  c[apps[i].wofs + k] = InitBytes(apps[i])[k]
  <2> DEFINE p == apps[i].wofs + k
  <2>1. p \in 1 .. M2SLen /\ p - apps[i].wofs = k
    BY <1>1, Inside
  <2>2. \A j \in S : j # i => p - apps[j].wofs \notin DOMAIN InitBytes(apps[j])
    BY <1>1, Apart
  <2>3. writers(p) = {i}
    BY <2>1, <2>2
  <2>4. last(p) = i
    BY <2>3, <1>3
  <2> QED BY <1>2, <2>1, <2>3, <2>4
<1>6. ASSUME NEW j \in Apps \ S, NEW y \in Writes(board, j), NEW k \in DOMAIN y
      PROVE  c[apps[j].wofs + k] = b[apps[j].wofs + k]
  <2> DEFINE p == apps[j].wofs + k
  <2>1. p \in 1 .. M2SLen
    BY Inside
  <2>2. \A i \in S : p - apps[i].wofs \notin DOMAIN InitBytes(apps[i])
    BY <1>1, Apart
  <2>3. writers(p) = {}
    BY <2>2
  <2> HIDE DEF writers, last
  <2> QED BY <1>2, <2>1, <2>3
<1> QED BY <1>4, <1>5, <1>6 DEF Holds

-----------------------------------------------------------------------------
\* After a reset of the tasks in S, what was given to the others still holds.
LEMMA ResetKeepsOwn ==
    ASSUME board \in Boards, NEW b, Long(b), NEW g, GivenOK(g), KeepsItsOwn(b, g),
           NEW S \in SUBSET Apps
    PROVE  LET h == [i \in Apps |-> IF i \in S THEN init ELSE g[i]]
           IN  GivenOK(h) /\ KeepsItsOwn(InitValues(b, S), h)
<1> DEFINE h == [i \in Apps |-> IF i \in S THEN init ELSE g[i]]
           c == InitValues(b, S)
<1>1. GivenOK(h)
  BY DEF GivenOK
<1>2. ASSUME NEW i \in Apps, h[i] # none
      PROVE  Holds(c, apps[i], GivenBytes(apps[i], h[i]))
  <2>1. CASE i \in S
    BY <2>1, InitKeeps DEF GivenBytes
  <2>2. CASE i \notin S
    <3>1. h[i] = g[i] /\ g[i] # none
      BY <1>2, <2>2
    <3>2. GivenBytes(apps[i], g[i]) \in Writes(board, i)
      BY <3>1, GivenIsWritten
    <3>3. Holds(b, apps[i], GivenBytes(apps[i], g[i]))
      BY <3>1 DEF KeepsItsOwn
    <3> QED BY <3>1, <3>2, <3>3, <2>2, InitKeeps DEF Holds
  <2> QED BY <2>1, <2>2
<1> QED BY <1>1, <1>2 DEF KeepsItsOwn

\* A command for one task leaves what was given to the others.
LEMMA CommandKeepsOwn ==
    ASSUME board \in Boards, NEW b, Long(b), NEW g, GivenOK(g), KeepsItsOwn(b, g),
           NEW i \in Apps, NEW m \in board.messages[i]
    PROVE  LET h == [g EXCEPT ![i] = command(m)]
           IN  GivenOK(h) /\ KeepsItsOwn(Command(b, apps[i], m), h)
<1> DEFINE h == [g EXCEPT ![i] = command(m)]
           c == Command(b, apps[i], m)
<1>1. DOMAIN g = Apps
  BY DEF GivenOK
<1>2. GivenOK(h)
  BY <1>1 DEF GivenOK
<1>3. ASSUME NEW j \in Apps, h[j] # none
      PROVE  Holds(c, apps[j], GivenBytes(apps[j], h[j]))
  <2>1. CASE j = i
    <3>1. h[j] # init /\ h[j][2] = m
      BY <2>1, <1>1 DEF command, init
    <3> QED BY <3>1, <2>1, PutKeeps DEF GivenBytes
  <2>2. CASE j # i
    <3>1. h[j] = g[j] /\ g[j] # none
      BY <1>1, <1>3, <2>2
    <3>2. GivenBytes(apps[j], g[j]) \in Writes(board, j)
      BY <3>1, GivenIsWritten
    <3>3. Holds(b, apps[j], GivenBytes(apps[j], g[j]))
      BY <3>1 DEF KeepsItsOwn
    <3> QED BY <3>1, <3>2, <3>3, <2>2, PutKeeps DEF Holds
  <2> QED BY <2>1, <2>2
<1> QED BY <1>2, <1>3 DEF KeepsItsOwn

\* Nothing is claimed of a task for which nothing was given.
LEMMA NothingGiven ==
    ASSUME NEW b PROVE GivenOK([i \in Apps |-> none]) /\ KeepsItsOwn(b, [i \in Apps |-> none])
BY DEF GivenOK, KeepsItsOwn

\* The cleared buffer is as long as the buffer.
LEMMA ZerosLong == Long(Zeros(M2SLen))
BY DEF Long, Zeros

-----------------------------------------------------------------------------
\* At the beginning nothing is given.
LEMMA OwnInit == Init => OwnInv
BY NothingGiven, ZerosLong DEF Init, OwnInv

\* Kept depends on the buffer, on what was given and on the board only.
Kept(b, g) == Long(b) /\ GivenOK(g) /\ KeepsItsOwn(b, g)
\* It is kept by a step that changes none of these: of the buffer,
LEMMA KeptBuf ==
    ASSUME board' = board, NEW b, NEW g, Kept(b, g), buf' = b, given' = g
    PROVE  Kept(buf, given)'
BY DEF Kept, Long, GivenOK, KeepsItsOwn, GivenBytes, Holds, Apps, apps
\* and of the backup.
LEMMA KeptBackup ==
    ASSUME board' = board, NEW b, NEW g, Kept(b, g), backup' = b, saved' = g
    PROVE  Kept(backup, saved)'
BY DEF Kept, Long, GivenOK, KeepsItsOwn, GivenBytes, Holds, Apps, apps

\* One step per action.
LEMMA OwnStep == OwnInv /\ [Next]_vars => OwnInv'
<1> SUFFICES ASSUME OwnInv, [Next]_vars PROVE OwnInv'
  OBVIOUS
<1>0. /\ board \in Boards /\ Kept(buf, given)
      /\ phase \in {"lost", "cut off", "again"} => Kept(backup, saved)
  BY DEF OwnInv, Kept
<1>1. board' = board
  BY DEF Next, vars, InitTaskList, SendArg, ArgsDone, OnCommand, OnConnectionLost, Back, ProcessPdo
<1>2. SUFFICES /\ Kept(buf, given)'
               /\ phase' \in {"lost", "cut off", "again"} => Kept(backup, saved)'
  BY <1>0, <1>1 DEF OwnInv, Kept
<1>3. ASSUME UNCHANGED <<backup, saved>>, phase' \in {"lost", "cut off", "again"} => phase \in {"lost", "cut off", "again"}
      PROVE  phase' \in {"lost", "cut off", "again"} => Kept(backup, saved)'
  BY <1>0, <1>1, <1>3, KeptBackup
<1>4. ASSUME UNCHANGED <<buf, given>> PROVE Kept(buf, given)'
  BY <1>0, <1>1, <1>4, KeptBuf
<1>5. CASE InitTaskList
  BY <1>5, <1>3, <1>4 DEF InitTaskList
<1>6. CASE SendArg
  <2>1. Kept(buf, given)'
    <3>1. PICK bytes : buf' = Put(buf, 0, bytes) /\ given' = [i \in Apps |-> none]
      BY <1>6 DEF SendArg
    <3>2. Long(Put(buf, 0, bytes))
      BY <1>0 DEF Kept, Long, Put
    <3> QED BY <3>1, <3>2, <1>1, NothingGiven, KeptBuf DEF Kept
  <2> QED BY <1>6, <2>1, <1>3 DEF SendArg
<1>7. CASE ArgsDone
  <2>1. CASE phase = "args"
    <3> DEFINE S == {i \in Apps : HasSubscribers(apps[i])}
               g == [i \in Apps |-> none]
               h == [i \in Apps |-> IF i \in S THEN init ELSE g[i]]
    <3>0. S \in SUBSET Apps
      OBVIOUS
    <3>1. Long(InitValues(Zeros(M2SLen), S)) /\ KeepsItsOwn(InitValues(Zeros(M2SLen), S), h)
      <4> HIDE DEF S
      <4>1. GivenOK(g) /\ KeepsItsOwn(Zeros(M2SLen), g)
        BY NothingGiven
      <4> HIDE DEF g
      <4> QED BY <1>0, <3>0, <4>1, ZerosLong, ResetKeepsOwn, InitKeeps
    <3>2. \A i \in Apps : i \notin S => InitBytes(apps[i]) = <<>>
      BY DEF HasSubscribers, InitBytes, DJIRC, SBUS_RC, HIPNUC_IMU_CAN, DJICAN, LK, DM_MOTOR,
             SUPER_CAP, DSHOT, ONBOARD_PWM
    <3>3. Kept(InitValues(Zeros(M2SLen), S), [i \in Apps |-> init])
      <4> DEFINE c == InitValues(Zeros(M2SLen), S)
                 all == [i \in Apps |-> init]
      <4>1. ASSUME NEW i \in Apps PROVE Holds(c, apps[i], GivenBytes(apps[i], init))
        <5>1. CASE i \in S
          <6>1. h[i] = init /\ init # none
            BY <5>1 DEF init, none
          <6> QED BY <6>1, <3>1 DEF KeepsItsOwn
        <5>2. CASE i \notin S
          BY <5>2, <3>2 DEF Holds, GivenBytes
        <5> QED BY <5>1, <5>2
      <4>2. KeepsItsOwn(c, all)
        BY <4>1 DEF KeepsItsOwn
      <4>3. GivenOK(all)
        BY DEF GivenOK
      <4> QED BY <3>1, <4>2, <4>3 DEF Kept
    <3> HIDE DEF S
    <3> QED BY <1>1, <1>7, <2>1, <3>3, KeptBuf DEF ArgsDone, WriteInitValues, S
  <2>2. CASE phase = "again"
    BY <1>0, <1>1, <1>7, <2>2, KeptBuf DEF ArgsDone
  <2>3. CASE phase = "resumed"
    BY <1>4, <1>7, <2>3 DEF ArgsDone
  <2> QED BY <1>7, <2>1, <2>2, <2>3 DEF ArgsDone
<1>8. ASSUME NEW i \in Apps, OnCommand(i)
      PROVE  /\ Kept(buf, given)'
             /\ phase' \in {"lost", "cut off", "again"} => Kept(backup, saved)'
  <2>1. PICK m \in board.messages[i] :
          buf' = Command(buf, apps[i], m) /\ given' = [given EXCEPT ![i] = command(m)]
    BY <1>8 DEF OnCommand
  <2> DEFINE c == Command(buf, apps[i], m)
             h == [given EXCEPT ![i] = command(m)]
  <2>2. GivenOK(h) /\ KeepsItsOwn(c, h)
    BY <1>0, CommandKeepsOwn DEF Kept
  <2>3. Long(c)
    BY <1>0, PutKeeps DEF Kept
  <2>4. Kept(c, h)
    BY <2>2, <2>3 DEF Kept
  <2> HIDE DEF c, h
  <2>5. Kept(buf, given)'
    BY <1>1, <2>1, <2>4, KeptBuf DEF c, h
  <2> QED BY <1>8, <2>5, <1>3 DEF OnCommand
<1>9. CASE OnConnectionLost
  <2> DEFINE S == {i \in Apps : ResetOnLoss(apps[i])}
             h == [i \in Apps |-> IF i \in S THEN init ELSE given[i]]
  <2>1. S \in SUBSET Apps
    OBVIOUS
  <2>2. buf' = InitValues(buf, S) /\ given' = h /\ backup' = buf' /\ saved' = given'
    BY <1>9 DEF OnConnectionLost
  <2> HIDE DEF S
  <2>3. GivenOK(h) /\ KeepsItsOwn(InitValues(buf, S), h)
    BY <1>0, <2>1, ResetKeepsOwn DEF Kept
  <2>4. Long(InitValues(buf, S))
    BY <1>0, <2>1, InitKeeps DEF Kept
  <2>5. Kept(InitValues(buf, S), h)
    BY <2>3, <2>4 DEF Kept
  <2> HIDE DEF h
  <2> QED BY <1>1, <2>2, <2>5, KeptBuf, KeptBackup
<1>10. CASE Back
  BY <1>10, <1>3, <1>4 DEF Back
<1>11. CASE ProcessPdo
  BY <1>11, <1>3, <1>4 DEF ProcessPdo
<1>12. CASE UNCHANGED vars
  BY <1>12, <1>3, <1>4 DEF vars
<1> QED BY <1>2, <1>5, <1>6, <1>7, <1>8, <1>9, <1>10, <1>11, <1>12 DEF Next

\* What was last written for a task is what the buffer holds for it, through every
\* command, reset, loss and recovery of its neighbours, for any board whose blocks
\* are apart.
THEOREM EachKeepsOwn == Spec => []EachKeepsItsOwn
<1>1. OwnInv => EachKeepsItsOwn
  BY DEF OwnInv, EachKeepsItsOwn
<1> QED BY <1>1, OwnInit, OwnStep, PTL DEF Spec
=============================================================================
