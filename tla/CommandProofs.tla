--------------------------- MODULE CommandProofs ---------------------------
(***************************************************************************)
(* What reaches the actuators: the switch of the buffer from arguments to  *)
(* commands happens together with the switch of the status, exactly once,  *)
(* and from then on the buffer belongs to the callbacks (until shutdown).  *)
(* Then what the exit reset sends, and what is published.                  *)
(***************************************************************************)
EXTENDS PdoCycleProofs

\* Before the slave has started: no ready report of it is possible yet.
Waiting(d) == d.master_status = MASTER_SENDING_ARGUMENTS /\ ~d.ready /\ d.slave_status < MASTER_READY

\* After that.
Working(d) ==
    /\ d.arg_sent
    /\ d.master_status >= MASTER_READY /\ (d.master_status = MASTER_READY \/ d.ready)

\* Sending the next argument leaves the statuses and the configuration alone.
LEMMA SendNextKeeps ==
    ASSUME NEW d \in Device
    PROVE  /\ send_next_arg(d) \in Device
           /\ send_next_arg(d).master_status = d.master_status
           /\ send_next_arg(d).ready = d.ready
           /\ send_next_arg(d).slave_status = d.slave_status
           /\ send_next_arg(d).reconnected = d.reconnected
           /\ send_next_arg(d).ros_conf = d.ros_conf
           /\ send_next_arg(d).ecat_conf = d.ecat_conf
<1>1. send_next_arg(d) \in Device
  BY SendArgTyped DEF send_next_arg
<1>2. ASSUME NEW w, NEW i, NEW b
      PROVE  LET e == [d EXCEPT !.arg_sent = b, !.arg_idx = i, !.m2s_buf = w]
             IN  /\ e.master_status = d.master_status /\ e.ready = d.ready
                 /\ e.slave_status = d.slave_status /\ e.reconnected = d.reconnected
                 /\ e.ros_conf = d.ros_conf /\ e.ecat_conf = d.ecat_conf
  BY DEF Device
<1>3. \E w, i, b : send_arg(d) = [d EXCEPT !.arg_sent = b, !.arg_idx = i, !.m2s_buf = w]
  BY DEF send_arg
<1>4. send_next_arg(d) \in {d, send_arg(d)}
  BY DEF send_next_arg
<1>5. CASE send_next_arg(d) = send_arg(d)
  <2>1. PICK w, i, b : send_arg(d) = [d EXCEPT !.arg_sent = b, !.arg_idx = i, !.m2s_buf = w]
    BY <1>3
  <2>. HIDE DEF send_arg, send_next_arg
  <2>. QED
    BY <1>1, <1>5, <2>1, <1>2
<1>6. CASE send_next_arg(d) = d
  BY <1>6
<1>. QED
  BY <1>4, <1>5, <1>6

\* A waiting slave goes on waiting, or starts with the initial value in its buffer.
LEMMA WaitingVisit ==
    ASSUME NEW d \in Device, d.reconnected = 0, Waiting(d)
    PROVE  /\ ~Publishes(d)
           /\ handshake(d).reconnected = 0 /\ ~handshake(d).ready
           /\ handshake(d).slave_status = d.slave_status
           /\ \/ /\ ~StartsNow(d)
                 /\ handshake(d).master_status = MASTER_SENDING_ARGUMENTS
              \/ /\ StartsNow(d)
                 /\ handshake(d).master_status = MASTER_READY
                 /\ handshake(d).arg_sent /\ handshake(d).m2s_buf = InitWord
<1>. DEFINE n == send_next_arg(d)
<1>1. d.slave_status # SLAVE_CONFIRM_READY /\ d.master_status # MASTER_READY
  BY DEF Waiting, Device, Byte, SLAVE_CONFIRM_READY, MASTER_READY, MASTER_SENDING_ARGUMENTS
<1>2. confirm_ready(d) = d
  BY <1>1 DEF confirm_ready
<1>3. /\ n \in Device /\ n.master_status = d.master_status /\ ~n.ready
      /\ n.slave_status = d.slave_status /\ n.reconnected = 0
  BY SendNextKeeps DEF Waiting
<1>4. handshake(d) = IF Configured(d) THEN start_working(n) ELSE d
  BY <1>2 DEF handshake
<1>5. StartsNow(d) <=> Configured(d) /\ Starts(n)
  BY <1>2 DEF StartsNow
<1>. HIDE DEF n
<1>6. CASE StartsNow(d)
  <2>1. handshake(d) = [[n EXCEPT !.m2s_buf = InitWord] EXCEPT !.master_status = MASTER_READY]
    BY <1>3, <1>4, <1>5, <1>6 DEF start_working, write_init_values
  <2>2. n.arg_sent
    BY <1>5, <1>6 DEF Starts
  <2>. QED
    BY <2>1, <2>2, <1>3, <1>6 DEF Publishes, Device
<1>7. CASE ~StartsNow(d)
  <2>1. handshake(d) \in {d, n}
    BY <1>4, <1>5, <1>7 DEF start_working
  <2>. QED
    BY <2>1, <1>3, <1>7 DEF Publishes, Waiting
<1>. QED
  BY <1>6, <1>7

\* A working slave keeps its buffer and its status; it may be confirmed as ready.
LEMMA WorkingVisit ==
    ASSUME NEW d \in Device, Working(d)
    PROVE  /\ ~StartsNow(d)
           /\ handshake(d) \in {d, [d EXCEPT !.ready = TRUE]}
<1>. DEFINE c == confirm_ready(d)
<1>1. c \in {d, [d EXCEPT !.ready = TRUE]}
  BY DEF confirm_ready
<1>2. c.arg_sent /\ (c.master_status = MASTER_READY \/ c.ready) /\ c.master_status = d.master_status
  BY <1>1 DEF Working, Device
<1>. HIDE DEF c
<1>3. send_next_arg(c) = c
  BY <1>2 DEF send_next_arg
<1>4. ~Starts(c)
  BY <1>2 DEF Starts
<1>5. start_working(c) = c
  BY <1>4 DEF start_working
<1>. QED
  BY <1>1, <1>3, <1>4, <1>5 DEF StartsNow, handshake, c

-----------------------------------------------------------------------------
(* The invariant.                                                           *)

\* By its status a slave is waiting or working.
LEMMA WaitsOrWorks ==
    ASSUME NEW s \in Slaves, dev[s] \in Device, StartedSound(s)
    PROVE  \/ Waiting(dev[s]) /\ ~(dev[s].master_status >= MASTER_READY)
           \/ Working(dev[s]) /\ dev[s].master_status >= MASTER_READY
<1>1. dev[s].master_status \in Int /\ dev[s].slave_status \in Int
  BY Bounds DEF Device, Byte
<1>2. dev[s].slave_status \in Statuses(s)
  BY DEF Statuses
<1>. QED
  BY <1>1, <1>2 DEF StartedSound, Waiting, Working, MASTER_READY, MASTER_SENDING_ARGUMENTS

\* What a step keeps if the slave neither starts nor moves on to another status: a working
\* status shows up only where the slave has been started.
LEMMA StartedTravels ==
    ASSUME NEW t \in Slaves, StartedSound(t),
           dev'[t].master_status = dev[t].master_status, dev'[t].arg_sent = dev[t].arg_sent,
           dev'[t].ready = dev[t].ready, dev'[t].reconnected = dev[t].reconnected,
           \A st \in Statuses(t)' :
               st \in Statuses(t) \/ (st >= MASTER_READY => dev[t].master_status >= MASTER_READY)
    PROVE  StartedSound(t)'
BY DEF StartedSound, NotReconnected

\* And if neither the buffer nor the callback of the slave is touched: the words of its
\* frames travel, or a frame to a working slave takes what is in the buffer.
LEMMA CommandTravels ==
    ASSUME NEW t \in Slaves, CommandSound(t),
           dev'[t].m2s_buf = dev[t].m2s_buf, hist'[t].want = hist[t].want,
           dev'[t].master_status >= MASTER_READY => dev[t].master_status >= MASTER_READY,
           Locked(t)' <=> Locked(t), Locked(t) => ros'.word = ros.word, exiting => exiting',
           exiting \in BOOLEAN, exiting' \in BOOLEAN,
           \A f \in {out'[t], fw'[t].rx} :
               \/ f \in {out[t], fw[t].rx}
               \/ ~exiting /\ f.status >= MASTER_READY => f.word \in Commands
    PROVE  CommandSound(t)'
<1>. USE DEF CommandSound
<1>1. hist'[t].want \in Commands /\ (~exiting' => ~exiting)
  OBVIOUS
<1>2. ASSUME ~exiting', Locked(t)' PROVE dev'[t].m2s_buf[1] = ros'.word[1]
  BY <1>1, <1>2
<1>3. ASSUME ~exiting', dev'[t].master_status >= MASTER_READY, ~Locked(t)'
      PROVE  dev'[t].m2s_buf = hist'[t].want
  BY <1>1, <1>3
<1>4. ASSUME ~exiting', NEW f \in {out'[t], fw'[t].rx}, f.status >= MASTER_READY
      PROVE  f.word \in Commands
  BY <1>1, <1>4
<1>. QED
  BY <1>1, <1>2, <1>3, <1>4

\* No slave has been started, and no command received.
LEMMA InitCommand == Init => CommandInv
<1>. SUFFICES ASSUME Init PROVE CommandInv
  OBVIOUS
<1>1. ResetPhaseSound
  BY DEF Init, ResetPhaseSound
<1>2. ASSUME NEW s \in Slaves PROVE StartedSound(s) /\ CommandSound(s)
  <2>1. /\ dev[s] = ConfiguredDevice /\ out[s] = EmptyFrame /\ inp[s] = EmptyFrame
        /\ fw[s] = FreshFirmware /\ hist[s].want = InitWord
    BY DEF Init
  <2>2. ~Locked(s)
    BY DEF Init, Locked, NoCall, Slaves
  <2>3. Statuses(s) = {0, SLAVE_INITIALIZING}
    BY <2>1 DEF Statuses, EmptyFrame, FreshFirmware, ConfiguredDevice
  <2>4. StartedSound(s)
    BY <2>1, <2>3
    DEF StartedSound, NotReconnected, ConfiguredDevice, SLAVE_INITIALIZING, MASTER_READY,
        MASTER_SENDING_ARGUMENTS
  <2>5. out[s].status = 0 /\ fw[s].rx.status = 0 /\ dev[s].master_status = MASTER_SENDING_ARGUMENTS
    BY <2>1 DEF EmptyFrame, FreshFirmware, ConfiguredDevice
  <2>6. CommandSound(s)
    BY <2>1, <2>2, <2>5 DEF CommandSound, Commands, MASTER_READY, MASTER_SENDING_ARGUMENTS
  <2>. QED
    BY <2>4, <2>6
<1>. QED
  BY <1>1, <1>2 DEF CommandInv

\* The visit of the processing loop: the initial value is in the buffer from the moment the
\* status says that the buffer holds a command.
LEMMA ProcessCommand ==
    ASSUME TypeOK, NEW s \in Slaves, StartedSound(s), CommandSound(s), Process(s)
    PROVE  StartedSound(s)' /\ CommandSound(s)'
<1>. DEFINE d == dev[s]
            h == handshake(d)
            e == dev'[s]
<1>1. d \in Device /\ h \in Device /\ d.reconnected = 0
  BY HandshakeTyped DEF TypeOK, StartedSound, NotReconnected
<1>2. e = IF Publishes(d) THEN process_pdo(h) ELSE h
  BY DEF Process, TypeOK
<1>3. /\ out'[s] = out[s] /\ fw'[s] = fw[s] /\ inp'[s] = inp[s] /\ exiting' = exiting
      /\ ~Locked(s)' /\ ~Locked(s)
  BY DEF Process, Locked, rosVars, exitVars
<1>4. hist'[s].want = IF StartsNow(d) THEN InitWord ELSE hist[s].want
  <2>1. hist' = [hist EXCEPT ![s].pubs = IF Publishes(dev[s]) THEN @ + 1 ELSE @,
                             ![s].want = IF StartsNow(d) THEN InitWord ELSE @]
    BY <1>1 DEF Process
  <2>. QED
    BY <2>1 DEF TypeOK
<1>5. d.master_status \in Byte /\ d.slave_status \in Byte
  BY <1>1 DEF Device
<1>6. CASE Waiting(d) /\ ~(d.master_status >= MASTER_READY)
  <2>1. /\ e = h /\ e.reconnected = 0 /\ ~e.ready /\ e.slave_status = d.slave_status
        /\ \/ /\ ~StartsNow(d)
              /\ e.master_status = MASTER_SENDING_ARGUMENTS
           \/ /\ StartsNow(d) /\ e.master_status = MASTER_READY
              /\ e.arg_sent /\ e.m2s_buf = InitWord
    BY <1>1, <1>2, <1>6, WaitingVisit
  <2>. HIDE DEF d, h, e
  <2>2. StartedSound(s)'
    <3>1. Statuses(s)' = Statuses(s)
      BY <1>3, <2>1 DEF Statuses, d, e
    <3>2. \A st \in Statuses(s) : ~(st >= MASTER_READY)
      BY <1>6 DEF StartedSound, d
    <3>. QED
      BY <2>1, <3>1, <3>2
      DEF StartedSound, NotReconnected, MASTER_READY, MASTER_SENDING_ARGUMENTS, e
  <2>3. \A f \in {out[s], fw[s].rx} : ~(f.status >= MASTER_READY)
    BY <1>6 DEF StartedSound, Statuses, d
  <2>4. CommandSound(s)'
    BY <2>1, <2>3, <1>3, <1>4
    DEF CommandSound, Commands, MASTER_READY, MASTER_SENDING_ARGUMENTS, e
  <2>. QED
    BY <2>2, <2>4
<1>7. CASE Working(d) /\ d.master_status >= MASTER_READY
  <2>1. ~StartsNow(d) /\ h \in {d, [d EXCEPT !.ready = TRUE]}
    BY <1>1, <1>7, WorkingVisit
  <2>2. /\ h.m2s_buf = d.m2s_buf /\ h.arg_sent = d.arg_sent /\ h.reconnected = 0
        /\ h.master_status = d.master_status /\ h.slave_status = d.slave_status
        /\ (d.ready => h.ready)
    BY <1>1, <2>1 DEF Device
  <2>. HIDE DEF h, d
  <2>3. /\ e.m2s_buf = d.m2s_buf /\ e.arg_sent = d.arg_sent /\ e.reconnected = 0
        /\ e.slave_status = d.slave_status /\ e.ready = h.ready
        /\ e.master_status \in {d.master_status, NextStatus(d.master_status)}
        /\ (e.master_status = d.master_status \/ h.ready)
    <3>1. CASE Publishes(d)
      <4>1. e = process_pdo(h) /\ h.ready
        BY <1>2, <3>1 DEF Publishes, h
      <4>. QED
        BY <4>1, <2>2, <1>1, ZenonT(60) DEF process_pdo, Device
    <3>2. CASE ~Publishes(d)
      BY <1>2, <3>2, <2>2
    <3>. QED
      BY <3>1, <3>2
  <2>. HIDE DEF e
  <2>4. e.master_status >= MASTER_READY /\ (e.master_status > MASTER_READY => e.ready)
    <3>1. MASTER_READY \in Int /\ d.master_status \in Int
      BY <1>5, Bounds DEF Byte, MASTER_READY
    <3>2. d.master_status = MASTER_READY \/ d.ready
      BY <1>7 DEF Working
    <3>. QED
      BY <2>2, <2>3, <1>5, <1>7, <3>1, <3>2, NextStatusTyped
  <2>5. StartedSound(s)'
    <3>1. dev'[s].master_status >= MASTER_SENDING_ARGUMENTS
      <4>1. e.master_status \in Byte
        BY <2>3, <1>5, NextStatusTyped
      <4>. QED
        BY <4>1, <2>4, Bounds DEF Byte, MASTER_READY, MASTER_SENDING_ARGUMENTS, e
    <3>. QED
      BY <2>3, <2>4, <1>7, <3>1 DEF StartedSound, NotReconnected, Working, e
  <2>6. CommandSound(s)'
    BY <2>1, <2>3, <1>3, <1>4, <1>7 DEF CommandSound, d, e
  <2>. QED
    BY <2>5, <2>6
<1>. QED
  BY <1>1, <1>6, <1>7, WaitsOrWorks

\* A callback writes the first half of its command ...
LEMMA BeginCommand ==
    ASSUME TypeOK, NEW s \in Slaves, NEW w \in CmdWords, CommandSound(s), CommandBegin(s, w)
    PROVE  CommandSound(s)'
<1>1. dev'[s] = [dev[s] EXCEPT !.m2s_buf = <<w[1], @[2]>>]
  BY DEF CommandBegin, TypeOK
<1>2. dev'[s].m2s_buf[1] = w[1]
  <2>1. \A v : [dev[s] EXCEPT !.m2s_buf = v].m2s_buf = v
    BY DEF TypeOK, Device
  <2>. QED
    BY <1>1, <2>1
<1>3. ros'.word = w /\ Locked(s)' /\ UNCHANGED <<out, fw, exiting>> /\ hist'[s].want = hist[s].want
  BY DEF CommandBegin, Locked, exitVars, TypeOK, History
<1>. QED
  BY <1>2, <1>3 DEF CommandSound

\* ... and the second: now the buffer holds the command as it was received.
LEMMA EndCommand ==
    ASSUME TypeOK, NEW s \in Slaves, CommandSound(s), CommandEnd(s)
    PROVE  CommandSound(s)'
<1>1. ros.word \in CmdWords /\ ros.word = <<ros.word[1], ros.word[2]>>
  <2>1. ros.word \in CmdWords
    BY DEF CommandEnd, Locked, TypeOK, NoCall, Slaves
  <2>2. \A v \in Word : v = <<v[1], v[2]>>
    BY DEF Word
  <2>. QED
    BY <2>1, <2>2, CycleAssumption
<1>2. dev'[s].m2s_buf = <<dev[s].m2s_buf[1], ros.word[2]>>
  <2>1. \A v : [dev[s] EXCEPT !.m2s_buf = v].m2s_buf = v
    BY DEF TypeOK, Device
  <2>2. dev'[s] = [dev[s] EXCEPT !.m2s_buf = <<@[1], ros.word[2]>>]
    BY DEF CommandEnd, TypeOK
  <2>. QED
    BY <2>1, <2>2
<1>3. hist'[s].want = ros.word
  BY DEF CommandEnd, TypeOK
<1>4. ~Locked(s)' /\ Locked(s) /\ UNCHANGED <<out, fw, exiting>>
  BY DEF CommandEnd, Locked, exitVars, NoCall, Slaves
<1>5. ~exiting => dev'[s].m2s_buf = ros.word
  BY <1>1, <1>2, <1>4 DEF CommandSound
<1>6. ros.word \in Commands
  BY <1>1 DEF Commands
<1>. QED
  BY <1>3, <1>4, <1>5, <1>6 DEF CommandSound

\* The assembly of the frame, under the mutex: no callback is in the middle of a command.
LEMMA TransferCommand ==
    ASSUME TypeOK, NEW s \in Slaves, CommandSound(s), Transfer(s)
    PROVE  CommandSound(s)'
<1>1. /\ out'[s].status = dev[s].master_status /\ out'[s].word = dev[s].m2s_buf
      /\ UNCHANGED <<dev, fw, hist, ros, exiting>> /\ ~Locked(s)
  BY DEF Transfer, TypeOK, rosVars, exitVars
<1>2. ~exiting /\ out'[s].status >= MASTER_READY => out'[s].word \in Commands
  BY <1>1 DEF CommandSound
<1>3. /\ \A f \in {out'[s], fw'[s].rx} : \/ f \in {out[s], fw[s].rx}
                                         \/ ~exiting /\ f.status >= MASTER_READY => f.word \in Commands
      /\ (Locked(s)' <=> Locked(s))
  BY <1>1, <1>2 DEF Locked
<1>. QED
  BY <1>1, <1>3, CommandTravels DEF TypeOK

\* The data thread is in the middle of the exit reset only when the system is exiting.
LEMMA NextResetPhase == TypeOK /\ ResetPhaseSound /\ [Next]_vars => ResetPhaseSound'
<1>. SUFFICES ASSUME TypeOK, ResetPhaseSound, [Next]_vars PROVE ResetPhaseSound'
  OBVIOUS
<1>. USE DEF ResetPhaseSound, exitVars, threadVars
<1>0. 1 \in Slaves /\ cur \in Int /\ exiting \in BOOLEAN
  BY CycleAssumption DEF Slaves, TypeOK
<1>1. ASSUME NEW s \in Slaves, ExitReset(s) PROVE ResetPhaseSound'
  BY <1>1, <1>0 DEF ExitReset, ResetDue
<1>2. ASSUME NEW s \in Slaves, ExitResetRest(s) PROVE ResetPhaseSound'
  BY <1>2 DEF ExitResetRest
<1>3. ASSUME NEW s \in Slaves,
             \/ Receive(s) \/ Transfer(s) \/ Cleanup(s) \/ Process(s)
      PROVE  ResetPhaseSound'
  <2>1. PICK next \in {"process", "exit", "send", "done"} :
          Advance(next) /\ phase \in {"receive", "process", "transfer", "cleanup"}
    BY <1>3 DEF Receive, Process, Transfer, Cleanup
  <2>2. phase' \in {phase, next} /\ (phase' = "exit" => cur' = 1)
    BY <2>1 DEF Advance
  <2>3. phase' # "exit_rest"
    BY <2>1, <2>2
  <2>. QED
    BY <2>2, <2>3
<1>4. ASSUME SkipExitReset \/ Bus PROVE ResetPhaseSound'
  BY <1>4 DEF SkipExitReset, Bus, Exchange
<1>5. CASE BeginShutdown \/ StopThreads
  BY <1>5 DEF BeginShutdown, StopThreads
<1>6. ASSUME NEW s \in Slaves,
             CommandEnd(s) \/ FwTakeArg(s) \/ FwWork(s) \/ \E w \in CmdWords : CommandBegin(s, w)
      PROVE  ResetPhaseSound'
  BY <1>6 DEF CommandEnd, CommandBegin, FwTakeArg, FwWork
<1>7. CASE UNCHANGED vars
  BY <1>7 DEF vars
<1>. QED
  BY <1>1, <1>2, <1>3, <1>4, <1>5, <1>6, <1>7 DEF Next, DataThread

\* A slave none of whose parts changes keeps its invariant.
LEMMA CommandUntouched ==
    ASSUME NEW t \in Slaves, StartedSound(t), CommandSound(t),
           dev'[t] = dev[t], out'[t] = out[t], fw'[t] = fw[t], inp'[t] = inp[t],
           hist'[t].want = hist[t].want, Locked(t)' <=> Locked(t), Locked(t) => ros'.word = ros.word,
           exiting => exiting', exiting \in BOOLEAN, exiting' \in BOOLEAN
    PROVE  StartedSound(t)' /\ CommandSound(t)'
<1>1. Statuses(t)' = Statuses(t)
  BY DEF Statuses
<1>2. StartedSound(t)'
  BY <1>1 DEF StartedSound, NotReconnected
<1>3. CommandSound(t)'
  BY CommandTravels
<1>. QED
  BY <1>2, <1>3

\* Every step of the system keeps what is said about the slaves.
LEMMA NextCommand == TypeOK /\ CommandInv /\ [Next]_vars => CommandInv'
<1>. SUFFICES ASSUME TypeOK, CommandInv, [Next]_vars, NEW t \in Slaves
              PROVE  StartedSound(t)' /\ CommandSound(t)'
  BY NextResetPhase DEF CommandInv
<1>. USE DEF rosVars, exitVars, threadVars
<1>0. /\ StartedSound(t) /\ CommandSound(t) /\ dev[t] \in Device
      /\ exiting \in BOOLEAN /\ exiting' \in BOOLEAN
  BY NextTyped DEF CommandInv, TypeOK
<1>1. ASSUME NEW s \in Slaves, Receive(s) PROVE StartedSound(t)' /\ CommandSound(t)'
  <2>1. /\ out'[t] = out[t] /\ fw'[t] = fw[t] /\ inp'[t] = inp[t] /\ ros' = ros
        /\ exiting' = exiting /\ hist'[t].want = hist[t].want
        /\ dev'[t] = dev[t] \/ dev'[t] = [dev[t] EXCEPT !.slave_status = inp[t].status,
                                                       !.s2m_buf = inp[t].word]
    BY <1>1 DEF Receive, TypeOK, History
  <2>2. /\ dev'[t].slave_status \in {dev[t].slave_status, inp[t].status}
        /\ dev'[t].m2s_buf = dev[t].m2s_buf /\ dev'[t].master_status = dev[t].master_status
        /\ dev'[t].arg_sent = dev[t].arg_sent /\ dev'[t].ready = dev[t].ready
        /\ dev'[t].reconnected = dev[t].reconnected
    BY <2>1, <1>0 DEF Device
  <2>3. Statuses(t)' \subseteq Statuses(t)
    BY <2>1, <2>2 DEF Statuses
  <2>. QED
    BY <1>0, <2>1, <2>2, <2>3, StartedTravels, CommandTravels DEF Locked
<1>2. ASSUME NEW s \in Slaves, Process(s) PROVE StartedSound(t)' /\ CommandSound(t)'
  <2>1. CASE s = t
    BY <1>2, <1>0, <2>1, ProcessCommand
  <2>2. CASE s # t
    <3>1. dev'[t] = dev[t] /\ hist'[t] = hist[t]
      BY <1>2, <2>2 DEF Process, TypeOK
    <3>2. UNCHANGED <<out, fw, inp, ros, exiting>>
      BY <1>2 DEF Process
    <3>. QED
      BY <3>1, <3>2, <1>0, CommandUntouched DEF Locked
  <2>. QED
    BY <2>1, <2>2
<1>3. CASE SkipExitReset
  BY <1>3, <1>0, CommandUntouched DEF SkipExitReset, Locked
<1>4. ASSUME NEW s \in Slaves, ExitReset(s) \/ ExitResetRest(s)
      PROVE  StartedSound(t)' /\ CommandSound(t)'
  <2>1. exiting /\ exiting' = exiting /\ UNCHANGED <<out, fw, inp, ros>>
    BY <1>4 DEF ExitReset, ExitResetRest, ResetDue, CommandInv, ResetPhaseSound
  <2>2. \E w : dev'[t] \in {dev[t], [dev[t] EXCEPT !.m2s_buf = w]}
    <3>1. CASE dev' = dev
      BY <3>1
    <3>2. CASE dev' # dev
      <4>1. \E w : dev' = [dev EXCEPT ![s].m2s_buf = w]
        BY <1>4, <3>2 DEF ExitReset, ExitResetRest
      <4>. QED
        BY <4>1 DEF TypeOK
    <3>. QED
      BY <3>1, <3>2
  <2>3. /\ dev'[t].slave_status = dev[t].slave_status
        /\ dev'[t].master_status = dev[t].master_status
        /\ dev'[t].arg_sent = dev[t].arg_sent /\ dev'[t].ready = dev[t].ready
        /\ dev'[t].reconnected = dev[t].reconnected
    BY <2>2, <1>0 DEF Device
  <2>4. Statuses(t)' = Statuses(t)
    BY <2>1, <2>3 DEF Statuses
  <2>5. hist'[t].want \in {hist[t].want, InitWord}
    <3>1. CASE hist' = hist
      BY <3>1
    <3>2. CASE hist' = [hist EXCEPT ![s].astray = Astray(s, InitWord)]
      BY <3>2 DEF TypeOK, History
    <3>3. CASE hist' = [hist EXCEPT ![s].want = InitWord]
      BY <3>3 DEF TypeOK, History
    <3>. QED
      BY <1>4, <3>1, <3>2, <3>3 DEF ExitReset, ExitResetRest
  <2>6. StartedSound(t)'
    BY <1>0, <2>3, <2>4, StartedTravels
  <2>7. CommandSound(t)'
    BY <1>0, <2>1, <2>5 DEF CommandSound, Commands
  <2>. QED
    BY <2>6, <2>7
<1>6. ASSUME NEW s \in Slaves, Transfer(s) PROVE StartedSound(t)' /\ CommandSound(t)'
  <2>1. CASE s = t
    <3>1. dev' = dev /\ fw' = fw /\ inp' = inp /\ out'[t].status = dev[t].master_status
      BY <1>6, <2>1 DEF Transfer, TypeOK
    <3>2. Statuses(t)' \subseteq Statuses(t) \cup {dev[t].master_status}
      BY <3>1 DEF Statuses
    <3>3. StartedSound(t)'
      BY <3>1, <3>2, <1>0, StartedTravels
    <3>. QED
      BY <3>3, <1>6, <1>0, <2>1, TransferCommand
  <2>2. CASE s # t
    <3>1. out'[t] = out[t] /\ UNCHANGED <<dev, fw, inp, hist, ros, exiting>>
      BY <1>6, <2>2 DEF Transfer, TypeOK
    <3>. QED
      BY <3>1, <1>0, CommandUntouched DEF Locked
  <2>. QED
    BY <2>1, <2>2
<1>7. ASSUME NEW s \in Slaves, Cleanup(s) PROVE StartedSound(t)' /\ CommandSound(t)'
  BY <1>7, <1>0, CommandUntouched DEF Cleanup, Locked
<1>8. ASSUME NEW reached \in SUBSET Slaves, NEW back \in BOOLEAN, Exchange(reached, reached, back)
      PROVE  StartedSound(t)' /\ CommandSound(t)'
  <2>1. UNCHANGED <<dev, out, hist, ros, exiting>>
    BY <1>8 DEF Exchange
  <2>2. fw'[t].rx \in {fw[t].rx, out[t]} /\ fw'[t].tx = fw[t].tx
    BY <1>8 DEF Exchange, TypeOK
  <2>3. inp'[t] \in {inp[t], fw[t].tx}
    BY <1>8 DEF Exchange
  <2>4. Statuses(t)' \subseteq Statuses(t)
    BY <2>1, <2>2, <2>3 DEF Statuses
  <2>5. StartedSound(t)'
    BY <1>0, <2>1, <2>4, StartedTravels
  <2>6. CommandSound(t)'
    BY <1>0, <2>1, <2>2, CommandTravels DEF Locked
  <2>. QED
    BY <2>5, <2>6
<1>9. ASSUME NEW s \in Slaves, NEW w \in CmdWords, CommandBegin(s, w)
      PROVE  StartedSound(t)' /\ CommandSound(t)'
  <2>1. /\ UNCHANGED <<out, fw, inp, exiting>> /\ ros.slave = 0
        /\ ros'.slave = s
    BY <1>9 DEF CommandBegin, NoCall
  <2>2. CASE s = t
    <3>1. \E v : dev'[t] = [dev[t] EXCEPT !.m2s_buf = v]
      BY <1>9, <2>2 DEF CommandBegin, TypeOK
    <3>2. /\ dev'[t].slave_status = dev[t].slave_status
          /\ dev'[t].master_status = dev[t].master_status
          /\ dev'[t].arg_sent = dev[t].arg_sent /\ dev'[t].ready = dev[t].ready
          /\ dev'[t].reconnected = dev[t].reconnected
      BY <3>1, <1>0 DEF Device
    <3>3. Statuses(t)' = Statuses(t)
      BY <2>1, <3>2 DEF Statuses
    <3>4. StartedSound(t)'
      BY <1>0, <3>2, <3>3, StartedTravels
    <3>. QED
      BY <3>4, <1>9, <1>0, <2>2, BeginCommand
  <2>3. CASE s # t
    <3>1. dev'[t] = dev[t]
      BY <1>9, <2>3 DEF CommandBegin, TypeOK
    <3>2. ~Locked(t) /\ ~Locked(t)'
      BY <2>1, <2>3 DEF Locked, Slaves
    <3>3. hist'[t] = hist[t]
      BY <1>9, <2>3 DEF CommandBegin, TypeOK
    <3>. QED
      BY <3>1, <3>2, <3>3, <2>1, <1>0, CommandUntouched
  <2>. QED
    BY <2>2, <2>3
<1>10. ASSUME NEW s \in Slaves, CommandEnd(s) PROVE StartedSound(t)' /\ CommandSound(t)'
  <2>1. UNCHANGED <<out, fw, inp, exiting>> /\ ros.slave = s /\ ros'.slave = 0
    BY <1>10 DEF CommandEnd, Locked, NoCall
  <2>2. CASE s = t
    <3>1. \E v : dev'[t] = [dev[t] EXCEPT !.m2s_buf = v]
      BY <1>10, <2>2 DEF CommandEnd, TypeOK
    <3>2. /\ dev'[t].slave_status = dev[t].slave_status
          /\ dev'[t].master_status = dev[t].master_status
          /\ dev'[t].arg_sent = dev[t].arg_sent /\ dev'[t].ready = dev[t].ready
          /\ dev'[t].reconnected = dev[t].reconnected
      BY <3>1, <1>0 DEF Device
    <3>3. Statuses(t)' = Statuses(t)
      BY <2>1, <3>2 DEF Statuses
    <3>4. StartedSound(t)'
      BY <1>0, <3>2, <3>3, StartedTravels
    <3>. QED
      BY <3>4, <1>10, <1>0, <2>2, EndCommand
  <2>3. CASE s # t
    <3>1. dev'[t] = dev[t] /\ hist'[t] = hist[t]
      BY <1>10, <2>3 DEF CommandEnd, TypeOK
    <3>2. ~Locked(t) /\ ~Locked(t)'
      BY <2>1, <2>3 DEF Locked, Slaves
    <3>. QED
      BY <3>1, <3>2, <2>1, <1>0, CommandUntouched
  <2>. QED
    BY <2>2, <2>3
<1>11. CASE BeginShutdown
  BY <1>11, <1>0, CommandUntouched DEF BeginShutdown, Locked
<1>12. CASE StopThreads
  BY <1>12, <1>0, CommandUntouched DEF StopThreads, Locked
<1>13. ASSUME NEW s \in Slaves, FwTakeArg(s) PROVE StartedSound(t)' /\ CommandSound(t)'
  <2>1. /\ fw'[t].rx = fw[t].rx
        /\ fw'[t].tx.status \in {fw[t].tx.status, SLAVE_READY, SLAVE_INITIALIZING}
    <3>1. \E store, b, w, e : fw' = [fw EXCEPT ![s].store = store, ![s].tx =
              [status |-> IF b THEN SLAVE_READY ELSE SLAVE_INITIALIZING, word |-> w, epoch |-> e]]
      BY <1>13 DEF FwTakeArg
    <3>. QED
      BY <3>1 DEF TypeOK
  <2>2. UNCHANGED <<dev, out, inp, hist, ros, exiting>>
    BY <1>13 DEF FwTakeArg
  <2>3. Statuses(t)' \subseteq Statuses(t) \cup {SLAVE_READY, SLAVE_INITIALIZING}
    BY <2>1, <2>2 DEF Statuses
  <2>4. StartedSound(t)'
    BY <1>0, <2>2, <2>3, StartedTravels DEF SLAVE_READY, SLAVE_INITIALIZING, MASTER_READY
  <2>5. CommandSound(t)'
    BY <1>0, <2>1, <2>2, CommandTravels DEF Locked
  <2>. QED
    BY <2>4, <2>5
<1>14. ASSUME NEW s \in Slaves, FwWork(s) PROVE StartedSound(t)' /\ CommandSound(t)'
  <2>1. fw'[t].rx = fw[t].rx /\ fw'[t].tx.status \in {fw[t].tx.status, fw[t].rx.status}
    BY <1>14 DEF FwWork, TypeOK
  <2>2. UNCHANGED <<dev, out, inp, hist, ros, exiting>>
    BY <1>14 DEF FwWork
  <2>3. Statuses(t)' \subseteq Statuses(t)
    BY <2>1, <2>2 DEF Statuses
  <2>4. StartedSound(t)'
    BY <1>0, <2>2, <2>3, StartedTravels
  <2>5. CommandSound(t)'
    BY <1>0, <2>1, <2>2, CommandTravels DEF Locked
  <2>. QED
    BY <2>4, <2>5
<1>15. CASE UNCHANGED vars
  BY <1>15, <1>0, CommandUntouched DEF vars, Locked
<1>. QED
  BY <1>1, <1>2, <1>3, <1>4, <1>6, <1>7, <1>8, <1>9, <1>10, <1>11, <1>12, <1>13, <1>14, <1>15
  DEF Next, DataThread, Bus

\* The status of a slave and the meaning of its buffer never disagree.
THEOREM CommandsCorrect == Spec => []CommandInv
BY InitCommand, NextCommand, TypeCorrect, PTL DEF Spec

\* A working slave never drives its actuators with an argument byte or with half a command.
THEOREM CommandsActuate == Spec => []OnlyCommandsActuate
<1>1. CommandInv => OnlyCommandsActuate
  BY DEF CommandInv, CommandSound, Commands, OnlyCommandsActuate
<1>. QED
  BY <1>1, CommandsCorrect, PTL

\* No command accepted after the slave started is lost before the frame is assembled.
THEOREM CommandsKept == Spec => []LatestCommandKept
<1>1. CommandInv => LatestCommandKept
  BY DEF CommandInv, CommandSound, LatestCommandKept
<1>. QED
  BY <1>1, CommandsCorrect, PTL

-----------------------------------------------------------------------------
(* The exit reset reaches the actuators of every working slave, as long as  *)
(* no callback has run since shutdown began (NoLateCallback).               *)

\* A slave keeps its invariant if neither its buffer nor its status nor its outputs change
\* and the data thread does not get any further in the reset or the assembly.
LEMMA ExitTravels ==
    ASSUME NEW t \in Slaves, ExitSound(t), out'[t] = out[t],
           dev'[t].m2s_buf = dev[t].m2s_buf, dev'[t].master_status = dev[t].master_status,
           phase' = "exit_rest" /\ cur' = t => phase = "exit_rest" /\ cur = t,
           Passed(t)' => Passed(t), Assembled(t)' => Assembled(t)
    PROVE  ExitSound(t)'
BY DEF ExitSound

\* What a slave's visit, other than one by the reset, adds to what has been passed: nothing.
LEMMA VisitPasses ==
    ASSUME TypeOK, NEW t \in Slaves, NEW next, Advance(next), UNCHANGED exiting_reset_called,
           \/ phase = "receive" /\ next = "process"
           \/ phase = "process" /\ next = "exit"
           \/ phase = "transfer" /\ next = "send"
           \/ phase = "cleanup" /\ next = "done"
    PROVE  /\ Passed(t)' => Passed(t)
           /\ phase' # "exit_rest"
           /\ phase # "transfer" => (Assembled(t)' => Assembled(t))
           /\ phase = "transfer" /\ cur # t => (Assembled(t)' => Assembled(t))
<1>1. t \in Int /\ t >= 1 /\ t <= SlaveCount /\ cur \in Int /\ SlaveCount \in Int
  BY CycleAssumption DEF Slaves, TypeOK
<1>2. CASE cur < SlaveCount
  BY <1>1, <1>2 DEF Advance, Passed, Assembled
<1>3. CASE ~(cur < SlaveCount)
  <2>1. cur = SlaveCount
    BY <1>1, <1>3 DEF TypeOK, Slaves
  <2>. QED
    BY <1>1, <2>1 DEF Advance, Passed, Assembled
<1>. QED
  BY <1>2, <1>3

\* The exit reset and the assembly of frames start with nothing passed.
LEMMA InitExit == Init => ExitInv
BY DEF NoLateCallback, Init, ExitInv, ExitSound, Passed, Assembled, EmptyFrame, MASTER_READY

\* A late callback is never uncounted: if there is none after a step, there was none before.
LEMMA NoneBefore ==
    ASSUME TypeOK, [Next]_vars, NoLateCallback'
    PROVE  NoLateCallback
<1>. USE DEF NoLateCallback, rosVars
<1>0. late \in Nat
  BY DEF TypeOK
<1>1. CASE UNCHANGED late
  BY <1>1
<1>2. ASSUME NEW s \in Slaves,
             Receive(s) \/ Process(s) \/ ExitReset(s) \/ ExitResetRest(s) \/ Transfer(s)
             \/ Cleanup(s) \/ FwTakeArg(s) \/ FwWork(s) \/ CommandEnd(s)
      PROVE  UNCHANGED late
  BY <1>2 DEF Receive, Process, ExitReset, ExitResetRest, Transfer, Cleanup, FwTakeArg, FwWork,
              CommandEnd
<1>3. SkipExitReset \/ StopThreads \/ Bus \/ UNCHANGED vars => UNCHANGED late
  BY DEF SkipExitReset, StopThreads, Bus, Exchange, vars
<1>4. ASSUME BeginShutdown \/ \E s \in Slaves, w \in CmdWords : CommandBegin(s, w)
      PROVE  late' = late \/ late' = late + 1
  BY <1>4 DEF BeginShutdown, CommandBegin
<1>. QED
  BY <1>0, <1>1, <1>2, <1>3, <1>4 DEF Next, DataThread

\* Nobody but the exit reset writes a command once shutdown has begun.
LEMMA NextExitRos ==
    ASSUME TypeOK, CommandInv, ExitInv, [Next]_vars, NoLateCallback'
    PROVE  /\ (exiting => ros = NoCall)'
           /\ (exiting_reset_called => exiting)'
<1>0. /\ (exiting => ros = NoCall) /\ (exiting_reset_called => exiting)
      /\ late \in Nat /\ late' # late + 1
  BY NoneBefore DEF ExitInv, NoLateCallback, TypeOK
<1>. USE DEF rosVars, exitVars
<1>1. ASSUME UNCHANGED <<ros, exiting, exiting_reset_called>>
      PROVE  /\ (exiting => ros = NoCall)'
             /\ (exiting_reset_called => exiting)'
  BY <1>0, <1>1
<1>2. ASSUME NEW s \in Slaves,
             Receive(s) \/ Process(s) \/ ExitReset(s) \/ Transfer(s) \/ Cleanup(s)
             \/ FwTakeArg(s) \/ FwWork(s)
      PROVE  UNCHANGED <<ros, exiting, exiting_reset_called>>
  BY <1>2 DEF Receive, Process, ExitReset, Transfer, Cleanup, FwTakeArg, FwWork
<1>3. SkipExitReset \/ StopThreads \/ Bus \/ UNCHANGED vars =>
          UNCHANGED <<ros, exiting, exiting_reset_called>>
  BY DEF SkipExitReset, StopThreads, Bus, Exchange, vars
<1>4. ASSUME NEW s \in Slaves, ExitResetRest(s)
      PROVE  (exiting => ros = NoCall)' /\ (exiting_reset_called => exiting)'
  BY <1>4, <1>0 DEF ExitResetRest, CommandInv, ResetPhaseSound
<1>5. ASSUME NEW s \in Slaves, CommandEnd(s) \/ \E w \in CmdWords : CommandBegin(s, w)
      PROVE  (exiting => ros = NoCall)' /\ (exiting_reset_called => exiting)'
  BY <1>5, <1>0 DEF CommandEnd, CommandBegin
<1>6. CASE BeginShutdown
  BY <1>6, <1>0 DEF BeginShutdown
<1>. QED
  BY <1>1, <1>2, <1>3, <1>4, <1>5, <1>6 DEF Next, DataThread

\* The visit of the processing loop: a slave that starts gets the initial value.
LEMMA ProcessExit ==
    ASSUME TypeOK, NEW s \in Slaves, StartedSound(s), ExitSound(s), Process(s)
    PROVE  ExitSound(s)'
<1>1. out'[s] = out[s] /\ Advance("exit") /\ UNCHANGED exiting_reset_called /\ phase = "process"
  BY DEF Process, exitVars
<1>2. phase' # "exit_rest" /\ (Passed(s)' => Passed(s)) /\ (Assembled(s)' => Assembled(s))
  BY <1>1, VisitPasses
<1>. DEFINE d == dev[s]
            h == handshake(d)
            e == dev'[s]
<1>3. d \in Device /\ h \in Device /\ d.reconnected = 0
  BY HandshakeTyped DEF TypeOK, StartedSound, NotReconnected
<1>4. e \in {h, process_pdo(h)} /\ (~Publishes(d) => e = h)
  BY DEF Process, TypeOK
<1>5. e.master_status >= MASTER_READY =>
          e.m2s_buf = InitWord \/ (d.master_status >= MASTER_READY /\ e.m2s_buf = d.m2s_buf)
  <2>1. CASE Waiting(d)
    <3>1. e = h /\ (h.master_status = MASTER_SENDING_ARGUMENTS \/ h.m2s_buf = InitWord)
      BY <1>3, <1>4, <2>1, WaitingVisit
    <3>. HIDE DEF h
    <3>. QED
      BY <3>1 DEF MASTER_SENDING_ARGUMENTS, MASTER_READY
  <2>2. CASE Working(d)
    <3>1. h.m2s_buf = d.m2s_buf
      BY <1>3, <2>2, WorkingVisit DEF Device
    <3>. HIDE DEF h
    <3>2. e.m2s_buf = h.m2s_buf
      BY <1>3, <1>4 DEF process_pdo, Device
    <3>. QED
      BY <3>1, <3>2, <2>2 DEF Working
  <2>. QED
    BY <2>1, <2>2, <1>3, WaitsOrWorks
<1>. HIDE DEF h
<1>. QED
  BY <1>1, <1>2, <1>5 DEF ExitSound

\* Writing a half of a buffer whose other half is right.
LEMMA BufferOf ==
    ASSUME NEW d \in Device, NEW w
    PROVE  /\ [d EXCEPT !.m2s_buf = w].m2s_buf = w
           /\ [d EXCEPT !.m2s_buf = w].master_status = d.master_status
BY DEF Device

\* A working slave has been started, so its arguments are sent: it is to be reset.
LEMMA WorkingIsReset ==
    ASSUME NEW s \in Slaves, StartedSound(s), dev[s].master_status >= MASTER_READY
    PROVE  ToBeReset(dev[s])
BY DEF StartedSound, ToBeReset

\* The first half of the reset of slave s.
LEMMA FirstHalfExit ==
    ASSUME TypeOK, NEW s \in Slaves, NEW t \in Slaves, StartedSound(t), ExitSound(t), ExitReset(s)
    PROVE  ExitSound(t)'
<1>1. /\ phase = "exit" /\ phase' = "exit_rest" /\ cur = s /\ cur' = cur
      /\ UNCHANGED <<out, exiting_reset_called>>
  BY DEF ExitReset, exitVars
<1>2. (Passed(t)' <=> Passed(t)) /\ ~Assembled(t)'
  BY <1>1 DEF Passed, Assembled
<1>3. InitWord = <<InitWord[1], InitWord[2]>>
  BY DeviceAssumption DEF Word
<1>4. dev[t] \in Device
  BY DEF TypeOK
<1>5. CASE t = s /\ ToBeReset(dev[t])
  <2>1. dev'[t] = [dev[t] EXCEPT !.m2s_buf = <<InitWord[1], dev[t].m2s_buf[2]>>]
    BY <1>5 DEF ExitReset, TypeOK
  <2>2. /\ dev'[t].m2s_buf = <<InitWord[1], dev[t].m2s_buf[2]>>
        /\ dev'[t].master_status = dev[t].master_status
    BY <2>1, <1>4, BufferOf
  <2>3. dev'[t].m2s_buf[1] = InitWord[1]
    BY <2>2
  <2>4. dev[t].m2s_buf = InitWord => dev'[t].m2s_buf = InitWord
    BY <2>2, <1>3
  <2>. QED
    BY <1>1, <1>2, <2>2, <2>3, <2>4 DEF ExitSound
<1>6. CASE ~(t = s /\ ToBeReset(dev[t]))
  <2>1. dev'[t] = dev[t]
    BY <1>6 DEF ExitReset, TypeOK
  <2>2. cur' = t => ~(dev[t].master_status >= MASTER_READY)
    BY <1>1, <1>6, WorkingIsReset
  <2>. QED
    BY <1>1, <1>2, <2>1, <2>2 DEF ExitSound
<1>. QED
  BY <1>5, <1>6

\* The second half: the buffer holds the initial value, and the slave has been passed.
LEMMA SecondHalfExit ==
    ASSUME TypeOK, NEW s \in Slaves, NEW t \in Slaves, StartedSound(t), ExitSound(t), ExitResetRest(s)
    PROVE  ExitSound(t)'
<1>1. /\ phase = "exit_rest" /\ phase' \in {"exit", "transfer"} /\ cur = s
      /\ out' = out
  BY DEF ExitResetRest
<1>2. t \in Int /\ t >= 1 /\ t <= SlaveCount /\ s \in Int /\ SlaveCount \in Int /\ s <= SlaveCount
  BY CycleAssumption DEF Slaves
<1>3. Passed(t)' => Passed(t) \/ t = s
  <2>1. CASE s < SlaveCount
    <3>1. cur' = s + 1 /\ phase' = "exit"
      BY <1>1, <1>2, <2>1 DEF ExitResetRest
    <3>2. exiting_reset_called' <=> (s = SlaveCount)
      BY <1>1, Zenon DEF ExitResetRest
    <3>. QED
      BY <3>1, <3>2, <2>1, <1>1, <1>2 DEF Passed
  <2>2. CASE ~(s < SlaveCount)
    BY <1>1, <1>2, <2>2 DEF Passed
  <2>. QED
    BY <2>1, <2>2
<1>4. ~Assembled(t)'
  <2>1. CASE s < SlaveCount
    BY <1>1, <1>2, <2>1 DEF ExitResetRest, Assembled
  <2>2. CASE ~(s < SlaveCount)
    <3>1. cur' = 1 /\ phase' = "transfer"
      BY <1>1, <2>2 DEF ExitResetRest
    <3>. QED
      BY <3>1, <1>2 DEF Assembled
  <2>. QED
    BY <2>1, <2>2
<1>5. InitWord = <<InitWord[1], InitWord[2]>> /\ dev[t] \in Device
  BY DeviceAssumption DEF Word, TypeOK
<1>6. CASE t = s /\ ToBeReset(dev[t])
  <2>1. dev'[t] = [dev[t] EXCEPT !.m2s_buf = <<dev[t].m2s_buf[1], InitWord[2]>>]
    BY <1>6 DEF ExitResetRest, TypeOK
  <2>2. /\ dev'[t].m2s_buf = <<dev[t].m2s_buf[1], InitWord[2]>>
        /\ dev'[t].master_status = dev[t].master_status
    BY <2>1, <1>5, BufferOf
  <2>3. dev[t].master_status >= MASTER_READY => dev'[t].m2s_buf = InitWord
    BY <2>2, <1>1, <1>5, <1>6 DEF ExitSound
  <2>. QED
    BY <1>1, <1>4, <2>2, <2>3 DEF ExitSound
<1>7. CASE ~(t = s /\ ToBeReset(dev[t]))
  <2>1. dev'[t] = dev[t]
    BY <1>7 DEF ExitResetRest, TypeOK
  <2>2. t = s => ~(dev[t].master_status >= MASTER_READY)
    BY <1>7, WorkingIsReset
  <2>. QED
    BY <1>1, <1>3, <1>4, <2>1, <2>2 DEF ExitSound
<1>. QED
  BY <1>6, <1>7

\* The frame that is assembled after the reset takes the initial value along.
LEMMA TransferExit ==
    ASSUME TypeOK, NEW s \in Slaves, NEW t \in Slaves, ExitSound(t), Transfer(s)
    PROVE  ExitSound(t)'
<1>1. /\ phase = "transfer" /\ cur = s /\ Advance("send") /\ UNCHANGED <<dev, exiting_reset_called>>
      /\ s # t => out'[t] = out[t]
  BY DEF Transfer, exitVars, TypeOK
<1>2. phase' # "exit_rest" /\ (Passed(t)' => Passed(t)) /\ (cur # t => (Assembled(t)' => Assembled(t)))
  BY <1>1, VisitPasses
<1>3. CASE s # t
  BY <1>1, <1>2, <1>3, ExitTravels
<1>4. CASE s = t
  <2>1. out'[t].status = dev[t].master_status /\ out'[t].word = dev[t].m2s_buf
    BY <1>4 DEF Transfer, TypeOK
  <2>2. Assembled(t)' => Passed(t)
    BY <1>1 DEF Assembled, Passed
  <2>. QED
    BY <1>1, <1>2, <2>1, <2>2 DEF ExitSound
<1>. QED
  BY <1>3, <1>4

\* Every step of the system keeps the invariant.
LEMMA NextExit ==
    TypeOK /\ CommandInv /\ ExitInv /\ [Next]_vars => ExitInv'
<1>. SUFFICES ASSUME TypeOK, CommandInv, ExitInv, [Next]_vars, NoLateCallback', NEW t \in Slaves
              PROVE  ExitSound(t)'
  BY NextExitRos DEF ExitInv
<1>. USE DEF threadVars, exitVars
<1>0. /\ ExitSound(t) /\ StartedSound(t) /\ dev[t] \in Device
      /\ (exiting => ros = NoCall) /\ (exiting_reset_called => exiting)
      /\ late \in Nat /\ late' # late + 1
  BY NoneBefore DEF ExitInv, CommandInv, NoLateCallback, TypeOK
<1>1. ASSUME NEW s \in Slaves, Receive(s) PROVE ExitSound(t)'
  <2>1. /\ phase = "receive" /\ Advance("process") /\ UNCHANGED <<out, exiting_reset_called>>
        /\ dev'[t] = dev[t] \/ dev'[t] = [dev[t] EXCEPT !.slave_status = inp[t].status,
                                                       !.s2m_buf = inp[t].word]
    BY <1>1 DEF Receive, TypeOK
  <2>2. dev'[t].m2s_buf = dev[t].m2s_buf /\ dev'[t].master_status = dev[t].master_status
    BY <2>1, <1>0 DEF Device
  <2>. QED
    BY <2>1, <2>2, <1>0, VisitPasses, ExitTravels
<1>2. ASSUME NEW s \in Slaves, Process(s) PROVE ExitSound(t)'
  <2>1. CASE s = t
    BY <1>2, <1>0, <2>1, ProcessExit
  <2>2. CASE s # t
    <3>1. /\ phase = "process" /\ Advance("exit") /\ UNCHANGED <<out, exiting_reset_called>>
          /\ dev'[t] = dev[t]
      BY <1>2, <2>2 DEF Process, TypeOK
    <3>. QED
      BY <3>1, <1>0, VisitPasses, ExitTravels
  <2>. QED
    BY <2>1, <2>2
<1>3. CASE SkipExitReset
  <2>1. /\ phase = "exit" /\ cur = 1 /\ phase' = "transfer" /\ cur' = cur
        /\ UNCHANGED <<dev, out, exiting_reset_called>>
    BY <1>3 DEF SkipExitReset
  <2>2. t >= 1 /\ t \in Int
    BY CycleAssumption DEF Slaves
  <2>3. (Passed(t)' => Passed(t)) /\ ~Assembled(t)'
    BY <2>1, <2>2 DEF Passed, Assembled
  <2>. QED
    BY <2>1, <2>3, <1>0, ExitTravels
<1>4. ASSUME NEW s \in Slaves, ExitReset(s) \/ ExitResetRest(s) PROVE ExitSound(t)'
  BY <1>4, <1>0, FirstHalfExit, SecondHalfExit
<1>5. ASSUME NEW s \in Slaves, Transfer(s) PROVE ExitSound(t)'
  BY <1>5, <1>0, TransferExit
<1>6. ASSUME NEW s \in Slaves, Cleanup(s) PROVE ExitSound(t)'
  <2>1. phase = "cleanup" /\ Advance("done") /\ UNCHANGED <<dev, out, exiting_reset_called>>
    BY <1>6 DEF Cleanup
  <2>. QED
    BY <2>1, <1>0, VisitPasses, ExitTravels
<1>7. CASE Bus
  <2>1. /\ phase = "send" /\ phase' \in {"receive", "cleanup"}
        /\ UNCHANGED <<dev, out, exiting_reset_called>>
    BY <1>7 DEF Bus, Exchange
  <2>2. (Passed(t)' => Passed(t)) /\ (Assembled(t)' => Assembled(t))
    BY <2>1 DEF Passed, Assembled
  <2>. QED
    BY <2>1, <2>2, <1>0, ExitTravels
<1>8. ASSUME NEW s \in Slaves, CommandEnd(s) \/ \E w \in CmdWords : CommandBegin(s, w)
      PROVE  ExitSound(t)'
  <2>1. ~exiting /\ UNCHANGED <<phase, cur, exiting_reset_called>>
    BY <1>8, <1>0 DEF CommandEnd, CommandBegin, Locked, NoCall, Slaves
  <2>2. ~exiting_reset_called /\ phase # "exit_rest" /\ ~(phase = "exit" /\ cur > 1)
    BY <2>1, <1>0 DEF CommandInv, ResetPhaseSound
  <2>3. ~Passed(t) /\ ~Assembled(t)
    <3>1. t \in Int /\ t >= 1 /\ cur \in Int
      BY CycleAssumption DEF Slaves, TypeOK
    <3>. QED
      BY <2>2, <3>1 DEF Passed, Assembled
  <2>4. ~Passed(t)' /\ ~Assembled(t)' /\ phase' # "exit_rest"
    BY <2>1, <2>2, <2>3 DEF Passed, Assembled
  <2>. QED
    BY <2>4 DEF ExitSound
<1>9. ASSUME BeginShutdown \/ StopThreads \/ UNCHANGED vars
             \/ \E s \in Slaves : FwTakeArg(s) \/ FwWork(s)
      PROVE  ExitSound(t)'
  <2>1. UNCHANGED <<dev, out, phase, cur, exiting_reset_called>>
    BY <1>9 DEF BeginShutdown, StopThreads, vars, FwTakeArg, FwWork
  <2>2. (Passed(t)' <=> Passed(t)) /\ (Assembled(t)' <=> Assembled(t))
    BY <2>1 DEF Passed, Assembled
  <2>. QED
    BY <2>1, <2>2, <1>0, ExitTravels
<1>. QED
  BY <1>1, <1>2, <1>3, <1>4, <1>5, <1>6, <1>7, <1>8, <1>9 DEF Next, DataThread

\* Once the exit reset has been done, and until a late callback, no frame drives the actuators
\* of any slave with anything but the initial value.
THEOREM ExitResetsAll == Spec => []ExitResetsOnTime
<1>1. Init => ExitInv
  BY InitExit
<1>2. TypeOK /\ CommandInv /\ ExitInv /\ [Next]_vars => ExitInv'
  BY NextExit
<1>3. ExitInv => ExitResetsOnTime
  BY DEF ExitResetsOnTime, NoLateCallback, ExitInv, ExitSound, Assembled, ExitResets
<1>. QED
  BY <1>1, <1>2, <1>3, TypeCorrect, CommandsCorrect, PTL DEF Spec

-----------------------------------------------------------------------------
(* What is published: every sample once, none of it stale, all of it        *)
(* telemetry.  A working status tells which publication it belongs to, so   *)
(* a slave that has answered the current status has read the frame that     *)
(* carried it.                                                              *)

FreshSound(s) == EpochsOrdered(s) /\ StatusesTell(s) /\ SamplesSound(s)

\* The three ways a visit of the processing loop can go.
Idles(s) ==
    /\ hist'[s].pubs = hist[s].pubs
    /\ dev'[s].master_status = dev[s].master_status
Awaits(s) ==
    /\ hist'[s].pubs = hist[s].pubs
    /\ \A st \in Statuses(s) : ~(st >= MASTER_READY)
Samples(s) ==
    /\ hist'[s].pubs = hist[s].pubs + 1
    /\ dev[s].slave_status = dev[s].master_status /\ dev[s].master_status >= MASTER_READY
    /\ dev'[s].master_status = NextStatus(dev[s].master_status)

\* A visit goes one of these ways, and keeps what was received.
LEMMA ProcessVisit ==
    ASSUME TypeOK, NEW s \in Slaves, StartedSound(s), Process(s)
    PROVE  /\ dev'[s].slave_status = dev[s].slave_status /\ hist'[s].seen = hist[s].seen
           /\ Awaits(s) \/ (dev'[s].s2m_buf = dev[s].s2m_buf /\ (Idles(s) \/ Samples(s)))
<1>. DEFINE d == dev[s]
            h == handshake(d)
            e == dev'[s]
<1>1. d \in Device /\ h \in Device /\ d.reconnected = 0
  BY HandshakeTyped DEF TypeOK, StartedSound, NotReconnected
<1>2. e = IF Publishes(d) THEN process_pdo(h) ELSE h
  BY DEF Process, TypeOK
<1>3. /\ hist'[s].pubs = (IF Publishes(d) THEN hist[s].pubs + 1 ELSE hist[s].pubs)
      /\ hist'[s].seen = hist[s].seen
  BY DEF Process, TypeOK
<1>4. CASE Waiting(d) /\ ~(d.master_status >= MASTER_READY)
  <2>1. ~Publishes(d) /\ h.slave_status = d.slave_status
    BY <1>1, <1>4, WaitingVisit
  <2>2. \A st \in Statuses(s) : ~(st >= MASTER_READY)
    BY <1>4 DEF StartedSound
  <2>. HIDE DEF h
  <2>. QED
    BY <1>2, <1>3, <2>1, <2>2 DEF Awaits
<1>5. CASE Working(d) /\ d.master_status >= MASTER_READY
  <2>1. h \in {d, [d EXCEPT !.ready = TRUE]}
    BY <1>5, <1>1, WorkingVisit
  <2>2. /\ h.master_status = d.master_status /\ h.slave_status = d.slave_status
        /\ h.s2m_buf = d.s2m_buf
    BY <1>1, <2>1 DEF Device
  <2>3. CASE Publishes(d)
    <3>1. Answered(h) /\ e = process_pdo(h)
      BY <1>2, <2>3 DEF Publishes
    <3>. HIDE DEF h
    <3>2. e = [h EXCEPT !.master_status = NextStatus(h.master_status)]
      BY <3>1 DEF process_pdo
    <3>3. /\ e.master_status = NextStatus(d.master_status) /\ e.slave_status = d.slave_status
          /\ e.s2m_buf = d.s2m_buf
      BY <3>2, <2>2, <1>1 DEF Device
    <3>. QED
      BY <3>1, <3>3, <2>2, <2>3, <1>3, <1>5 DEF Samples, Answered
  <2>4. CASE ~Publishes(d)
    <3>. HIDE DEF h
    <3>. QED
      BY <2>2, <2>4, <1>2, <1>3 DEF Idles
  <2>. QED
    BY <2>3, <2>4
<1>. QED
  BY <1>1, <1>4, <1>5, WaitsOrWorks

\* The numbers an argument about epochs is about.
LEMMA EpochsTyped ==
    ASSUME TypeOK, NEW s \in Slaves
    PROVE  /\ hist[s].pubs \in Nat /\ hist[s].seen \in Nat
           /\ out[s].epoch \in Nat /\ inp[s].epoch \in Nat
           /\ fw[s].rx.epoch \in Nat /\ fw[s].tx.epoch \in Nat
           /\ dev[s].master_status \in Byte /\ dev[s].slave_status \in Byte
<1>1. /\ dev[s] \in Device /\ out[s] \in Frame /\ inp[s] \in Frame
      /\ fw[s].rx \in Frame /\ fw[s].tx \in Frame
      /\ hist[s] \in History
  BY DEF TypeOK
<1>. QED
  BY <1>1 DEF Frame, Device, History

\* A slave that has answered the current status has read the frame that carried it: the
\* status sent before the last publication is another one, even where the counter wraps.
LEMMA AnswersAreFresh ==
    ASSUME TypeOK, NEW s \in Slaves, EpochsOrdered(s), StatusesTell(s),
           dev[s].slave_status = dev[s].master_status, dev[s].master_status >= MASTER_READY
    PROVE  hist[s].seen = hist[s].pubs
<1>1. hist[s].seen + 1 # hist[s].pubs
  BY EpochsTyped, NextStatusTyped DEF StatusesTell, StatusTells
<1>. QED
  BY <1>1, EpochsTyped DEF EpochsOrdered

-----------------------------------------------------------------------------
(* The invariant.                                                           *)

\* Before the first frame nothing has been published and no status is a working one.
LEMMA InitFresh == Init => FreshInv
<1>. SUFFICES ASSUME Init, NEW s \in Slaves PROVE FreshSound(s)
  BY DEF FreshInv, FreshSound
<1>1. /\ dev[s] = ConfiguredDevice /\ out[s] = EmptyFrame /\ inp[s] = EmptyFrame
      /\ fw[s] = FreshFirmware /\ hist[s].pubs = 0 /\ hist[s].seen = 0
  BY DEF Init
<1>2. /\ out[s].epoch = 0 /\ inp[s].epoch = 0 /\ fw[s].rx.epoch = 0 /\ fw[s].tx.epoch = 0
      /\ out[s].status = 0 /\ inp[s].status = 0 /\ fw[s].rx.status = 0
      /\ fw[s].tx.status = SLAVE_INITIALIZING /\ dev[s].slave_status = 0
  BY <1>1 DEF EmptyFrame, FreshFirmware, ConfiguredDevice
<1>3. EpochsOrdered(s)
  BY <1>1, <1>2 DEF EpochsOrdered
<1>4. StatusesTell(s)
  BY <1>2 DEF StatusesTell, StatusTells, SLAVE_INITIALIZING, MASTER_READY
<1>5. SamplesSound(s)
  BY <1>2 DEF SamplesSound, SLAVE_INITIALIZING, MASTER_READY
<1>. QED
  BY <1>3, <1>4, <1>5 DEF FreshSound

\* A step that touches neither the status nor the samples of a slave.
LEMMA FreshUntouched ==
    ASSUME NEW t \in Slaves, FreshSound(t),
           out'[t] = out[t], fw'[t] = fw[t], inp'[t] = inp[t],
           hist'[t].pubs = hist[t].pubs, hist'[t].seen = hist[t].seen,
           dev'[t].master_status = dev[t].master_status,
           dev'[t].slave_status = dev[t].slave_status, dev'[t].s2m_buf = dev[t].s2m_buf
    PROVE  FreshSound(t)'
<1>1. EpochsOrdered(t)'
  BY DEF FreshSound, EpochsOrdered
<1>2. StatusesTell(t)'
  BY DEF FreshSound, StatusesTell, StatusTells
<1>3. SamplesSound(t)'
  BY DEF FreshSound, SamplesSound
<1>. QED
  BY <1>1, <1>2, <1>3 DEF FreshSound

\* The inputs of the last frame become what the master knows of the slave.
LEMMA ReceiveFresh ==
    ASSUME TypeOK, NEW s \in Slaves, FreshSound(s), Receive(s)
    PROVE  FreshSound(s)'
<1>1. /\ out'[s] = out[s] /\ fw'[s] = fw[s] /\ inp'[s] = inp[s]
      /\ hist'[s].pubs = hist[s].pubs /\ hist'[s].seen = inp[s].epoch
  BY DEF Receive, TypeOK
<1>2. /\ dev'[s].slave_status = inp[s].status /\ dev'[s].s2m_buf = inp[s].word
      /\ dev'[s].master_status = dev[s].master_status
  <2>1. dev[s] \in Device
    BY DEF TypeOK
  <2>2. dev'[s] = [dev[s] EXCEPT !.slave_status = inp[s].status, !.s2m_buf = inp[s].word]
    BY DEF Receive, TypeOK
  <2>. QED
    BY <2>1, <2>2 DEF Device
<1>3. EpochsOrdered(s)'
  BY <1>1, EpochsTyped DEF FreshSound, EpochsOrdered
<1>4. StatusesTell(s)'
  BY <1>1, <1>2 DEF FreshSound, StatusesTell, StatusTells
<1>5. SamplesSound(s)'
  BY <1>1, <1>2 DEF FreshSound, SamplesSound
<1>. QED
  BY <1>3, <1>4, <1>5 DEF FreshSound

\* A publication makes every status on the way the one before the current one.
LEMMA ProcessFresh ==
    ASSUME TypeOK, NEW s \in Slaves, StartedSound(s), FreshSound(s), Process(s)
    PROVE  FreshSound(s)'
<1>0. out'[s] = out[s] /\ fw'[s] = fw[s] /\ inp'[s] = inp[s]
  BY DEF Process
<1>1. /\ dev'[s].slave_status = dev[s].slave_status /\ hist'[s].seen = hist[s].seen
      /\ Awaits(s) \/ (dev'[s].s2m_buf = dev[s].s2m_buf /\ (Idles(s) \/ Samples(s)))
  BY ProcessVisit
<1>2. CASE Awaits(s)
  <2>1. EpochsOrdered(s)'
    BY <1>0, <1>1, <1>2 DEF FreshSound, EpochsOrdered, Awaits
  <2>2. \A st \in Statuses(s)' : ~(st >= MASTER_READY)
    BY <1>0, <1>1, <1>2 DEF Awaits, Statuses
  <2>3. StatusesTell(s)' /\ SamplesSound(s)'
    BY <2>2 DEF StatusesTell, StatusTells, SamplesSound, Statuses
  <2>. QED
    BY <2>1, <2>3 DEF FreshSound
<1>3. CASE dev'[s].s2m_buf = dev[s].s2m_buf /\ Idles(s)
  BY <1>0, <1>1, <1>3, FreshUntouched DEF Idles
<1>4. CASE dev'[s].s2m_buf = dev[s].s2m_buf /\ Samples(s)
  <2>1. hist[s].seen = hist[s].pubs
    BY <1>4, AnswersAreFresh DEF Samples, FreshSound
  <2>2. /\ inp[s].epoch = hist[s].pubs /\ out[s].epoch = hist[s].pubs
        /\ fw[s].rx.epoch = hist[s].pubs /\ fw[s].tx.epoch = hist[s].pubs
    BY <2>1, EpochsTyped DEF FreshSound, EpochsOrdered
  <2>3. EpochsOrdered(s)'
    BY <2>1, <2>2, <1>0, <1>1, <1>4, EpochsTyped DEF EpochsOrdered, Samples
  <2>4. ASSUME NEW st, StatusTells(s, st, hist[s].pubs)
        PROVE  st >= MASTER_READY =>
                   /\ hist[s].pubs = hist'[s].pubs => st = dev'[s].master_status
                   /\ hist[s].pubs + 1 = hist'[s].pubs => NextStatus(st) = dev'[s].master_status
    BY <2>4, <1>4, EpochsTyped DEF StatusTells, Samples
  <2>5. StatusesTell(s)'
    BY <2>1, <2>2, <2>4, <1>0, <1>1 DEF FreshSound, StatusesTell, StatusTells
  <2>6. SamplesSound(s)'
    BY <1>0, <1>1, <1>4 DEF FreshSound, SamplesSound
  <2>. QED
    BY <2>3, <2>5, <2>6 DEF FreshSound
<1>. QED
  BY <1>1, <1>2, <1>3, <1>4

\* The frame that is assembled carries the current status.
LEMMA TransferFresh ==
    ASSUME TypeOK, NEW s \in Slaves, FreshSound(s), Transfer(s)
    PROVE  FreshSound(s)'
<1>1. /\ out'[s].status = dev[s].master_status /\ out'[s].epoch = hist[s].pubs
      /\ UNCHANGED <<dev, fw, inp, hist>>
  BY DEF Transfer, TypeOK
<1>2. EpochsOrdered(s)'
  BY <1>1, EpochsTyped DEF FreshSound, EpochsOrdered
<1>3. StatusesTell(s)'
  BY <1>1, EpochsTyped DEF FreshSound, StatusesTell, StatusTells
<1>4. SamplesSound(s)'
  BY <1>1 DEF FreshSound, SamplesSound
<1>. QED
  BY <1>2, <1>3, <1>4 DEF FreshSound

\* A frame takes the outputs to the slave and its inputs back, with their epochs.
LEMMA ExchangeFresh ==
    ASSUME TypeOK, NEW s \in Slaves, FreshSound(s),
           NEW writes, NEW reads, NEW back, Exchange(writes, reads, back)
    PROVE  FreshSound(s)'
<1>1. /\ fw'[s].rx \in {fw[s].rx, out[s]} /\ fw'[s].tx = fw[s].tx
      /\ inp'[s] \in {inp[s], fw[s].tx} /\ UNCHANGED <<dev, out, hist>>
  BY DEF Exchange, TypeOK
<1>2. EpochsOrdered(s)'
  BY <1>1, EpochsTyped DEF FreshSound, EpochsOrdered
<1>3. StatusesTell(s)'
  BY <1>1 DEF FreshSound, StatusesTell, StatusTells
<1>4. SamplesSound(s)'
  BY <1>1 DEF FreshSound, SamplesSound
<1>. QED
  BY <1>2, <1>3, <1>4 DEF FreshSound

\* What the firmware prepares has the epoch of what it read.
LEMMA FirmwareFresh ==
    ASSUME TypeOK, NEW s \in Slaves, FreshSound(s), FwTakeArg(s) \/ FwWork(s)
    PROVE  FreshSound(s)'
<1>1. /\ fw'[s].rx = fw[s].rx /\ fw'[s].tx.epoch = fw[s].rx.epoch
      /\ \/ fw'[s].tx.status \in {SLAVE_READY, SLAVE_INITIALIZING}
         \/ fw'[s].tx.status = fw[s].rx.status /\ fw'[s].tx.word \in Telemetry
  <2>1. CASE FwTakeArg(s)
    <3>1. \E store, b : fw' = [fw EXCEPT ![s].store = store, ![s].tx =
              [ status |-> IF b THEN SLAVE_READY ELSE SLAVE_INITIALIZING,
                word |-> fw[s].rx.word, epoch |-> fw[s].rx.epoch ]]
      BY <2>1 DEF FwTakeArg
    <3>. QED
      BY <3>1 DEF TypeOK
  <2>2. CASE FwWork(s)
    BY <2>2 DEF FwWork, TypeOK
  <2>. QED
    BY <2>1, <2>2
<1>2. UNCHANGED <<dev, out, inp, hist>>
  BY DEF FwTakeArg, FwWork
<1>3. EpochsOrdered(s)'
  BY <1>1, <1>2, EpochsTyped DEF FreshSound, EpochsOrdered
<1>4. StatusesTell(s)'
  BY <1>1, <1>2
  DEF FreshSound, StatusesTell, StatusTells, SLAVE_READY, SLAVE_INITIALIZING, MASTER_READY
<1>5. SamplesSound(s)'
  BY <1>1, <1>2 DEF FreshSound, SamplesSound, SLAVE_READY, SLAVE_INITIALIZING, MASTER_READY
<1>. QED
  BY <1>3, <1>4, <1>5 DEF FreshSound

\* Writing the buffer, or its half, disturbs nothing of what is said here.
LEMMA BufferFresh ==
    ASSUME TypeOK, NEW s \in Slaves, FreshSound(s),
           NEW w, dev'[s] \in {dev[s], [dev[s] EXCEPT !.m2s_buf = w]},
           hist'[s].pubs = hist[s].pubs, hist'[s].seen = hist[s].seen,
           UNCHANGED <<out, fw, inp>>
    PROVE  FreshSound(s)'
<1>1. dev[s] \in Device
  BY DEF TypeOK
<1>2. /\ dev'[s].master_status = dev[s].master_status
      /\ dev'[s].slave_status = dev[s].slave_status /\ dev'[s].s2m_buf = dev[s].s2m_buf
  BY <1>1 DEF Device
<1>. QED
  BY <1>2, FreshUntouched

\* A command in the history of a slave is not a publication.
Notes(s) ==
    \/ hist' = hist
    \/ \E w : hist' = [hist EXCEPT ![s].want = w]
    \/ \E a : hist' = [hist EXCEPT ![s].astray = a]

\* It leaves the samples alone.
LEMMA WantOnly ==
    ASSUME TypeOK, NEW s \in Slaves, NEW t \in Slaves, Notes(s)
    PROVE  hist'[t].pubs = hist[t].pubs /\ hist'[t].seen = hist[t].seen
<1>1. CASE hist' = hist
  BY <1>1
<1>2. ASSUME NEW w, hist' = [hist EXCEPT ![s].want = w]
      PROVE  hist'[t].pubs = hist[t].pubs /\ hist'[t].seen = hist[t].seen
  BY <1>2 DEF TypeOK, History
<1>3. ASSUME NEW a, hist' = [hist EXCEPT ![s].astray = a]
      PROVE  hist'[t].pubs = hist[t].pubs /\ hist'[t].seen = hist[t].seen
  BY <1>3 DEF TypeOK, History
<1>. QED
  BY <1>1, <1>2, <1>3 DEF Notes

\* Every step of the system keeps the invariant.
LEMMA NextFresh == TypeOK /\ CommandInv /\ FreshInv /\ [Next]_vars => FreshInv'
<1>. SUFFICES ASSUME TypeOK, CommandInv, FreshInv, [Next]_vars, NEW t \in Slaves
              PROVE  FreshSound(t)'
  BY DEF FreshInv, FreshSound
<1>. USE DEF threadVars
<1>0. FreshSound(t) /\ StartedSound(t)
  BY DEF FreshInv, FreshSound, CommandInv
<1>1. ASSUME NEW s \in Slaves, Receive(s) PROVE FreshSound(t)'
  <2>1. s # t => dev'[t] = dev[t] /\ hist'[t] = hist[t] /\ UNCHANGED <<out, fw, inp>>
    BY <1>1 DEF Receive, TypeOK
  <2>. QED
    BY <2>1, <1>1, <1>0, ReceiveFresh, FreshUntouched
<1>2. ASSUME NEW s \in Slaves, Process(s) PROVE FreshSound(t)'
  <2>1. s # t => dev'[t] = dev[t] /\ hist'[t] = hist[t] /\ UNCHANGED <<out, fw, inp>>
    BY <1>2 DEF Process, TypeOK
  <2>. QED
    BY <2>1, <1>2, <1>0, ProcessFresh, FreshUntouched
<1>3. ASSUME SkipExitReset \/ BeginShutdown \/ StopThreads \/ (\E s \in Slaves : Cleanup(s))
             \/ UNCHANGED vars
      PROVE  FreshSound(t)'
  <2>1. UNCHANGED <<dev, out, fw, inp, hist>>
    BY <1>3 DEF SkipExitReset, BeginShutdown, StopThreads, Cleanup, vars
  <2>. QED
    BY <2>1, <1>0, FreshUntouched
<1>4. ASSUME NEW s \in Slaves, ExitReset(s) \/ ExitResetRest(s) PROVE FreshSound(t)'
  <2>1. \E w : dev'[t] \in {dev[t], [dev[t] EXCEPT !.m2s_buf = w]}
    <3>1. CASE dev' = dev
      BY <3>1
    <3>2. CASE dev' # dev
      <4>1. \E w : dev' = [dev EXCEPT ![s].m2s_buf = w]
        BY <1>4, <3>2 DEF ExitReset, ExitResetRest
      <4>. QED
        BY <4>1 DEF TypeOK
    <3>. QED
      BY <3>1, <3>2
  <2>2. UNCHANGED <<out, fw, inp>> /\ Notes(s)
    BY <1>4 DEF ExitReset, ExitResetRest, Notes
  <2>3. hist'[t].pubs = hist[t].pubs /\ hist'[t].seen = hist[t].seen
    BY <2>2, WantOnly
  <2>. QED
    BY <2>1, <2>2, <2>3, <1>0, BufferFresh
<1>5. ASSUME NEW s \in Slaves, Transfer(s) PROVE FreshSound(t)'
  <2>1. s # t => out'[t] = out[t] /\ UNCHANGED <<dev, fw, inp, hist>>
    BY <1>5 DEF Transfer, TypeOK
  <2>. QED
    BY <2>1, <1>5, <1>0, TransferFresh, FreshUntouched
<1>6. ASSUME Bus PROVE FreshSound(t)'
  BY <1>6, <1>0, ExchangeFresh DEF Bus
<1>7. ASSUME NEW s \in Slaves, CommandEnd(s) \/ \E w \in CmdWords : CommandBegin(s, w)
      PROVE  FreshSound(t)'
  <2>1. \E w : dev'[t] \in {dev[t], [dev[t] EXCEPT !.m2s_buf = w]}
    <3>1. \E w : dev' = [dev EXCEPT ![s].m2s_buf = w]
      BY <1>7 DEF CommandBegin, CommandEnd
    <3>. QED
      BY <3>1 DEF TypeOK
  <2>2. UNCHANGED <<out, fw, inp>> /\ Notes(s)
    BY <1>7 DEF CommandBegin, CommandEnd, Notes
  <2>3. hist'[t].pubs = hist[t].pubs /\ hist'[t].seen = hist[t].seen
    BY <2>2, WantOnly
  <2>. QED
    BY <2>1, <2>2, <2>3, <1>0, BufferFresh
<1>8. ASSUME NEW s \in Slaves, FwTakeArg(s) \/ FwWork(s) PROVE FreshSound(t)'
  <2>1. UNCHANGED <<dev, out, inp, hist>> /\ (s # t => fw'[t] = fw[t])
    BY <1>8 DEF FwTakeArg, FwWork, TypeOK
  <2>. QED
    BY <2>1, <1>8, <1>0, FirmwareFresh, FreshUntouched
<1>. QED
  BY <1>1, <1>2, <1>3, <1>4, <1>5, <1>6, <1>7, <1>8 DEF Next, DataThread

\* Only the visit of the processing loop publishes, and only an answer to the current status.
LEMMA PublishStep ==
    TypeOK /\ CommandInv /\ FreshInv /\ [Next]_vars =>
        \A s \in Slaves : hist'[s].pubs # hist[s].pubs =>
            hist[s].seen = hist[s].pubs /\ dev[s].s2m_buf \in Telemetry
<1>. SUFFICES ASSUME TypeOK, CommandInv, FreshInv, [Next]_vars,
                     NEW t \in Slaves, hist'[t].pubs # hist[t].pubs
              PROVE  hist[t].seen = hist[t].pubs /\ dev[t].s2m_buf \in Telemetry
  OBVIOUS
<1>1. Process(t)
  <2>1. \/ hist' = hist
        \/ \E s \in Slaves : Receive(s) \/ Process(s) \/ Notes(s)
    BY DEF Next, DataThread, SkipExitReset, ExitReset, ExitResetRest, Transfer, Cleanup, Bus,
           Exchange, CommandBegin, CommandEnd, BeginShutdown, StopThreads, FwTakeArg, FwWork,
           vars, Notes
  <2>2. PICK s \in Slaves : Receive(s) \/ Process(s) \/ Notes(s)
    BY <2>1
  <2>3. ASSUME Receive(s) \/ Notes(s) PROVE FALSE
    <3>1. CASE Receive(s)
      BY <3>1 DEF Receive, TypeOK, History
    <3>2. CASE Notes(s)
      BY <3>2, WantOnly
    <3>. QED
      BY <2>3, <3>1, <3>2
  <2>4. Process(s) /\ s = t
    BY <2>2, <2>3 DEF Process, TypeOK
  <2>. QED
    BY <2>4
<1>2. StartedSound(t) /\ FreshSound(t)
  BY DEF CommandInv, FreshInv, FreshSound
<1>3. Samples(t)
  BY <1>1, <1>2, ProcessVisit DEF Idles, Awaits
<1>. QED
  BY <1>2, <1>3, AnswersAreFresh DEF Samples, FreshSound, SamplesSound

\* Statuses tell which publication they belong to, wherever they are on the way.
THEOREM StatusesCorrect == Spec => []FreshInv
BY InitFresh, NextFresh, TypeCorrect, CommandsCorrect, PTL DEF Spec

\* No sample is published twice, and none that was taken before the frame was sent whose
\* time stamp it gets.
THEOREM SamplesFresh == Spec => FreshSample
<1>1. TypeOK /\ CommandInv /\ FreshInv /\ [Next]_vars =>
          [\A s \in Slaves : hist'[s].pubs # hist[s].pubs => hist[s].seen = hist[s].pubs]_vars
  BY PublishStep
<1>. QED
  BY <1>1, TypeCorrect, CommandsCorrect, StatusesCorrect, PTL DEF Spec, FreshSample

\* No echo of an argument is ever published as telemetry.
THEOREM TelemetryPublished == Spec => PublishesTelemetry
<1>1. TypeOK /\ CommandInv /\ FreshInv /\ [Next]_vars =>
          [\A s \in Slaves : hist'[s].pubs # hist[s].pubs => dev[s].s2m_buf \in Telemetry]_vars
  BY PublishStep
<1>. QED
  BY <1>1, TypeCorrect, CommandsCorrect, StatusesCorrect, PTL DEF Spec, PublishesTelemetry
=============================================================================
