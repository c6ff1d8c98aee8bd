--------------------------- MODULE PdoCycleProofs --------------------------
(***************************************************************************)
(* Theorems about the process-data cycle, for any number of slaves, any    *)
(* argument buffer and any bounds.                                         *)
(***************************************************************************)
EXTENDS PdoCycleInv, TLAPS

-----------------------------------------------------------------------------
(* Lemmas about the methods of a device.                                    *)

\* Bounds are kept folded: a prover unfolds a literal range into all its elements.
LEMMA Bounds ==
    /\ MaxByte \in Nat /\ MaxByte >= 6
    /\ MaxNumber \in Nat /\ MaxNumber >= 1
BY DEF MaxByte, MaxNumber

\* Pairs that are words, and what the halves of a word are.
LEMMA WordPairs == \A n \in Number, b \in Byte : <<n, b>> \in Word
BY SMT DEF Word

\* The halves of a word are a number and a byte.
LEMMA WordHalves == \A w \in Word : w[1] \in Number /\ w[2] \in Byte
BY SMT DEF Word

\* The index of an argument byte fits into the 16 bits it is sent in.
LEMMA ArgIndexTyped ==
    /\ ArgLen \in Nat \ {0}
    /\ \A i \in 1 .. ArgLen : i \in Number
<1>1. ArgLen \in Number /\ ArgLen # 0
  BY ArgAssumption
<1>. QED
  BY <1>1, Bounds DEF Number

\* The words the master itself writes are words.
LEMMA WordsTyped ==
    /\ ZeroWord \in Word
    /\ InitWord \in Word
    /\ \A i \in 1 .. ArgLen : ArgWord(i) \in Word /\ ArgWord(i)[1] = i /\ ArgWord(i)[2] = Arg[i]
<1>1. 0 \in Number /\ 0 \in Byte
  BY Bounds DEF Number, Byte
<1>2. ZeroWord \in Word
  BY <1>1, WordPairs DEF ZeroWord
<1>3. \A i \in 1 .. ArgLen : ArgWord(i) \in Word
  BY ArgIndexTyped, ArgAssumption, WordPairs DEF ArgWord
<1>4. \A i \in 1 .. ArgLen : ArgWord(i)[1] = i /\ ArgWord(i)[2] = Arg[i]
  BY DEF ArgWord
<1>. QED
  BY <1>2, <1>3, <1>4, DeviceAssumption

\* The initial device is a device.
LEMMA ConfiguredTyped == ConfiguredDevice \in Device
<1>1. 0 \in Byte /\ MASTER_SENDING_ARGUMENTS \in Byte
  BY Bounds DEF Byte, MASTER_SENDING_ARGUMENTS
<1>2. 1 \in 1 .. ArgLen /\ 0 \in 0 .. ReconnMod - 1
  BY ArgIndexTyped, DeviceAssumption
<1>. QED
  BY <1>1, <1>2, WordsTyped DEF ConfiguredDevice, Device

\* The status moves on to another status of the working range.
LEMMA NextStatusTyped ==
    \A m \in Byte : /\ NextStatus(m) \in Byte
                    /\ NextStatus(m) # m
                    /\ m >= MASTER_READY => NextStatus(m) >= MASTER_READY
BY Bounds, SeqAssumption DEF NextStatus, Byte, MASTER_READY

\* send_arg keeps the type of a device and touches the transfer's fields only.
LEMMA SendArgTyped ==
    ASSUME NEW d \in Device
    PROVE  send_arg(d) \in Device
<1>1. d.arg_idx \in 1 .. ArgLen /\ (d.arg_idx # ArgLen => d.arg_idx + 1 \in 1 .. ArgLen)
  BY ArgIndexTyped DEF Device
<1>2. \A i \in 1 .. ArgLen : ArgWord(i) \in Word
  BY WordsTyped
<1>. QED
  BY <1>1, <1>2 DEF send_arg, Echoed, Device

\* Starting the slave keeps the type of a device.
LEMMA StartWorkingTyped ==
    ASSUME NEW d \in Device
    PROVE  start_working(d) \in Device
<1>1. MASTER_READY \in Byte
  BY Bounds DEF MASTER_READY, Byte
<1>. QED
  BY <1>1, WordsTyped
  DEF start_working, write_init_values, recover_master_to_slave_buf, Device

\* A visit of the processing loop keeps the type of the device.
LEMMA HandshakeTyped ==
    ASSUME NEW d \in Device
    PROVE  /\ handshake(d) \in Device
           /\ process_pdo(handshake(d)) \in Device
<1>1. confirm_ready(d) \in Device
  BY DEF confirm_ready, Device
<1>2. send_next_arg(confirm_ready(d)) \in Device
  BY <1>1, SendArgTyped DEF send_next_arg
<1>3. start_working(send_next_arg(confirm_ready(d))) \in Device
  BY <1>2, StartWorkingTyped
<1>4. handshake(d) \in Device
  BY <1>3 DEF handshake
<1>5. ASSUME NEW e \in Device PROVE process_pdo(e) \in Device
  BY NextStatusTyped DEF process_pdo, Device
<1>. QED
  BY <1>4, <1>5

\* Overwriting the first bytes of a buffer, or what was received, keeps the type.
LEMMA DeviceUpdates ==
    ASSUME NEW d \in Device
    PROVE  /\ \A w \in Word : [d EXCEPT !.m2s_buf = w] \in Device
           /\ \A st \in Byte, w \in Word : [d EXCEPT !.slave_status = st, !.s2m_buf = w] \in Device
<1>1. \A w \in Word : [d EXCEPT !.m2s_buf = w] \in Device
  BY DEF Device
<1>2. ASSUME NEW st \in Byte, NEW w \in Word
      PROVE  [d EXCEPT !.slave_status = st, !.s2m_buf = w] \in Device
  BY DEF Device
<1>. QED
  BY <1>1, <1>2

-----------------------------------------------------------------------------
(* Type correctness.                                                        *)

\* A slave's visit moves the data thread to the next slave or phase.
LEMMA AdvanceTyped ==
    ASSUME NEW next \in Phases, phase \in Phases, cur \in Slaves, Advance(next)
    PROVE  phase' \in Phases /\ cur' \in Slaves
BY CycleAssumption DEF Advance, Slaves

\* The places of the data thread.
LEMMA PhasesTyped ==
    /\ "receive" \in Phases /\ "process" \in Phases /\ "exit" \in Phases
    /\ "exit_rest" \in Phases /\ "transfer" \in Phases /\ "send" \in Phases
    /\ "cleanup" \in Phases /\ "done" \in Phases
BY DEF Phases

\* The initial state has the types.
LEMMA InitTyped == Init => TypeOK
<1>. SUFFICES ASSUME Init PROVE TypeOK
  OBVIOUS
<1>1. EmptyFrame \in Frame /\ [EmptyFrame EXCEPT !.status = SLAVE_INITIALIZING] \in Frame
  BY WordsTyped, Bounds DEF EmptyFrame, Frame, Byte, SLAVE_INITIALIZING
<1>2. dev \in [Slaves -> Device]
  BY ConfiguredTyped DEF Init
<1>3. out \in [Slaves -> Frame] /\ inp \in [Slaves -> Frame]
  BY <1>1 DEF Init
<1>4. fw \in [Slaves -> [rx : Frame, tx : Frame, store : [1 .. ArgLen -> Byte \cup {NoByte}]]]
  BY <1>1 DEF Init, FreshFirmware
<1>5. cur \in Slaves /\ phase \in Phases
  BY CycleAssumption, PhasesTyped DEF Init, Slaves
<1>6. hist \in [Slaves -> History]
  BY WordsTyped DEF Init, History
<1>. QED
  BY <1>2, <1>3, <1>4, <1>5, <1>6 DEF Init, TypeOK

\* A frame takes the outputs to some of the slaves and brings the inputs of some.
LEMMA ExchangeTyped ==
    ASSUME TypeOK, NEW writes, NEW reads, NEW back, Exchange(writes, reads, back)
    PROVE  TypeOK'
<1>0. \A s \in Slaves :
          /\ out[s] \in Frame /\ inp[s] \in Frame
          /\ fw[s] \in [rx : Frame, tx : Frame, store : [1 .. ArgLen -> Byte \cup {NoByte}]]
  BY DEF TypeOK
<1>1. fw' \in [Slaves -> [rx : Frame, tx : Frame, store : [1 .. ArgLen -> Byte \cup {NoByte}]]]
  BY <1>0 DEF Exchange
<1>2. inp' \in [Slaves -> Frame]
  BY <1>0 DEF Exchange
<1>3. phase' \in Phases
  BY PhasesTyped DEF Exchange
<1>. QED
  BY <1>1, <1>2, <1>3 DEF Exchange, TypeOK, rosVars, exitVars

\* What the history keeps of the arguments is a set of their indices.
LEMMA AstrayTyped ==
    ASSUME NEW s \in Slaves, NEW w, hist[s].astray \in SUBSET (1 .. ArgLen)
    PROVE  Astray(s, w) \in SUBSET (1 .. ArgLen)
BY DEF Astray, NamesArg

\* Every step of the system keeps the types.
LEMMA NextTyped == TypeOK /\ [Next]_vars => TypeOK'
<1>. SUFFICES ASSUME TypeOK, [Next]_vars PROVE TypeOK'
  OBVIOUS
<1>. USE PhasesTyped DEF rosVars, exitVars, threadVars, History
<1>0. /\ \A s \in Slaves : dev[s] \in Device /\ out[s] \in Frame /\ inp[s] \in Frame
      /\ \A s \in Slaves : hist[s] \in History
      /\ \A s \in Slaves :
             fw[s] \in [rx : Frame, tx : Frame, store : [1 .. ArgLen -> Byte \cup {NoByte}]]
  BY DEF TypeOK
<1>1. ASSUME NEW s \in Slaves, Receive(s) PROVE TypeOK'
  <2>1. dev' \in [Slaves -> Device]
    <3>1. inp[s].status \in Byte /\ inp[s].word \in Word
      BY <1>0 DEF Frame
    <3>. QED
      BY <1>1, <1>0, <3>1, DeviceUpdates DEF Receive, TypeOK
  <2>2. hist' \in [Slaves -> History]
    <3>1. inp[s].epoch \in Nat
      BY <1>0 DEF Frame
    <3>. QED
      BY <1>1, <3>1 DEF Receive, TypeOK
  <2>3. phase' \in Phases /\ cur' \in Slaves
    BY <1>1, AdvanceTyped DEF Receive, TypeOK
  <2>. QED
    BY <1>1, <2>1, <2>2, <2>3 DEF Receive, TypeOK
<1>2. ASSUME NEW s \in Slaves, Process(s) PROVE TypeOK'
  <2>1. dev' \in [Slaves -> Device]
    BY <1>2, <1>0, HandshakeTyped DEF Process, TypeOK
  <2>2. hist' \in [Slaves -> History]
    <3>. DEFINE pubs == IF Publishes(dev[s]) THEN hist[s].pubs + 1 ELSE hist[s].pubs
                want == IF StartsNow(dev[s]) /\ dev[s].reconnected = 0
                        THEN InitWord ELSE hist[s].want
    <3>1. pubs \in Nat /\ want \in Word
      BY <1>0, WordsTyped
    <3>2. hist' = [hist EXCEPT ![s].pubs = pubs, ![s].want = want]
      BY <1>2 DEF Process
    <3>. HIDE DEF pubs, want
    <3>. QED
      BY <3>1, <3>2 DEF TypeOK
  <2>3. phase' \in Phases /\ cur' \in Slaves
    BY <1>2, AdvanceTyped DEF Process, TypeOK
  <2>. QED
    BY <1>2, <2>1, <2>2, <2>3 DEF Process, TypeOK
<1>3. CASE SkipExitReset
  BY <1>3 DEF SkipExitReset, TypeOK
<1>4. ASSUME NEW s \in Slaves, ExitReset(s) PROVE TypeOK'
  <2>1. <<InitWord[1], dev[s].m2s_buf[2]>> \in Word
    BY <1>0, WordsTyped, WordHalves, WordPairs DEF Device
  <2>2. dev' \in [Slaves -> Device] /\ hist' \in [Slaves -> History]
    <3>1. CASE dev[s].arg_sent
      <4>1. /\ dev' = [dev EXCEPT ![s].m2s_buf = <<InitWord[1], @[2]>>]
            /\ hist' = [hist EXCEPT ![s].astray = Astray(s, InitWord)]
        BY <1>4, <3>1 DEF ExitReset, ToBeReset
      <4>2. Astray(s, InitWord) \in SUBSET (1 .. ArgLen)
        BY <1>0, AstrayTyped
      <4>. QED
        BY <4>1, <4>2, <1>0, <2>1, DeviceUpdates DEF TypeOK
    <3>2. CASE ~dev[s].arg_sent
      BY <1>4, <3>2 DEF ExitReset, ToBeReset, TypeOK
    <3>. QED
      BY <3>1, <3>2
  <2>. QED
    BY <1>4, <2>2 DEF ExitReset, ToBeReset, TypeOK
<1>5. ASSUME NEW s \in Slaves, ExitResetRest(s) PROVE TypeOK'
  <2>1. <<dev[s].m2s_buf[1], InitWord[2]>> \in Word
    BY <1>0, WordsTyped, WordHalves, WordPairs DEF Device
  <2>2. dev' \in [Slaves -> Device]
    <3>1. CASE dev[s].arg_sent
      <4>1. dev' = [dev EXCEPT ![s].m2s_buf = <<@[1], InitWord[2]>>]
        BY <1>5, <3>1 DEF ExitResetRest, ToBeReset
      <4>. QED
        BY <4>1, <1>0, <2>1, DeviceUpdates DEF TypeOK
    <3>2. CASE ~dev[s].arg_sent
      BY <1>5, <3>2 DEF ExitResetRest, ToBeReset, TypeOK
    <3>. QED
      BY <3>1, <3>2
  <2>3. hist' \in [Slaves -> History]
    <3>1. CASE dev[s].arg_sent
      <4>1. hist' = [hist EXCEPT ![s].want = InitWord]
        BY <1>5, <3>1 DEF ExitResetRest, ToBeReset
      <4>. QED
        BY <4>1, WordsTyped, ZenonT(60) DEF TypeOK
    <3>2. CASE ~dev[s].arg_sent
      BY <1>5, <3>2 DEF ExitResetRest, ToBeReset, TypeOK
    <3>. QED
      BY <3>1, <3>2
  <2>4. phase' \in Phases /\ cur' \in Slaves
    BY <1>5, CycleAssumption DEF ExitResetRest, ToBeReset, TypeOK, Slaves
  <2>. QED
    BY <1>5, <2>2, <2>3, <2>4 DEF ExitResetRest, ToBeReset, TypeOK
<1>6. ASSUME NEW s \in Slaves, Transfer(s) PROVE TypeOK'
  <2>1. dev[s].master_status \in Byte /\ dev[s].m2s_buf \in Word /\ hist[s].pubs \in Nat
    BY <1>0 DEF Device
  <2>2. out' \in [Slaves -> Frame]
    BY <1>6, <2>1 DEF Transfer, TypeOK, Frame
  <2>3. phase' \in Phases /\ cur' \in Slaves
    BY <1>6, AdvanceTyped DEF Transfer, TypeOK
  <2>. QED
    BY <1>6, <2>2, <2>3 DEF Transfer, TypeOK
<1>7. ASSUME NEW s \in Slaves, Cleanup(s) PROVE TypeOK'
  <2>1. phase' \in Phases /\ cur' \in Slaves
    BY <1>7, AdvanceTyped DEF Cleanup, TypeOK
  <2>. QED
    BY <1>7, <2>1 DEF Cleanup, TypeOK
<1>8. ASSUME NEW reached \in SUBSET Slaves, NEW back \in BOOLEAN, Exchange(reached, reached, back)
      PROVE  TypeOK'
  BY <1>8, ExchangeTyped
<1>9. ASSUME NEW s \in Slaves, NEW w \in CmdWords, CommandBegin(s, w) PROVE TypeOK'
  <2>1. <<w[1], dev[s].m2s_buf[2]>> \in Word
    BY <1>0, CycleAssumption, WordHalves, WordPairs DEF Device
  <2>2. dev' \in [Slaves -> Device]
    BY <1>9, <1>0, <2>1, DeviceUpdates DEF CommandBegin, TypeOK
  <2>3. ros' \in [slave : Slaves, word : CmdWords]
    BY <1>9 DEF CommandBegin
  <2>4. hist' \in [Slaves -> History]
    BY <1>9, <1>0, AstrayTyped DEF CommandBegin, TypeOK
  <2>. QED
    BY <1>9, <2>2, <2>3, <2>4 DEF CommandBegin, TypeOK
<1>10. ASSUME NEW s \in Slaves, CommandEnd(s) PROVE TypeOK'
  <2>1. ros.word \in CmdWords /\ ros.word \in Word
    BY <1>10, CycleAssumption DEF CommandEnd, Locked, TypeOK, NoCall, Slaves
  <2>2. <<dev[s].m2s_buf[1], ros.word[2]>> \in Word
    BY <1>0, <2>1, WordHalves, WordPairs DEF Device
  <2>3. dev' \in [Slaves -> Device]
    BY <1>10, <1>0, <2>2, DeviceUpdates DEF CommandEnd, TypeOK
  <2>4. hist' \in [Slaves -> History]
    BY <1>10, <2>1 DEF CommandEnd, TypeOK
  <2>. QED
    BY <1>10, <2>3, <2>4 DEF CommandEnd, TypeOK
<1>11. CASE BeginShutdown
  BY <1>11 DEF BeginShutdown, TypeOK
<1>12. CASE StopThreads
  BY <1>12 DEF StopThreads, TypeOK
<1>13. ASSUME NEW s \in Slaves, FwTakeArg(s) PROVE TypeOK'
  <2>. DEFINE w == fw[s].rx.word
              store == [i \in 1 .. ArgLen |-> IF i = w[1] THEN w[2] ELSE fw[s].store[i]]
              tx == [ status |-> IF AllStored(store) THEN SLAVE_READY ELSE SLAVE_INITIALIZING,
                      word |-> w, epoch |-> fw[s].rx.epoch ]
  <2>1. w \in Word /\ w[2] \in Byte /\ fw[s].rx.epoch \in Nat
    BY <1>0, WordHalves DEF Frame
  <2>2. store \in [1 .. ArgLen -> Byte \cup {NoByte}]
    BY <1>0, <2>1
  <2>3. tx \in Frame
    <3>1. SLAVE_READY \in Byte /\ SLAVE_INITIALIZING \in Byte
      BY Bounds DEF Byte, SLAVE_READY, SLAVE_INITIALIZING
    <3>. QED
      BY <3>1, <2>1 DEF Frame
  <2>4. fw' = [fw EXCEPT ![s].store = store, ![s].tx = tx]
    BY <1>13 DEF FwTakeArg
  <2>. HIDE DEF store, tx
  <2>5. fw' \in [Slaves -> [rx : Frame, tx : Frame, store : [1 .. ArgLen -> Byte \cup {NoByte}]]]
    BY <2>2, <2>3, <2>4 DEF TypeOK
  <2>. QED
    BY <1>13, <2>5 DEF FwTakeArg, TypeOK
<1>14. ASSUME NEW s \in Slaves, FwWork(s) PROVE TypeOK'
  <2>1. PICK t \in Telemetry :
           fw' = [fw EXCEPT ![s].tx = [ status |-> fw[s].rx.status, word |-> t,
                                        epoch |-> fw[s].rx.epoch ]]
    BY <1>14 DEF FwWork
  <2>2. [ status |-> fw[s].rx.status, word |-> t, epoch |-> fw[s].rx.epoch ] \in Frame
    BY <1>0, CycleAssumption DEF Frame
  <2>3. fw' \in [Slaves -> [rx : Frame, tx : Frame, store : [1 .. ArgLen -> Byte \cup {NoByte}]]]
    BY <2>1, <2>2 DEF TypeOK
  <2>. QED
    BY <1>14, <2>3 DEF FwWork, TypeOK
<1>15. CASE UNCHANGED vars
  BY <1>15 DEF vars, TypeOK
<1>. QED
  BY <1>1, <1>2, <1>3, <1>4, <1>5, <1>6, <1>7, <1>8, <1>9, <1>10, <1>11, <1>12, <1>13, <1>14, <1>15
  DEF Next, DataThread, Bus

\* Every variable keeps its type, and with it every field of the SlaveDevice records:
\* in particular the index of the argument being sent stays within the buffer.
THEOREM TypeCorrect == Spec => []TypeOK
BY InitTyped, NextTyped, PTL DEF Spec

-----------------------------------------------------------------------------
(***************************************************************************)
(* The argument transfer is correct for any number of slaves, any argument *)
(* buffer and any commands, as far as the bytes go that no command named:  *)
(* TransferInv is inductive.                                               *)
(***************************************************************************)

(* What a visit of the processing loop does to the transfer.                *)

\* send_next_arg keeps the transfer where it is, completes it, or moves it on by one;
\* a step forward needs the echo of the byte that was sent.
Stays(d, e) == (e.arg_sent <=> d.arg_sent) /\ e.arg_idx = d.arg_idx
Completes(d, e) ==
    ~d.arg_sent /\ Echoed(d) /\ e.arg_sent /\ d.arg_idx = ArgLen /\ e.arg_idx = ArgLen
Moves(d, e) ==
    ~d.arg_sent /\ Echoed(d) /\ ~e.arg_sent /\ d.arg_idx < ArgLen /\ e.arg_idx = d.arg_idx + 1

\* These are the only things sending the next argument does to the transfer.
LEMMA SendNextTransfers ==
    ASSUME NEW d \in Device
    PROVE  /\ send_next_arg(d).s2m_buf = d.s2m_buf
           /\ send_next_arg(d).reconnected = d.reconnected
           /\ send_next_arg(d).master_status = d.master_status
           /\ send_next_arg(d).m2s_buf \in {d.m2s_buf, ArgWord(send_next_arg(d).arg_idx)}
           /\ \/ Stays(d, send_next_arg(d))
              \/ Completes(d, send_next_arg(d))
              \/ Moves(d, send_next_arg(d))
<1>1. d.arg_idx \in 1 .. ArgLen /\ ArgLen \in Nat /\ d.arg_sent \in BOOLEAN
  BY ArgIndexTyped DEF Device
<1>2. CASE ~(d.master_status = MASTER_SENDING_ARGUMENTS /\ ~d.arg_sent)
  <2>1. send_next_arg(d) = d
    BY <1>2 DEF send_next_arg
  <2>. QED
    BY <2>1 DEF Stays
<1>3. CASE d.master_status = MASTER_SENDING_ARGUMENTS /\ ~d.arg_sent
  <2>1. send_next_arg(d) = send_arg(d)
    BY <1>3 DEF send_next_arg
  <2>2. CASE ~Echoed(d)
    <3>1. send_arg(d) = [d EXCEPT !.arg_sent = FALSE, !.arg_idx = d.arg_idx,
                                  !.m2s_buf = ArgWord(d.arg_idx)]
      BY <2>2, <1>3, <1>1 DEF send_arg
    <3>. QED
      BY <3>1, <2>1, <1>3, <1>1 DEF Stays, Device
  <2>3. CASE Echoed(d) /\ d.arg_idx = ArgLen
    <3>1. send_arg(d) = [d EXCEPT !.arg_sent = TRUE, !.arg_idx = d.arg_idx, !.m2s_buf = d.m2s_buf]
      BY <2>3, <1>3, <1>1 DEF send_arg, Device
    <3>. QED
      BY <3>1, <2>1, <2>3, <1>3, <1>1 DEF Completes, Device
  <2>4. CASE Echoed(d) /\ d.arg_idx # ArgLen
    <3>1. send_arg(d) = [d EXCEPT !.arg_sent = FALSE, !.arg_idx = d.arg_idx + 1,
                                  !.m2s_buf = ArgWord(d.arg_idx + 1)]
      BY <2>4, <1>3, <1>1 DEF send_arg
    <3>2. d.arg_idx < ArgLen
      BY <2>4, <1>1
    <3>. QED
      BY <3>1, <3>2, <2>1, <2>4, <1>3, <1>1 DEF Moves, Device
  <2>. QED
    BY <2>2, <2>3, <2>4
<1>. QED
  BY <1>2, <1>3

\* The status never goes back to what it was before the start.
LEMMA StatusForward ==
    ASSUME NEW d \in Device, NextStatus(d.master_status) < MASTER_READY
    PROVE  d.master_status < MASTER_READY
BY Bounds, SeqAssumption DEF Device, Byte, NextStatus, MASTER_READY

\* The whole visit: starting the slave loads the initial value and nothing else.
LEMMA VisitTransfers ==
    ASSUME NEW d \in Device, d.reconnected = 0,
           NEW e, e \in {handshake(d), process_pdo(handshake(d))}
    PROVE  /\ e.s2m_buf = d.s2m_buf
           /\ e.reconnected = 0
           /\ e.master_status < MASTER_READY =>
                  /\ d.master_status < MASTER_READY
                  /\ e.m2s_buf \in {d.m2s_buf, ArgWord(e.arg_idx)}
           /\ Stays(d, e) \/ Completes(d, e) \/ Moves(d, e)
<1>. DEFINE c == confirm_ready(d)
            n == send_next_arg(c)
            w == start_working(n)
<1>1. /\ c \in Device /\ c.s2m_buf = d.s2m_buf /\ c.reconnected = 0 /\ c.m2s_buf = d.m2s_buf
      /\ c.arg_sent = d.arg_sent /\ c.arg_idx = d.arg_idx /\ c.master_status = d.master_status
  BY DEF confirm_ready, Device
<1>2. /\ n \in Device /\ n.s2m_buf = d.s2m_buf /\ n.reconnected = 0
      /\ n.m2s_buf \in {d.m2s_buf, ArgWord(n.arg_idx)} /\ n.master_status = d.master_status
      /\ Stays(d, n) \/ Completes(d, n) \/ Moves(d, n)
  <2>1. n \in Device
    BY <1>1, SendArgTyped DEF send_next_arg
  <2>. HIDE DEF c
  <2>2. Echoed(c) <=> Echoed(d)
    BY <1>1 DEF Echoed
  <2>. QED
    BY <1>1, <2>1, <2>2, SendNextTransfers DEF Stays, Completes, Moves
<1>3. /\ w \in Device /\ w.s2m_buf = n.s2m_buf /\ w.reconnected = 0
      /\ w.master_status < MASTER_READY =>
             w.master_status = n.master_status /\ w.m2s_buf = n.m2s_buf
      /\ w.arg_sent = n.arg_sent /\ w.arg_idx = n.arg_idx
  <2>. HIDE DEF n
  <2>1. w \in Device
    BY <1>2, StartWorkingTyped
  <2>. QED
    BY <2>1, <1>2 DEF start_working, write_init_values, Device, MASTER_READY
<1>4. handshake(d) \in {d, w}
  BY DEF handshake
<1>5. PICK h \in {d, w} : e \in {h, process_pdo(h)}
  BY <1>4
<1>. HIDE DEF w, n
<1>6. h \in Device
  BY <1>3, <1>5
<1>7. /\ e.s2m_buf = h.s2m_buf /\ e.reconnected = h.reconnected /\ e.m2s_buf = h.m2s_buf
      /\ e.arg_sent = h.arg_sent /\ e.arg_idx = h.arg_idx
      /\ e.master_status \in {h.master_status, NextStatus(h.master_status)}
  BY <1>5, <1>6 DEF process_pdo, Device
<1>8. e.master_status < MASTER_READY => h.master_status < MASTER_READY
  BY <1>6, <1>7, StatusForward
<1>9. CASE h = d
  BY <1>7, <1>8, <1>9 DEF Stays
<1>10. CASE h = w
  BY <1>2, <1>3, <1>7, <1>8, <1>10 DEF Stays, Completes, Moves
<1>. QED
  BY <1>5, <1>9, <1>10
-----------------------------------------------------------------------------
(* The invariant.                                                           *)

\* A slave none of whose parts changes keeps its invariant.
LEMMA Untouched ==
    ASSUME NEW t \in Slaves, TransferSound(t),
           dev'[t] = dev[t], out'[t] = out[t], fw'[t] = fw[t], inp'[t] = inp[t],
           hist'[t].astray = hist[t].astray, HalfWritten(t)' => HalfWritten(t)
    PROVE  TransferSound(t)'
<1>1. StoreSound(t)' /\ ConfirmedSound(t)' /\ NotReconnected(t)'
  BY DEF TransferSound, StoreSound, ConfirmedSound, NotReconnected
<1>2. Echoes(t)' = Echoes(t) /\ \A w : Kept(t, w)' <=> Kept(t, w)
  BY DEF Echoes, Kept
<1>3. SendsSound(t)'
  BY <1>2 DEF TransferSound, SendsSound, WordSound
<1>4. EchoSound(t)'
  BY <1>2 DEF TransferSound, EchoSound
<1>. QED
  BY <1>1, <1>3, <1>4 DEF TransferSound

\* A visit moves the data thread, but never to the middle of the exit reset.
LEMMA AdvancePhase ==
    ASSUME NEW next, next # "exit_rest", phase # "exit_rest", Advance(next)
    PROVE  phase' # "exit_rest"
BY DEF Advance

\* Whatever has become of the bytes of a word: what matters is whether its number is
\* that of an argument.
LEMMA HalfWords ==
    \A a, b : <<a, b>>[1] = a /\ <<a, b>>[2] = b
OBVIOUS

\* Before the first frame no word names an argument.
LEMMA InitTransfer == Init => TransferInv
<1>. SUFFICES ASSUME Init, NEW s \in Slaves PROVE TransferSound(s)
  BY DEF TransferInv
<1>1. dev[s] = ConfiguredDevice /\ out[s] = EmptyFrame /\ inp[s] = EmptyFrame /\ fw[s] = FreshFirmware
  BY DEF Init
<1>2. ~Kept(s, ZeroWord)
  BY ArgIndexTyped DEF Kept, NamesArg, ZeroWord
<1>3. /\ dev[s].m2s_buf = ZeroWord /\ out[s].word = ZeroWord /\ fw[s].rx.word = ZeroWord
      /\ Echoes(s) = {ZeroWord}
  BY <1>1 DEF Echoes, ConfiguredDevice, EmptyFrame, FreshFirmware
<1>4. SendsSound(s)
  BY <1>2, <1>3 DEF SendsSound, WordSound
<1>5. EchoSound(s)
  BY <1>2, <1>3 DEF EchoSound
<1>6. StoreSound(s)
  BY <1>1 DEF StoreSound, FreshFirmware
<1>7. ConfirmedSound(s) /\ NotReconnected(s)
  BY <1>1, ArgIndexTyped DEF ConfirmedSound, NotReconnected, ConfiguredDevice
<1>. QED
  BY <1>4, <1>5, <1>6, <1>7 DEF TransferSound

\* The visit of the processing loop: an echo of the byte being sent is evidence that it
\* is stored, so the transfer may move on.
LEMMA ProcessTransfer ==
    ASSUME TypeOK, NEW s \in Slaves, TransferSound(s), Process(s)
    PROVE  TransferSound(s)'
<1>. DEFINE d == dev[s]
            e == dev'[s]
            A == hist[s].astray
<1>1. d \in Device /\ d.reconnected = 0 /\ d.arg_idx \in 1 .. ArgLen /\ d.arg_sent \in BOOLEAN
  BY DEF TypeOK, TransferSound, NotReconnected, Device
<1>2. e \in {handshake(d), process_pdo(handshake(d))}
  BY DEF Process, TypeOK
<1>3. /\ e.s2m_buf = d.s2m_buf /\ e.reconnected = 0
      /\ e.master_status < MASTER_READY =>
             /\ d.master_status < MASTER_READY
             /\ e.m2s_buf \in {d.m2s_buf, ArgWord(e.arg_idx)}
      /\ Stays(d, e) \/ Completes(d, e) \/ Moves(d, e)
  BY <1>1, <1>2, VisitTransfers
<1>4. /\ out'[s] = out[s] /\ fw'[s] = fw[s] /\ inp'[s] = inp[s] /\ ~Locked(s)'
      /\ hist'[s].astray = A
  BY DEF Process, Locked, rosVars, TypeOK, History
<1>5. ~HalfWritten(s)'
  BY <1>4, AdvancePhase DEF Process, HalfWritten
<1>. HIDE DEF d, e, A
<1>6. StoreSound(s)' /\ NotReconnected(s)'
  BY <1>3, <1>4 DEF TransferSound, StoreSound, NotReconnected, e, A
<1>7. EchoSound(s)' /\ \A w : Kept(s, w)' <=> Kept(s, w)
  <2>1. Echoes(s)' = Echoes(s)
    BY <1>3, <1>4 DEF Echoes, d, e
  <2>2. \A w : Kept(s, w)' <=> Kept(s, w)
    BY <1>4 DEF Kept, A
  <2>. QED
    BY <2>1, <2>2, <1>4 DEF TransferSound, EchoSound
<1>8. Echoed(d) /\ d.arg_idx \notin A => fw[s].store[d.arg_idx] = Arg[d.arg_idx]
  <2>1. ArgWord(d.arg_idx)[1] = d.arg_idx
    BY <1>1, WordsTyped
  <2>. QED
    BY <2>1, <1>1 DEF Echoed, TransferSound, EchoSound, Echoes, Kept, NamesArg, d, A
<1>9. ConfirmedSound(s)'
  <2>1. SUFFICES ASSUME NEW i \in (1 .. ArgLen) \ A, i < e.arg_idx \/ e.arg_sent
                 PROVE  fw[s].store[i] = Arg[i]
    BY <1>4 DEF ConfirmedSound, e, A
  <2>2. i < d.arg_idx \/ d.arg_sent => fw[s].store[i] = Arg[i]
    BY DEF TransferSound, ConfirmedSound, d, A
  <2>3. CASE Stays(d, e)
    BY <2>1, <2>2, <2>3 DEF Stays
  <2>4. CASE Completes(d, e)
    <3>1. i < d.arg_idx \/ i = d.arg_idx
      BY <2>4, <1>1, ArgIndexTyped DEF Completes
    <3>. QED
      BY <3>1, <2>2, <2>4, <1>8 DEF Completes
  <2>5. CASE Moves(d, e)
    <3>1. i < d.arg_idx \/ i = d.arg_idx
      BY <2>5, <2>1, <1>1, ArgIndexTyped DEF Moves
    <3>. QED
      BY <3>1, <2>2, <2>5, <1>8 DEF Moves
  <2>. QED
    BY <1>3, <2>3, <2>4, <2>5
<1>10. SendsSound(s)'
  <2>1. e.arg_idx \in 1 .. ArgLen /\ d.arg_idx <= e.arg_idx
    BY <1>1, <1>3, ArgIndexTyped DEF Stays, Completes, Moves
  <2>2. ASSUME NEW st, NEW w, WordSound(s, st, w), st < MASTER_READY, Kept(s, w)
        PROVE  w = ArgWord(w[1]) /\ w[1] <= e.arg_idx
    <3>1. w = ArgWord(w[1]) /\ w[1] <= d.arg_idx /\ w[1] \in 1 .. ArgLen
      BY <2>2 DEF WordSound, Kept, NamesArg, d
    <3>. QED
      BY <3>1, <2>1, <1>1, ArgIndexTyped
  <2>3. /\ ArgWord(e.arg_idx)[1] = e.arg_idx
        /\ ArgWord(e.arg_idx) = ArgWord(ArgWord(e.arg_idx)[1])
    BY <2>1, WordsTyped
  <2>4. WordSound(s, out[s].status, out[s].word)' /\ WordSound(s, fw[s].rx.status, fw[s].rx.word)'
    BY <1>4, <1>7, <2>2 DEF TransferSound, SendsSound, WordSound, e
  <2>5. WordSound(s, dev[s].master_status, dev[s].m2s_buf)'
    <3>1. SUFFICES ASSUME e.master_status < MASTER_READY, Kept(s, e.m2s_buf)
                   PROVE  e.m2s_buf = ArgWord(e.m2s_buf[1]) /\ e.m2s_buf[1] <= e.arg_idx
      BY <1>7 DEF WordSound, e
    <3>2. CASE e.m2s_buf = d.m2s_buf
      <4>1. WordSound(s, d.master_status, d.m2s_buf)
        BY DEF TransferSound, SendsSound, d
      <4>. QED
        BY <4>1, <3>1, <3>2, <1>3, <2>2
    <3>3. CASE e.m2s_buf = ArgWord(e.arg_idx)
      BY <3>3, <2>1, <2>3, ArgIndexTyped
    <3>. QED
      BY <3>1, <3>2, <3>3, <1>3
  <2>. QED
    BY <2>4, <2>5, <1>5 DEF SendsSound
<1>. QED
  BY <1>6, <1>7, <1>9, <1>10 DEF TransferSound

\* Bytes that go astray leave the others as they were.
LEMMA AstrayGrows ==
    ASSUME NEW s \in Slaves, TransferSound(s), hist[s].astray \subseteq hist'[s].astray,
           out'[s] = out[s], fw'[s] = fw[s], inp'[s] = inp[s],
           dev'[s].s2m_buf = dev[s].s2m_buf, dev'[s].reconnected = dev[s].reconnected,
           dev'[s].arg_idx = dev[s].arg_idx, dev'[s].arg_sent = dev[s].arg_sent
    PROVE  /\ StoreSound(s)' /\ ConfirmedSound(s)' /\ NotReconnected(s)' /\ EchoSound(s)'
           /\ WordSound(s, out[s].status, out[s].word)'
           /\ WordSound(s, fw[s].rx.status, fw[s].rx.word)'
<1>1. \A w : Kept(s, w)' => Kept(s, w)
  BY DEF Kept
<1>2. StoreSound(s)' /\ ConfirmedSound(s)' /\ NotReconnected(s)'
  BY DEF TransferSound, StoreSound, ConfirmedSound, NotReconnected
<1>3. Echoes(s)' = Echoes(s)
  BY DEF Echoes
<1>. QED
  BY <1>1, <1>2, <1>3 DEF TransferSound, EchoSound, SendsSound, WordSound

\* Overwriting a half of the buffer with what is not part of an argument, or has been noted:
\* the callbacks and the exit reset.
LEMMA OverwriteTransfer ==
    ASSUME NEW s \in Slaves, TransferSound(s), hist[s].astray \subseteq hist'[s].astray,
           NEW w, dev[s] \in Device, dev'[s] = [dev[s] EXCEPT !.m2s_buf = w],
           dev[s].master_status < MASTER_READY /\ NamesArg(w) => w[1] \in hist'[s].astray,
           out'[s] = out[s], fw'[s] = fw[s], inp'[s] = inp[s]
    PROVE  TransferSound(s)'
<1>1. /\ dev'[s].m2s_buf = w /\ dev'[s].s2m_buf = dev[s].s2m_buf
      /\ dev'[s].arg_idx = dev[s].arg_idx /\ dev'[s].arg_sent = dev[s].arg_sent
      /\ dev'[s].reconnected = dev[s].reconnected /\ dev'[s].master_status = dev[s].master_status
  BY DEF Device
<1>2. SendsSound(s)'
  BY <1>1, AstrayGrows DEF SendsSound, WordSound, Kept
<1>. QED
  BY <1>1, <1>2, AstrayGrows DEF TransferSound

\* A number that is written to the buffer of a slave that is not started, names no argument
\* or is noted.
LEMMA NumberNoted ==
    ASSUME NEW s \in Slaves, NEW w, NEW b, TypeOK, hist'[s].astray = Astray(s, w)
    PROVE  /\ hist[s].astray \subseteq hist'[s].astray
           /\ dev[s].master_status < MASTER_READY /\ NamesArg(<<w[1], b>>)
                  => <<w[1], b>>[1] \in hist'[s].astray
BY HalfWords DEF Astray, NamesArg

\* The firmware stores what it is sent: a right byte, or one that has gone astray.
LEMMA TakeArgTransfer ==
    ASSUME TypeOK, NEW s \in Slaves, TransferSound(s), FwTakeArg(s)
    PROVE  TransferSound(s)'
<1>. DEFINE w == fw[s].rx.word
            st == [i \in 1 .. ArgLen |-> IF i = w[1] THEN w[2] ELSE fw[s].store[i]]
            tx == [ status |-> IF AllStored(st) THEN SLAVE_READY ELSE SLAVE_INITIALIZING,
                    word |-> w, epoch |-> fw[s].rx.epoch ]
<1>1. /\ fw' = [fw EXCEPT ![s].store = st, ![s].tx = tx]
      /\ UNCHANGED <<dev, out, inp, threadVars, rosVars, hist>>
  BY DEF FwTakeArg
<1>2. tx.word = w /\ \A i \in 1 .. ArgLen : st[i] = IF i = w[1] THEN w[2] ELSE fw[s].store[i]
  OBVIOUS
<1>. HIDE DEF st, tx
<1>3. fw'[s].store = st /\ fw'[s].tx = tx /\ fw'[s].rx = fw[s].rx
  BY <1>1 DEF TypeOK
<1>4. Kept(s, w) => w[2] = Arg[w[1]]
  <2>1. fw[s].rx.status < MASTER_READY
    BY DEF FwTakeArg, MASTER_SENDING_ARGUMENTS, MASTER_READY
  <2>2. Kept(s, w) => w = ArgWord(w[1])
    BY <2>1 DEF TransferSound, SendsSound, WordSound
  <2>. QED
    BY <2>2, WordsTyped DEF Kept, NamesArg
<1>5. \A i \in (1 .. ArgLen) \ hist[s].astray : /\ fw[s].store[i] = Arg[i] => st[i] = Arg[i]
                                                /\ st[i] \in {Arg[i], fw[s].store[i]}
  BY <1>2, <1>4 DEF Kept, NamesArg
<1>6. StoreSound(s)' /\ ConfirmedSound(s)' /\ NotReconnected(s)'
  BY <1>1, <1>3, <1>5 DEF TransferSound, StoreSound, ConfirmedSound, NotReconnected
<1>7. EchoSound(s)'
  <2>1. Echoes(s)' \subseteq Echoes(s) \cup {w}
    BY <1>1, <1>2, <1>3 DEF Echoes
  <2>2. Kept(s, w) => st[w[1]] = Arg[w[1]]
    BY <1>2, <1>4 DEF Kept, NamesArg
  <2>3. \A v : Kept(s, v)' <=> Kept(s, v)
    BY <1>1 DEF Kept
  <2>. QED
    BY <2>1, <2>2, <2>3, <1>3, <1>5 DEF TransferSound, EchoSound, Kept, NamesArg
<1>8. SendsSound(s)'
  <2>1. (HalfWritten(s)' <=> HalfWritten(s)) /\ \A v : Kept(s, v)' <=> Kept(s, v)
    BY <1>1, <1>3 DEF HalfWritten, Locked, rosVars, threadVars, Kept
  <2>. QED
    BY <2>1, <1>1, <1>3 DEF TransferSound, SendsSound, WordSound
<1>. QED
  BY <1>6, <1>7, <1>8 DEF TransferSound

\* A working slave holds all arguments: whatever its telemetry looks like, as an echo it
\* would tell the truth.
LEMMA WorkTransfer ==
    ASSUME TypeOK, NEW s \in Slaves, TransferSound(s), FwWork(s)
    PROVE  TransferSound(s)'
<1>1. PICK u \in Telemetry :
         fw' = [fw EXCEPT ![s].tx = [ status |-> fw[s].rx.status, word |-> u,
                                      epoch |-> fw[s].rx.epoch ]]
  BY DEF FwWork
<1>2. fw'[s].tx.word = u /\ fw'[s].store = fw[s].store /\ fw'[s].rx = fw[s].rx
  BY <1>1 DEF TypeOK
<1>3. UNCHANGED <<dev, out, inp, threadVars, rosVars, hist>> /\ \A v : Kept(s, v)' <=> Kept(s, v)
  BY DEF FwWork, Kept
<1>4. StoreSound(s)' /\ ConfirmedSound(s)' /\ NotReconnected(s)'
  BY <1>2, <1>3 DEF TransferSound, StoreSound, ConfirmedSound, NotReconnected
<1>5. \A i \in (1 .. ArgLen) \ hist[s].astray : fw[s].store[i] = Arg[i]
  BY DEF FwWork, AllStored, TransferSound, StoreSound
<1>6. EchoSound(s)'
  <2>1. Echoes(s)' \subseteq Echoes(s) \cup {u}
    BY <1>2, <1>3 DEF Echoes
  <2>. QED
    BY <2>1, <1>2, <1>3, <1>5 DEF TransferSound, EchoSound, Kept, NamesArg
<1>7. SendsSound(s)'
  <2>1. HalfWritten(s)' <=> HalfWritten(s)
    BY <1>2, <1>3 DEF HalfWritten, Locked, rosVars, threadVars
  <2>. QED
    BY <2>1, <1>2, <1>3 DEF TransferSound, SendsSound, WordSound
<1>. QED
  BY <1>4, <1>6, <1>7 DEF TransferSound

\* Words travel from the buffer to the outputs, into the firmware and back, unchanged and
\* with the status they were sent with.
Buffer(s) == <<dev[s].master_status, dev[s].m2s_buf>>
Output(s) == <<out[s].status, out[s].word>>
Taken(s) == <<fw[s].rx.status, fw[s].rx.word>>

\* So they stay sound.
LEMMA TravelTransfer ==
    ASSUME NEW s \in Slaves, TransferSound(s),
           Buffer(s)' = Buffer(s), Output(s)' \in {Output(s), Buffer(s)},
           Taken(s)' \in {Taken(s), Output(s)}, Echoes(s)' \subseteq Echoes(s),
           dev'[s].arg_idx = dev[s].arg_idx, dev'[s].arg_sent = dev[s].arg_sent,
           dev'[s].reconnected = dev[s].reconnected, hist'[s].astray = hist[s].astray,
           fw'[s].store = fw[s].store, HalfWritten(s)' => HalfWritten(s)
    PROVE  TransferSound(s)'
<1>1. StoreSound(s)' /\ ConfirmedSound(s)' /\ NotReconnected(s)'
  BY DEF TransferSound, StoreSound, ConfirmedSound, NotReconnected
<1>2. \A w : Kept(s, w)' <=> Kept(s, w)
  BY DEF Kept
<1>3. EchoSound(s)'
  BY <1>2 DEF TransferSound, EchoSound
<1>4. /\ dev'[s].master_status = dev[s].master_status /\ dev'[s].m2s_buf = dev[s].m2s_buf
      /\ \/ out'[s].status = out[s].status /\ out'[s].word = out[s].word
         \/ out'[s].status = dev[s].master_status /\ out'[s].word = dev[s].m2s_buf
      /\ \/ fw'[s].rx.status = fw[s].rx.status /\ fw'[s].rx.word = fw[s].rx.word
         \/ fw'[s].rx.status = out[s].status /\ fw'[s].rx.word = out[s].word
  BY DEF Buffer, Output, Taken
<1>5. SendsSound(s)'
  BY <1>2, <1>4 DEF TransferSound, SendsSound, WordSound
<1>. QED
  BY <1>1, <1>3, <1>5 DEF TransferSound

\* Every step of the system keeps the invariant of the transfer.
LEMMA NextTransfer == TypeOK /\ TransferInv /\ [Next]_vars => TransferInv'
<1>. SUFFICES ASSUME TypeOK, TransferInv, [Next]_vars, NEW t \in Slaves
              PROVE  TransferSound(t)'
  BY DEF TransferInv
<1>. USE DEF rosVars, threadVars
<1>0. TransferSound(t) /\ dev[t] \in Device /\ hist[t] \in History
  BY DEF TransferInv, TypeOK
<1>1. ASSUME NEW s \in Slaves, Receive(s) PROVE TransferSound(t)'
  <2>1. HalfWritten(t)' => HalfWritten(t)
    BY <1>1, AdvancePhase DEF Receive, HalfWritten, Locked
  <2>2. /\ out'[t] = out[t] /\ fw'[t] = fw[t] /\ inp'[t] = inp[t]
        /\ hist'[t].astray = hist[t].astray
        /\ dev'[t] = dev[t] \/ dev'[t] = [dev[t] EXCEPT !.slave_status = inp[t].status,
                                                       !.s2m_buf = inp[t].word]
    BY <1>1 DEF Receive, TypeOK, History
  <2>3. /\ dev'[t].s2m_buf \in {dev[t].s2m_buf, inp[t].word} /\ dev'[t].m2s_buf = dev[t].m2s_buf
        /\ dev'[t].arg_idx = dev[t].arg_idx /\ dev'[t].arg_sent = dev[t].arg_sent
        /\ dev'[t].reconnected = dev[t].reconnected /\ dev'[t].master_status = dev[t].master_status
    BY <2>2, <1>0 DEF Device
  <2>4. /\ Buffer(t)' = Buffer(t) /\ Output(t)' = Output(t) /\ Taken(t)' = Taken(t)
        /\ Echoes(t)' \subseteq Echoes(t)
    BY <2>2, <2>3 DEF Buffer, Output, Taken, Echoes
  <2>. QED
    BY <1>0, <2>1, <2>2, <2>3, <2>4, TravelTransfer
<1>2. ASSUME NEW s \in Slaves, Process(s) PROVE TransferSound(t)'
  <2>1. CASE s = t
    BY <1>2, <1>0, <2>1, ProcessTransfer
  <2>2. CASE s # t
    <3>1. HalfWritten(t)' => HalfWritten(t)
      BY <1>2, AdvancePhase DEF Process, HalfWritten, Locked
    <3>2. /\ dev'[t] = dev[t] /\ out'[t] = out[t] /\ fw'[t] = fw[t] /\ inp'[t] = inp[t]
          /\ hist'[t] = hist[t]
      BY <1>2, <2>2 DEF Process, TypeOK
    <3>. QED
      BY <3>1, <3>2, <1>0, Untouched
  <2>. QED
    BY <2>1, <2>2
<1>3. CASE SkipExitReset
  BY <1>3, <1>0, Untouched DEF SkipExitReset, HalfWritten, Locked
<1>4. ASSUME NEW s \in Slaves, ExitReset(s) PROVE TransferSound(t)'
  <2>1. UNCHANGED <<out, fw, inp, cur, ros>> /\ cur = s
    BY <1>4 DEF ExitReset
  <2>2. CASE s = t /\ dev[t].arg_sent
    <3>1. hist'[t].astray = Astray(t, InitWord)
      BY <1>4, <2>2 DEF ExitReset, ToBeReset, TypeOK, History
    <3>2. dev'[t] = [dev[t] EXCEPT !.m2s_buf = <<InitWord[1], dev[t].m2s_buf[2]>>]
      BY <1>4, <2>2 DEF ExitReset, ToBeReset, TypeOK
    <3>. QED
      BY <3>1, <3>2, <2>1, <1>0, NumberNoted, OverwriteTransfer
  <2>3. CASE ~(s = t /\ dev[t].arg_sent)
    <3>1. dev'[t] = dev[t] /\ hist'[t] = hist[t]
      BY <1>4, <2>3 DEF ExitReset, ToBeReset, TypeOK
    <3>2. HalfWritten(t)' => HalfWritten(t)
      BY <3>1, <2>1, <2>3 DEF HalfWritten, Locked
    <3>. QED
      BY <3>1, <3>2, <2>1, <1>0, Untouched
  <2>. QED
    BY <2>2, <2>3
<1>5. ASSUME NEW s \in Slaves, ExitResetRest(s) PROVE TransferSound(t)'
  <2>1. UNCHANGED <<out, fw, inp, ros>> /\ cur = s /\ phase = "exit_rest" /\ phase' # "exit_rest"
    BY <1>5 DEF ExitResetRest
  <2>2. hist'[t].astray = hist[t].astray
    <3>1. hist' = hist \/ hist' = [hist EXCEPT ![s].want = InitWord]
      BY <1>5 DEF ExitResetRest
    <3>2. CASE hist' = [hist EXCEPT ![s].want = InitWord]
      BY <3>2, <1>0 DEF TypeOK, History
    <3>. QED
      BY <3>1, <3>2
  <2>3. CASE s = t /\ dev[t].arg_sent
    <3>1. dev[t].master_status < MASTER_READY => ~Kept(t, dev[t].m2s_buf)
      BY <2>1, <2>3, <1>0 DEF TransferSound, SendsSound, HalfWritten
    <3>2. dev[t].master_status < MASTER_READY /\ NamesArg(<<dev[t].m2s_buf[1], InitWord[2]>>)
              => <<dev[t].m2s_buf[1], InitWord[2]>>[1] \in hist'[t].astray
      BY <3>1, <2>2, HalfWords DEF Kept, NamesArg
    <3>3. dev'[t] = [dev[t] EXCEPT !.m2s_buf = <<dev[t].m2s_buf[1], InitWord[2]>>]
      BY <1>5, <2>3 DEF ExitResetRest, ToBeReset, TypeOK
    <3>. QED
      BY <3>2, <3>3, <2>1, <2>2, <1>0, OverwriteTransfer
  <2>4. CASE ~(s = t /\ dev[t].arg_sent)
    <3>1. dev'[t] = dev[t]
      BY <1>5, <2>4 DEF ExitResetRest, ToBeReset, TypeOK
    <3>2. HalfWritten(t)' => HalfWritten(t)
      BY <2>1 DEF HalfWritten, Locked
    <3>. QED
      BY <3>1, <3>2, <2>1, <2>2, <1>0, Untouched
  <2>. QED
    BY <2>3, <2>4
<1>6. ASSUME NEW s \in Slaves, Transfer(s) PROVE TransferSound(t)'
  <2>1. HalfWritten(t)' => HalfWritten(t)
    BY <1>6, AdvancePhase DEF Transfer, HalfWritten, Locked
  <2>2. /\ dev'[t] = dev[t] /\ fw'[t] = fw[t] /\ inp'[t] = inp[t] /\ hist'[t] = hist[t]
        /\ \/ out'[t] = out[t]
           \/ out'[t].status = dev[t].master_status /\ out'[t].word = dev[t].m2s_buf
    BY <1>6 DEF Transfer, TypeOK
  <2>3. /\ Buffer(t)' = Buffer(t) /\ Output(t)' \in {Output(t), Buffer(t)} /\ Taken(t)' = Taken(t)
        /\ Echoes(t)' \subseteq Echoes(t)
    BY <2>2 DEF Buffer, Output, Taken, Echoes
  <2>. QED
    BY <1>0, <2>1, <2>2, <2>3, TravelTransfer
<1>7. ASSUME NEW s \in Slaves, Cleanup(s) PROVE TransferSound(t)'
  <2>1. HalfWritten(t)' => HalfWritten(t)
    BY <1>7, AdvancePhase DEF Cleanup, HalfWritten, Locked
  <2>. QED
    BY <2>1, <1>7, <1>0, Untouched DEF Cleanup
<1>8. ASSUME NEW reached \in SUBSET Slaves, NEW back \in BOOLEAN, Exchange(reached, reached, back)
      PROVE  TransferSound(t)'
  <2>1. /\ HalfWritten(t)' => HalfWritten(t)
        /\ dev'[t] = dev[t] /\ out'[t] = out[t] /\ hist'[t] = hist[t]
    BY <1>8 DEF Exchange, HalfWritten, Locked
  <2>2. fw'[t].rx \in {fw[t].rx, out[t]} /\ fw'[t].tx = fw[t].tx /\ fw'[t].store = fw[t].store
    BY <1>8 DEF Exchange, TypeOK
  <2>3. inp'[t] \in {inp[t], fw[t].tx}
    BY <1>8 DEF Exchange
  <2>4. /\ Buffer(t)' = Buffer(t) /\ Output(t)' = Output(t) /\ Taken(t)' \in {Taken(t), Output(t)}
        /\ Echoes(t)' \subseteq Echoes(t)
    BY <2>1, <2>2, <2>3 DEF Buffer, Output, Taken, Echoes
  <2>. QED
    BY <1>0, <2>1, <2>2, <2>4, TravelTransfer
<1>9. ASSUME NEW s \in Slaves, NEW w \in CmdWords, CommandBegin(s, w) PROVE TransferSound(t)'
  <2>1. UNCHANGED <<out, fw, inp, phase, cur>> /\ (s # t => ~Locked(t)')
    BY <1>9 DEF CommandBegin, Locked
  <2>2. CASE s = t
    <3>1. hist'[t].astray = Astray(t, w)
      BY <1>9, <2>2 DEF CommandBegin, TypeOK, History
    <3>2. dev'[t] = [dev[t] EXCEPT !.m2s_buf = <<w[1], dev[t].m2s_buf[2]>>]
      BY <1>9, <2>2 DEF CommandBegin, TypeOK
    <3>. QED
      BY <3>1, <3>2, <2>1, <1>0, NumberNoted, OverwriteTransfer
  <2>3. CASE s # t
    <3>1. dev'[t] = dev[t] /\ hist'[t] = hist[t]
      BY <1>9, <2>3 DEF CommandBegin, TypeOK
    <3>2. HalfWritten(t)' => HalfWritten(t)
      BY <3>1, <2>1, <2>3 DEF HalfWritten
    <3>. QED
      BY <3>1, <3>2, <2>1, <1>0, Untouched
  <2>. QED
    BY <2>2, <2>3
<1>10. ASSUME NEW s \in Slaves, CommandEnd(s) PROVE TransferSound(t)'
  <2>1. UNCHANGED <<out, fw, inp, phase, cur>> /\ Locked(s) /\ ~Locked(t)'
    BY <1>10 DEF CommandEnd, Locked, NoCall, Slaves
  <2>2. hist'[t].astray = hist[t].astray
    BY <1>10 DEF CommandEnd, TypeOK, History
  <2>3. CASE s = t
    <3>1. dev[t].master_status < MASTER_READY => ~Kept(t, dev[t].m2s_buf)
      BY <2>1, <2>3, <1>0 DEF TransferSound, SendsSound, HalfWritten
    <3>2. dev[t].master_status < MASTER_READY /\ NamesArg(<<dev[t].m2s_buf[1], ros.word[2]>>)
              => <<dev[t].m2s_buf[1], ros.word[2]>>[1] \in hist'[t].astray
      BY <3>1, <2>2, HalfWords DEF Kept, NamesArg
    <3>3. dev'[t] = [dev[t] EXCEPT !.m2s_buf = <<dev[t].m2s_buf[1], ros.word[2]>>]
      BY <1>10, <2>3 DEF CommandEnd, TypeOK
    <3>. QED
      BY <3>2, <3>3, <2>1, <2>2, <1>0, OverwriteTransfer
  <2>4. CASE s # t
    <3>1. dev'[t] = dev[t]
      BY <1>10, <2>4 DEF CommandEnd, TypeOK
    <3>2. HalfWritten(t)' => HalfWritten(t)
      BY <3>1, <2>1 DEF HalfWritten
    <3>. QED
      BY <3>1, <3>2, <2>1, <2>2, <1>0, Untouched
  <2>. QED
    BY <2>3, <2>4
<1>11. CASE BeginShutdown
  BY <1>11, <1>0, Untouched DEF BeginShutdown, HalfWritten, Locked
<1>12. CASE StopThreads
  BY <1>12, <1>0, Untouched DEF StopThreads, HalfWritten, Locked
<1>13. ASSUME NEW s \in Slaves, FwTakeArg(s) PROVE TransferSound(t)'
  <2>1. s # t => fw'[t] = fw[t]
    BY <1>13 DEF FwTakeArg, TypeOK
  <2>. QED
    BY <2>1, <1>13, <1>0, TakeArgTransfer, Untouched DEF FwTakeArg, HalfWritten, Locked
<1>14. ASSUME NEW s \in Slaves, FwWork(s) PROVE TransferSound(t)'
  <2>1. s # t => fw'[t] = fw[t]
    BY <1>14 DEF FwWork, TypeOK
  <2>. QED
    BY <2>1, <1>14, <1>0, WorkTransfer, Untouched DEF FwWork, HalfWritten, Locked
<1>15. CASE UNCHANGED vars
  BY <1>15, <1>0, Untouched DEF vars, HalfWritten, Locked
<1>. QED
  BY <1>1, <1>2, <1>3, <1>4, <1>5, <1>6, <1>7, <1>8, <1>9, <1>10, <1>11, <1>12, <1>13, <1>14, <1>15
  DEF Next, DataThread, Bus

\* The invariant of the argument transfer holds for any number of slaves and arguments and
\* for any commands.
THEOREM TransferCorrect == Spec => []TransferInv
<1>1. Init => TransferInv
  BY InitTransfer
<1>2. TypeOK /\ TransferInv /\ [Next]_vars => TransferInv'
  BY NextTransfer
<1>. QED
  BY <1>1, <1>2, TypeCorrect, PTL DEF Spec

\* When the master considers the transfer finished, the slave holds every argument byte
\* that no command has named, whatever frames are lost and whatever commands arrive.
THEOREM ArgumentsDelivered == Spec => []ArgsDelivered
<1>1. TransferInv => ArgsDelivered
  BY DEF TransferInv, TransferSound, ConfirmedSound, ArgsDelivered
<1>. QED
  BY <1>1, TransferCorrect, PTL

-----------------------------------------------------------------------------
(* The process-data cycle implements ArgTransfer: each of its steps is a    *)
(* delivery, a confirmation, a byte that goes astray or arrives so, or      *)
(* leaves the transfer alone.                                               *)

\* What the abstract specification sees of a slave.
LEMMA SeenUnchanged ==
    ASSUME \A t \in Slaves : /\ dev'[t].arg_sent = dev[t].arg_sent
                             /\ dev'[t].arg_idx = dev[t].arg_idx
                             /\ fw'[t].store = fw[t].store
                             /\ hist'[t].astray = hist[t].astray
    PROVE  UNCHANGED Transfers!tvars
<1>1. ConfirmedArgs' = ConfirmedArgs
  BY DEF ConfirmedArgs
<1>2. /\ [t \in Slaves |-> fw[t].store]' = [t \in Slaves |-> fw[t].store]
      /\ [t \in Slaves |-> hist[t].astray]' = [t \in Slaves |-> hist[t].astray]
  OBVIOUS
<1>. QED
  BY <1>1, <1>2 DEF Transfers!tvars

\* The initial state maps to the initial state of the abstract transfer.
LEMMA RefinesInit == Init => Transfers!Init
<1>. SUFFICES ASSUME Init PROVE Transfers!Init
  OBVIOUS
<1>1. ConfirmedArgs = [s \in Slaves |-> 0]
  BY DEF Init, ConfirmedArgs, ConfiguredDevice
<1>2. [s \in Slaves |-> fw[s].store] = [s \in Slaves |-> [i \in 1 .. ArgLen |-> NoByte]]
  BY DEF Init, FreshFirmware
<1>3. [s \in Slaves |-> hist[s].astray] = [s \in Slaves |-> {}]
  BY DEF Init
<1>. QED
  BY <1>1, <1>2, <1>3 DEF Transfers!Init, Transfers!Slaves, Slaves

\* The visit of the processing loop confirms at most the byte being sent.
LEMMA ProcessRefines ==
    ASSUME TypeOK, TransferInv, NEW s \in Slaves, Process(s)
    PROVE  Transfers!Confirm(s) \/ UNCHANGED Transfers!tvars
<1>. DEFINE d == dev[s]
            e == dev'[s]
            st == [t \in Slaves |-> fw[t].store]
            gone == [t \in Slaves |-> hist[t].astray]
<1>1. d \in Device /\ d.reconnected = 0 /\ d.arg_idx \in 1 .. ArgLen /\ TransferSound(s)
  BY DEF TypeOK, TransferInv, TransferSound, NotReconnected, Device
<1>2. e \in {handshake(d), process_pdo(handshake(d))} /\ fw' = fw
  BY DEF Process, TypeOK
<1>3. Stays(d, e) \/ Completes(d, e) \/ Moves(d, e)
  BY <1>1, <1>2, VisitTransfers
<1>4. \A t \in Slaves : (t # s => dev'[t] = dev[t]) /\ hist'[t].astray = hist[t].astray
  BY DEF Process, TypeOK, History
<1>5. e \in Device
  BY NextTyped DEF Process, TypeOK, Device, Next, DataThread
<1>. HIDE DEF d, e
<1>6. CASE Stays(d, e)
  <2>1. dev'[s].arg_sent = dev[s].arg_sent /\ dev'[s].arg_idx = dev[s].arg_idx
    BY <1>1, <1>5, <1>6 DEF Stays, Device, d, e
  <2>. QED
    BY <2>1, <1>2, <1>4, SeenUnchanged
<1>7. CASE Completes(d, e) \/ Moves(d, e)
  <2>1. ConfirmedArgs[s] = d.arg_idx - 1 /\ d.arg_idx = ConfirmedArgs[s] + 1
    BY <1>1, <1>7, ArgIndexTyped DEF ConfirmedArgs, Completes, Moves, d
  <2>2. ConfirmedArgs'[s] = d.arg_idx
    BY <1>1, <1>7, ArgIndexTyped DEF ConfirmedArgs, Completes, Moves, e
  <2>3. ConfirmedArgs' = [ConfirmedArgs EXCEPT ![s] = d.arg_idx]
    BY <2>2, <1>4 DEF ConfirmedArgs
  <2>4. Echoed(d) /\ ArgWord(d.arg_idx)[1] = d.arg_idx
    BY <1>1, <1>7, WordsTyped DEF Completes, Moves
  <2>5. st[s][d.arg_idx] = Arg[d.arg_idx] \/ d.arg_idx \in gone[s]
    BY <2>4, <1>1 DEF Echoed, TransferSound, EchoSound, Echoes, Kept, NamesArg, d
  <2>6. st' = st /\ gone' = gone
    BY <1>2, <1>4
  <2>. HIDE DEF st, gone
  <2>7. d.arg_idx <= ArgLen
    BY <1>1, ArgIndexTyped
  <2>. QED
    BY <2>1, <2>3, <2>5, <2>6, <2>7 DEF Transfers!Confirm, st, gone
<1>. QED
  BY <1>3, <1>6, <1>7

\* The firmware takes the byte that follows the last confirmed one, or takes one again, or
\* one that has gone astray, or what it reads is no argument.
LEMMA TakeArgRefines ==
    ASSUME TypeOK, TransferInv, NEW s \in Slaves, FwTakeArg(s)
    PROVE  \/ Transfers!Deliver(s)
           \/ \E i \in 1 .. ArgLen : \E value \in Byte : Transfers!Stray(s, i, value)
           \/ UNCHANGED Transfers!tvars
<1>. DEFINE w == fw[s].rx.word
            new == [i \in 1 .. ArgLen |-> IF i = w[1] THEN w[2] ELSE fw[s].store[i]]
            tx == [ status |-> IF AllStored(new) THEN SLAVE_READY ELSE SLAVE_INITIALIZING,
                    word |-> w, epoch |-> fw[s].rx.epoch ]
<1>1. fw' = [fw EXCEPT ![s].store = new, ![s].tx = tx] /\ dev' = dev /\ hist' = hist
  BY DEF FwTakeArg
<1>. HIDE DEF tx
<1>2. fw'[s].store = new /\ \A t \in Slaves : t # s => fw'[t] = fw[t]
  BY <1>1 DEF TypeOK
<1>3. fw[s].store \in [1 .. ArgLen -> Byte \cup {NoByte}] /\ TransferSound(s)
      /\ dev[s].arg_idx \in 1 .. ArgLen /\ w \in Word /\ w[2] \in Byte
  BY WordHalves DEF TypeOK, TransferInv, Device, Frame
<1>4. Kept(s, w) => w[2] = Arg[w[1]] /\ w[1] <= dev[s].arg_idx
  <2>1. fw[s].rx.status < MASTER_READY
    BY DEF FwTakeArg, MASTER_SENDING_ARGUMENTS, MASTER_READY
  <2>2. Kept(s, w) => w = ArgWord(w[1]) /\ w[1] <= dev[s].arg_idx
    BY <2>1, <1>3 DEF TransferSound, SendsSound, WordSound
  <2>. QED
    BY <2>2, WordsTyped DEF Kept, NamesArg
<1>5. ConfirmedArgs' = ConfirmedArgs
      /\ [t \in Slaves |-> hist[t].astray]' = [t \in Slaves |-> hist[t].astray]
  BY <1>1 DEF ConfirmedArgs
<1>. DEFINE Follows == Kept(s, w) /\ w[1] = dev[s].arg_idx /\ ~dev[s].arg_sent
            Gone == NamesArg(w) /\ w[1] \in hist[s].astray
<1>6. CASE Follows
  <2>1. ConfirmedArgs[s] + 1 = w[1] /\ w[1] <= ArgLen
    BY <1>6, <1>3, ArgIndexTyped DEF ConfirmedArgs
  <2>2. new = [i \in 1 .. ArgLen |-> IF i = w[1] THEN Arg[i] ELSE fw[s].store[i]]
    BY <1>4, <1>6
  <2>3. [t \in Slaves |-> fw[t].store]'
            = [[t \in Slaves |-> fw[t].store] EXCEPT ![s] =
                   [i \in 1 .. ArgLen |-> IF i = w[1] THEN Arg[i] ELSE @[i]]]
    BY <1>2, <2>2
  <2>. QED
    BY <2>1, <2>3, <1>5 DEF Transfers!Deliver
<1>7. CASE Gone
  <2>1. w[1] \in 1 .. ArgLen /\ w[1] \in hist[s].astray
    BY <1>7 DEF NamesArg
  <2>2. PICK i \in 1 .. ArgLen, value \in Byte : i = w[1] /\ value = w[2]
    BY <2>1, <1>3
  <2>3. [t \in Slaves |-> fw[t].store]'
            = [[t \in Slaves |-> fw[t].store] EXCEPT ![s] =
                   [j \in 1 .. ArgLen |-> IF j = i THEN value ELSE @[j]]]
    BY <1>2, <2>2
  <2>4. Transfers!Stray(s, i, value)
    BY <2>1, <2>2, <2>3, <1>5 DEF Transfers!Stray
  <2>. QED
    BY <2>4
<1>8. CASE ~Follows /\ ~Gone
  <2>1. ASSUME NEW i \in 1 .. ArgLen PROVE new[i] = fw[s].store[i]
    <3>1. CASE i = w[1]
      <4>1. Kept(s, w) /\ w[2] = Arg[i] /\ i \notin hist[s].astray
        BY <3>1, <1>4, <1>8 DEF Kept, NamesArg
      <4>2. i < dev[s].arg_idx \/ dev[s].arg_sent
        BY <4>1, <3>1, <1>3, <1>4, <1>8, ArgIndexTyped DEF Kept
      <4>. QED
        BY <4>1, <4>2, <3>1, <1>3 DEF TransferSound, ConfirmedSound
    <3>2. CASE i # w[1]
      BY <3>2
    <3>. QED
      BY <3>1, <3>2
  <2>2. new = [i \in 1 .. ArgLen |-> new[i]] /\ fw[s].store = [i \in 1 .. ArgLen |-> fw[s].store[i]]
    BY <1>3
  <2>. HIDE DEF new
  <2>3. new = fw[s].store
    BY <2>1, <2>2, Zenon
  <2>. QED
    BY <2>3, <1>1, <1>2, SeenUnchanged
<1>. HIDE DEF Follows, Gone
<1>. QED
  BY <1>6, <1>7, <1>8

\* Writing a number to the buffer at most makes a byte go astray.
LEMMA NumberRefines ==
    ASSUME TypeOK, NEW s \in Slaves, NEW w, hist' = [hist EXCEPT ![s].astray = Astray(s, w)],
           \A t \in Slaves : /\ dev'[t].arg_sent = dev[t].arg_sent
                             /\ dev'[t].arg_idx = dev[t].arg_idx
                             /\ fw'[t].store = fw[t].store
    PROVE  (\E i \in 1 .. ArgLen : Transfers!GoAstray(s, i)) \/ UNCHANGED Transfers!tvars
<1>1. \A t \in Slaves : hist'[t].astray = IF t = s THEN Astray(s, w) ELSE hist[t].astray
  BY DEF TypeOK, History
<1>2. CASE Astray(s, w) = hist[s].astray
  BY <1>1, <1>2, SeenUnchanged
<1>3. CASE NamesArg(w) /\ Astray(s, w) = hist[s].astray \cup {w[1]}
  <2>1. [t \in Slaves |-> hist[t].astray]'
            = [[t \in Slaves |-> hist[t].astray] EXCEPT ![s] = @ \cup {w[1]}]
    BY <1>1, <1>3
  <2>2. ConfirmedArgs' = ConfirmedArgs
        /\ [t \in Slaves |-> fw[t].store]' = [t \in Slaves |-> fw[t].store]
    BY DEF ConfirmedArgs
  <2>3. Transfers!GoAstray(s, w[1])
    BY <2>1, <2>2 DEF Transfers!GoAstray
  <2>. QED
    BY <2>3, <1>3 DEF NamesArg
<1>. QED
  BY <1>2, <1>3 DEF Astray

\* All other steps leave what the abstract specification sees alone.
LEMMA RefinesNext == TypeOK /\ TransferInv /\ [Next]_vars => [Transfers!Next]_(Transfers!tvars)
<1>. SUFFICES ASSUME TypeOK, TransferInv, [Next]_vars
              PROVE  Transfers!Next \/ UNCHANGED Transfers!tvars
  OBVIOUS
<1>. DEFINE Kin == \A t \in Slaves : /\ dev'[t].arg_sent = dev[t].arg_sent
                                      /\ dev'[t].arg_idx = dev[t].arg_idx
                                      /\ fw'[t].store = fw[t].store
            Seen == Kin /\ \A t \in Slaves : hist'[t].astray = hist[t].astray
            Refined == Transfers!Next \/ UNCHANGED Transfers!tvars
<1>0. \A t \in Slaves : dev[t] \in Device /\ hist[t] \in History
  BY DEF TypeOK
<1>. USE DEF History
<1>1. ASSUME NEW s \in Slaves, Receive(s) PROVE Seen
  BY <1>1, <1>0 DEF Receive, TypeOK, Device
<1>2. ASSUME NEW s \in Slaves, NEW w, dev' = [dev EXCEPT ![s].m2s_buf = w], fw' = fw PROVE Kin
  <2>1. \A t \in Slaves : dev'[t] = IF t = s THEN [dev[t] EXCEPT !.m2s_buf = w] ELSE dev[t]
    BY <1>2 DEF TypeOK
  <2>. QED
    BY <1>2, <2>1, <1>0 DEF Device
<1>3. ASSUME NEW s \in Slaves, NEW w, NEW b, dev' = [dev EXCEPT ![s].m2s_buf = b], fw' = fw,
             hist' = [hist EXCEPT ![s].astray = Astray(s, w)]
      PROVE  Refined
  <2>1. (\E i \in 1 .. ArgLen : Transfers!GoAstray(s, i)) \/ UNCHANGED Transfers!tvars
    BY <1>2, <1>3, NumberRefines
  <2>. QED
    BY <2>1 DEF Transfers!Next, Transfers!Slaves, Slaves
<1>4. ASSUME NEW s \in Slaves, ExitReset(s) PROVE Seen \/ Refined
  BY <1>3, <1>4 DEF ExitReset
<1>5. ASSUME NEW s \in Slaves, ExitResetRest(s) PROVE Seen
  <2>1. fw' = fw /\ (dev' = dev \/ \E w : dev' = [dev EXCEPT ![s].m2s_buf = w])
    BY <1>5 DEF ExitResetRest
  <2>2. Kin
    BY <1>2, <2>1
  <2>3. hist' = hist \/ hist' = [hist EXCEPT ![s].want = InitWord]
    BY <1>5 DEF ExitResetRest
  <2>. QED
    BY <1>0, <2>2, <2>3 DEF TypeOK
<1>6. ASSUME NEW s \in Slaves, Transfer(s) \/ Cleanup(s) PROVE Seen
  BY <1>6 DEF Transfer, Cleanup
<1>7. ASSUME NEW reached \in SUBSET Slaves, NEW back \in BOOLEAN, Exchange(reached, reached, back)
      PROVE  Seen
  BY <1>7 DEF Exchange, TypeOK
<1>8. ASSUME NEW s \in Slaves, NEW w \in CmdWords, CommandBegin(s, w) PROVE Refined
  BY <1>3, <1>8 DEF CommandBegin
<1>9. ASSUME NEW s \in Slaves, CommandEnd(s) PROVE Seen
  BY <1>9, <1>0 DEF CommandEnd, TypeOK, Device
<1>10. ASSUME SkipExitReset \/ BeginShutdown \/ StopThreads \/ UNCHANGED vars PROVE Seen
  BY <1>10 DEF SkipExitReset, BeginShutdown, StopThreads, vars
<1>11. ASSUME NEW s \in Slaves, FwWork(s) PROVE Seen
  BY <1>11 DEF FwWork, TypeOK
<1>12. ASSUME NEW s \in Slaves, Process(s) PROVE Refined
  BY <1>12, ProcessRefines DEF Transfers!Next, Transfers!Slaves, Slaves
<1>13. ASSUME NEW s \in Slaves, FwTakeArg(s) PROVE Refined
  BY <1>13, TakeArgRefines DEF Transfers!Next, Transfers!Slaves, Slaves
<1>14. Seen => Refined
  BY SeenUnchanged
<1>. HIDE DEF Seen, Refined, Kin
<1>15. Refined
  BY <1>1, <1>4, <1>5, <1>6, <1>7, <1>8, <1>9, <1>10, <1>11, <1>12, <1>13, <1>14
  DEF Next, DataThread, Bus
<1>. QED
  BY <1>15 DEF Refined

\* Whatever frames are lost and whatever the threads and the commands do in between, each
\* slave receives its arguments in order, each one is counted as confirmed only once it is
\* stored, and none is overwritten -- except those a command has named.
THEOREM TransferImplemented == Spec => ImplementsTransfer
<1>1. Init => Transfers!Init
  BY RefinesInit
<1>2. TypeOK /\ TransferInv /\ [Next]_vars => [Transfers!Next]_(Transfers!tvars)
  BY RefinesNext
<1>. QED
  BY <1>1, <1>2, TypeCorrect, TransferCorrect, PTL DEF Spec, ImplementsTransfer, Transfers!Spec
=============================================================================
