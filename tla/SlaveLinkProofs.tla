--------------------------- MODULE SlaveLinkProofs --------------------------
(***************************************************************************)
(* Proofs about SlaveLink: for any number of slaves, boards and losses the *)
(* variables keep their types, only the board of the set-up is driven, and *)
(* a lost slave, once reset, counts neither as ready nor as configured     *)
(* until the checker has seen it again.                                    *)
(*                                                                         *)
(* The first argument is an invariant about each slave in two parts.  What *)
(* the checker has found out about the board holds at every place of its   *)
(* thread (BoardChecked); what it knows while it visits the slave holds    *)
(* from one step of the visit to the next (CheckerKnows), although the bus *)
(* goes on in between.                                                     *)
(***************************************************************************)
EXTENDS SlaveLink, PdoCycleProofs

\* The slave has not been brought past PRE_OP since its power-on.
Early(s) == bus[s].al \in {"INIT", "PRE_OP"}

\* The last outputs it took tell it that the master is ready.
Drives(s) == fw[s].rx.status >= MASTER_READY

\* Another board is there, and the checker has not noticed.
Unnoticed(s) == OtherBoard(s) /\ s \notin unread /\ ~rejected[s]

\* The round has not got to this slave.
NotVisited(s) == chk.pc # "idle" /\ (chk.s < s \/ At("visit", s))

\* A rejected board is kept out of OP, a board that just came up has seen no outputs,
\* and an exchanged board that was not noticed has just come up.
BoardChecked(s) ==
    /\ rejected[s] => s \notin unread /\ bus[s].al # "OP" /\ ~Drives(s)
    /\ Early(s) => ~Drives(s)
    /\ Unnoticed(s) => Early(s)

\* What holds of the slave while the checker is at it.
CheckerKnows(s) ==
    /\ At("to_op", s) => ~rejected[s]
    /\ At("reconfig", s) => bus[s].al = "INIT"
    /\ At("configure", s) => Early(s)
    /\ At("safe_op", s) /\ Unnoticed(s) => ~bus[s].addressed
    /\ At("recover", s) \/ At("recover_rest", s) \/ At("found", s) => ~ec[s].islost
    /\ At("reset_lost", s) => ec[s].islost
    /\ NotVisited(s) /\ ec[s].state = "INIT" => bus[s].al = "INIT"

LinkInv == LinkTypeOK /\ \A s \in Slaves : BoardChecked(s) /\ CheckerKnows(s)

-----------------------------------------------------------------------------
(* Type correctness.                                                        *)

\* The types of the variables this module adds.
Position == [ present : BOOLEAN, addressed : BOOLEAN, mapped : BOOLEAN,
              al : AlStates, board : Boards ]
BusTyped == bus \in [Slaves -> Position]
EcTyped == ec \in [Slaves -> [state : AlStates \cup {"NONE"}, islost : BOOLEAN]]
ChkTyped == chk \in [pc : CheckerSteps, s : Slaves]
BoardsTyped ==
    sn \in [Slaves -> Boards] /\ unread \subseteq Slaves /\ rejected \in [Slaves -> BOOLEAN]
CountsTyped == /\ wkcLow \in BOOLEAN /\ docheck \in BOOLEAN /\ pause \in 0 .. PauseFrames
               /\ faults \in 0 .. MaxFaults

\* They make up the type invariant.
LEMMA LinkTypes ==
    /\ LinkTypeOK <=> TypeOK /\ BusTyped /\ EcTyped /\ ChkTyped /\ BoardsTyped /\ CountsTyped
    /\ LinkTypeOK' <=>
           TypeOK' /\ BusTyped' /\ EcTyped' /\ ChkTyped' /\ BoardsTyped' /\ CountsTyped'
BY DEF LinkTypeOK, BusTyped, Position, EcTyped, ChkTyped, BoardsTyped, CountsTyped

\* A firmware that starts over has an empty memory.
LEMMA FreshTyped ==
    /\ FreshFirmware \in [rx : Frame, tx : Frame, store : [1 .. ArgLen -> Byte \cup {NoByte}]]
    /\ ~(FreshFirmware.rx.status >= MASTER_READY)
<1>1. EmptyFrame \in Frame /\ [EmptyFrame EXCEPT !.status = SLAVE_INITIALIZING] \in Frame
  BY WordsTyped, Bounds DEF EmptyFrame, Frame, Byte, SLAVE_INITIALIZING
<1>2. FreshFirmware.rx.status = 0
  BY DEF FreshFirmware, EmptyFrame
<1>. QED
  BY <1>1, <1>2 DEF FreshFirmware, MASTER_READY

\* The methods the checker calls lead from a device to a device.
LEMMA MethodsTyped ==
    ASSUME NEW d \in Device
    PROVE  /\ pre_recover(d) \in Device
           /\ reset_state(d) \in Device
           /\ recover_state(d) \in Device
           /\ backup_master_to_slave_buf(on_connection_lost(reset_state(d))) \in Device
           /\ [d EXCEPT !.ready = TRUE] \in Device
           /\ [d EXCEPT !.ros_conf = TRUE] \in Device
           /\ [d EXCEPT !.master_status = MASTER_SENDING_ARGUMENTS, !.ecat_conf = TRUE] \in Device
<1>1. 1 \in 1 .. ArgLen /\ SLAVE_INITIALIZING \in Byte /\ MASTER_SENDING_ARGUMENTS \in Byte
  BY ArgIndexTyped, Bounds DEF Byte, SLAVE_INITIALIZING, MASTER_SENDING_ARGUMENTS
<1>2. (d.reconnected + 1) % ReconnMod \in 0 .. ReconnMod - 1
  BY DeviceAssumption DEF Device
<1>3. pre_recover(d) \in Device
  BY <1>1, <1>2 DEF pre_recover, Device
<1>4. reset_state(d) \in Device
  BY <1>1 DEF reset_state, Device
<1>5. ASSUME NEW e \in Device PROVE on_connection_lost(e) \in Device
  BY WordsTyped DEF on_connection_lost, write_init_values, Device
<1>6. ASSUME NEW e \in Device PROVE backup_master_to_slave_buf(e) \in Device
  BY DEF backup_master_to_slave_buf, Device
<1>7. recover_state(d) \in Device /\ [d EXCEPT !.ready = TRUE] \in Device
                                  /\ [d EXCEPT !.ros_conf = TRUE] \in Device
  BY DEF recover_state, Device
<1>8. [d EXCEPT !.master_status = MASTER_SENDING_ARGUMENTS, !.ecat_conf = TRUE] \in Device
  BY <1>1 DEF Device
<1>. QED
  BY <1>3, <1>4, <1>5, <1>6, <1>7, <1>8

\* A step that only updates devices keeps the types of the cycle.
LEMMA DeviceStepTyped ==
    ASSUME TypeOK, UNCHANGED <<cycleRest, hist>>, NEW s \in Slaves, NEW d \in Device,
           dev' = [dev EXCEPT ![s] = d]
    PROVE  TypeOK'
<1>1. dev' \in [Slaves -> Device]
  BY DEF TypeOK
<1>. QED
  BY <1>1 DEF TypeOK, cycleRest, threadVars, rosVars, exitVars

\* The initial state has the types.
LEMMA InitLinkTyped == InitLink => LinkTypeOK
<1>. SUFFICES ASSUME InitLink PROVE LinkTypeOK
  OBVIOUS
<1>1. TypeOK
  BY InitTyped DEF InitLink
<1>2. BusTyped /\ EcTyped /\ BoardsTyped
  BY DEF InitLink, BusTyped, Position, EcTyped, BoardsTyped, AlStates
<1>3. ChkTyped
  BY CycleAssumption DEF InitLink, ChkTyped, CheckerSteps, Slaves
<1>4. CountsTyped
  <2>1. wkcLow = FALSE /\ docheck = FALSE /\ pause = 0 /\ faults = 0
    BY DEF InitLink
  <2>2. 0 \in 0 .. PauseFrames /\ 0 \in 0 .. MaxFaults
    BY LinkAssumption
  <2>. QED
    BY <2>1, <2>2 DEF CountsTyped
<1>. QED
  BY <1>1, <1>2, <1>3, <1>4, LinkTypes

\* What the checker reads in a slave's state.
LEMMA CheckedTyped ==
    BusTyped => \A s \in Slaves : CheckedState(s) \in AlStates \cup {"NONE"}
BY DEF CheckedState, BusTyped, Position

\* What it asks of a slave ...
LEMMA RequestTyped ==
    ASSUME NEW s \in Slaves, NEW al \in AlStates, BusTyped, Request(s, al)
    PROVE  BusTyped'
BY DEF Request, BusTyped, Position

\* ... what it notes of it ...
LEMMA LearnTyped ==
    ASSUME NEW s \in Slaves, NEW state \in AlStates \cup {"NONE"}, EcTyped, Learn(s, state)
    PROVE  EcTyped'
BY DEF Learn, EcTyped

\* ... and where it goes on are of the types of the variables.
LEMMA GotoTyped ==
    ASSUME NEW pc \in CheckerSteps, ChkTyped, Goto(pc)
    PROVE  ChkTyped'
BY DEF Goto, ChkTyped

\* On to the next slave, or to sleep.
LEMMA NextSlaveTyped ==
    ASSUME ChkTyped, pause \in 0 .. PauseFrames, NextSlave
    PROVE  ChkTyped' /\ pause' \in 0 .. PauseFrames
<1>1. CASE chk.s < SlaveCount
  BY <1>1, CycleAssumption DEF NextSlave, ChkTyped, CheckerSteps, Slaves
<1>2. CASE ~(chk.s < SlaveCount)
  BY <1>2, CycleAssumption, LinkAssumption DEF NextSlave, ChkTyped, CheckerSteps, Slaves
<1>. QED
  BY <1>1, <1>2

\* The states a slave can be in, and the steps of a visit.
LEMMA NamesTyped ==
    /\ {"INIT", "PRE_OP", "SAFE_OP", "OP", "SAFE_OP_ERROR"} \subseteq AlStates
    /\ { "idle", "visit", "to_op", "reconfig", "configure", "safe_op", "reconfigured",
         "reset", "reset_lost", "lost?", "recover", "recover_rest", "found" } \subseteq CheckerSteps
BY DEF AlStates, CheckerSteps

\* A step of the cycle leaves the variables of this module alone.
LEMMA CycleIsNext == CycleStep => Next /\ UNCHANGED linkVars
BY DEF CycleStep, Next

\* The hook of a reconfiguration may or may not read the serial number, and may or may
\* not find the firmware too old.
LEMMA ConfigureChoice ==
    ASSUME NEW s \in Slaves, Configure(s)
    PROVE  \E read \in BOOLEAN, outdated \in BOOLEAN :
              /\ rejected' = [rejected EXCEPT ![s] = read /\ OtherBoard(s)]
              /\ unread' = IF read THEN unread \ {s} ELSE unread \cup {s}
              /\ IF rejected'[s] \/ outdated
                 THEN UNCHANGED <<dev, fw>>
                 ELSE /\ dev' = [dev EXCEPT ![s].master_status = MASTER_SENDING_ARGUMENTS,
                                            ![s].ecat_conf = TRUE]
                      /\ fw' = IF Answers(s) THEN [fw EXCEPT ![s] = FreshFirmware] ELSE fw
<1>1. {Answers(s)} \cup (IF SdoMayFail THEN {FALSE} ELSE {}) \subseteq BOOLEAN
  BY Zenon DEF Answers
<1>2. ASSUME NEW read \in BOOLEAN
      PROVE  {FALSE} \cup (IF MayBeOutdated THEN {read} ELSE {}) \subseteq BOOLEAN
  BY Zenon
<1>. QED
  BY <1>1, <1>2, Zenon DEF Configure

\* Every step keeps the types.
LEMMA NextLinkTyped == LinkTypeOK /\ [NextLink]_allVars => LinkTypeOK'
<1>. SUFFICES ASSUME LinkTypeOK, [NextLink]_allVars PROVE LinkTypeOK'
  OBVIOUS
<1>0. TypeOK /\ BusTyped /\ EcTyped /\ ChkTyped /\ BoardsTyped /\ CountsTyped
  BY LinkTypes
<1>1. pause \in 0 .. PauseFrames /\ faults \in 0 .. MaxFaults
  BY <1>0 DEF CountsTyped
<1>2. \A s \in Slaves : dev[s] \in Device /\ ec[s].state \in AlStates \cup {"NONE"}
  BY <1>0 DEF TypeOK, EcTyped
<1>. DEFINE T == TypeOK' /\ BusTyped' /\ EcTyped' /\ ChkTyped' /\ BoardsTyped' /\ CountsTyped'
<1>3. ASSUME UNCHANGED vars PROVE TypeOK'
  BY <1>0, <1>3 DEF vars, threadVars, rosVars, exitVars, TypeOK
<1>4. /\ UNCHANGED bus => BusTyped'
      /\ UNCHANGED ec => EcTyped'
      /\ UNCHANGED chk => ChkTyped'
      /\ UNCHANGED <<sn, unread, rejected>> => BoardsTyped'
      /\ UNCHANGED <<wkcLow, docheck, pause, faults>> => CountsTyped'
      /\ UNCHANGED <<wkcLow, pause, faults>> /\ docheck' \in BOOLEAN => CountsTyped'
      /\ UNCHANGED <<wkcLow, docheck, faults>> /\ pause' \in 0 .. PauseFrames => CountsTyped'
  BY <1>0 DEF BusTyped, EcTyped, ChkTyped, BoardsTyped, CountsTyped
<1>5. CASE CycleStep
  <2>1. TypeOK'
    BY <1>0, <1>5, CycleIsNext, NextTyped
  <2>. QED
    BY <1>4, <1>5, <2>1, CycleIsNext, LinkTypes DEF linkVars
<1>6. ASSUME NEW arrives \in BOOLEAN, NEW back \in BOOLEAN, BusStep(arrives, back) PROVE T
  <2>1. TypeOK'
    BY <1>0, <1>6, ExchangeTyped DEF BusStep
  <2>2. wkcLow' \in BOOLEAN
    BY <1>6, Zenon DEF BusStep
  <2>3. pause' \in 0 .. PauseFrames
    <3>1. pause' = pause \/ (pause < PauseFrames /\ pause' = pause + 1)
      BY <1>6 DEF BusStep
    <3>. QED
      BY <3>1, <1>1, LinkAssumption
  <2>4. UNCHANGED <<bus, ec, sn, unread, rejected, docheck, chk, faults>>
    BY <1>6 DEF BusStep
  <2>5. CountsTyped'
    BY <1>0, <2>2, <2>3, <2>4 DEF CountsTyped
  <2>. QED
    BY <1>4, <2>1, <2>4, <2>5
<1>7. ASSUME StartCheck PROVE T
  <2>1. \A s \in Slaves : ReadState(s) \in AlStates \cup {"NONE"}
    BY <1>0 DEF ReadState, BusTyped, Position
  <2>2. EcTyped'
    BY <1>0, <1>7, <2>1 DEF StartCheck, EcTyped
  <2>. QED
    BY <1>0, <1>3, <1>4, <1>7, <2>2, GotoTyped, NamesTyped DEF StartCheck
<1>8. ASSUME NEW s \in Slaves, Checker(s) PROVE T
  <2>1. CASE VisitOperational(s)
    BY <1>0, <1>3, <1>4, <2>1, GotoTyped, NamesTyped DEF VisitOperational
  <2>2. CASE VisitSafeOp(s)
    <3>1. TypeOK'
      BY <1>0, <1>2, <2>2, MethodsTyped, DeviceStepTyped DEF VisitSafeOp
    <3>. QED
      BY <1>0, <1>4, <2>2, <3>1, GotoTyped, NamesTyped DEF VisitSafeOp
  <2>3. CASE VisitInit(s)
    BY <1>0, <1>3, <1>4, <2>3, GotoTyped, NamesTyped, CheckedTyped, LearnTyped DEF VisitInit
  <2>4. CASE VisitNewlyLost(s)
    <3>1. EcTyped'
      BY <1>0, <2>4 DEF VisitNewlyLost, EcTyped
    <3>. QED
      BY <1>0, <1>3, <1>4, <2>4, <3>1, GotoTyped, NamesTyped DEF VisitNewlyLost
  <2>5. CASE VisitOther(s)
    BY <1>0, <1>3, <1>4, <2>5, GotoTyped, NamesTyped DEF VisitOther
  <2>6. CASE ReachOperational(s)
    BY <1>0, <1>3, <1>4, <2>6, GotoTyped, NamesTyped, RequestTyped, LearnTyped
       DEF ReachOperational
  <2>7. CASE MissOperational(s)
    BY <1>0, <1>3, <1>4, <2>7, GotoTyped, NamesTyped, CheckedTyped, LearnTyped DEF MissOperational
  <2>8. CASE Reconfig(s)
    BY <1>0, <1>3, <1>4, <2>8, GotoTyped, NamesTyped, RequestTyped, LearnTyped DEF Reconfig
  <2>9. CASE Configure(s)
    <3>1. PICK read \in BOOLEAN, outdated \in BOOLEAN :
             /\ rejected' = [rejected EXCEPT ![s] = read /\ OtherBoard(s)]
             /\ unread' = IF read THEN unread \ {s} ELSE unread \cup {s}
             /\ IF rejected'[s] \/ outdated
                THEN UNCHANGED <<dev, fw>>
                ELSE /\ dev' = [dev EXCEPT ![s].master_status = MASTER_SENDING_ARGUMENTS,
                                           ![s].ecat_conf = TRUE]
                     /\ fw' = IF Answers(s) THEN [fw EXCEPT ![s] = FreshFirmware] ELSE fw
      BY <2>9, ConfigureChoice
    <3>2. dev' \in [Slaves -> Device]
      <4>. DEFINE d == [dev[s] EXCEPT !.master_status = MASTER_SENDING_ARGUMENTS,
                                      !.ecat_conf = TRUE]
      <4>1. d \in Device
        BY <1>2, MethodsTyped
      <4>2. dev' = dev \/ dev' = [dev EXCEPT ![s] = d]
        BY <3>1
      <4>. HIDE DEF d
      <4>. QED
        BY <1>0, <4>1, <4>2 DEF TypeOK
    <3>3. fw' \in [Slaves -> [rx : Frame, tx : Frame, store : [1 .. ArgLen -> Byte \cup {NoByte}]]]
      BY <1>0, <3>1, FreshTyped DEF TypeOK
    <3>4. TypeOK'
      BY <1>0, <2>9, <3>2, <3>3 DEF Configure, TypeOK, threadVars, rosVars, exitVars
    <3>5. BoardsTyped'
      <4>1. (read /\ OtherBoard(s)) \in BOOLEAN
        BY Zenon
      <4>. QED
        BY <1>0, <2>9, <3>1, <4>1 DEF Configure, BoardsTyped
    <3>. QED
      BY <1>0, <1>4, <2>9, <3>4, <3>5, GotoTyped, NamesTyped DEF Configure
  <2>10. CASE ReconfigRest(s)
    <3>1. BusTyped'
      BY <1>0, <2>10, NamesTyped DEF ReconfigRest, BusTyped, Position
    <3>. QED
      BY <1>0, <1>3, <1>4, <2>10, <3>1, GotoTyped, LearnTyped, NamesTyped DEF ReconfigRest
  <2>11. CASE Reconfigured(s)
    <3>1. BusTyped' /\ EcTyped'
      <4>1. CASE rejected[s]
        BY <1>0, <2>11, <4>1, LearnTyped, RequestTyped, NamesTyped DEF Reconfigured
      <4>2. CASE ~rejected[s]
        BY <1>0, <1>4, <2>11, <4>2 DEF Reconfigured, EcTyped
      <4>. QED
        BY <4>1, <4>2
    <3>. QED
      BY <1>0, <1>3, <1>4, <2>11, <3>1, GotoTyped, NamesTyped DEF Reconfigured
  <2>12. CASE AfterReconfig(s)
    <3>1. TypeOK'
      BY <1>0, <1>2, <2>12, MethodsTyped, DeviceStepTyped DEF AfterReconfig
    <3>. QED
      BY <1>0, <1>4, <2>12, <3>1, GotoTyped, NamesTyped DEF AfterReconfig
  <2>13. CASE NotLost(s)
    BY <1>0, <1>1, <1>3, <1>4, <2>13, NextSlaveTyped DEF NotLost
  <2>14. CASE Recover(s)
    <3>1. CASE bus[s].present
      <4>1. BusTyped'
        BY <1>0, <2>14, <3>1, ZenonT(60) DEF Recover, BusTyped, Position
      <4>2. EcTyped'
        BY <1>0, <2>14, <3>1 DEF Recover, EcTyped
      <4>. QED
        BY <1>0, <1>3, <1>4, <2>14, <3>1, <4>1, <4>2, GotoTyped, NamesTyped DEF Recover
    <3>2. CASE ~bus[s].present
      BY <1>0, <1>1, <1>3, <1>4, <2>14, <3>2, NextSlaveTyped DEF Recover
    <3>. QED
      BY <3>1, <3>2
  <2>15. CASE RecoverState(s)
    <3>1. TypeOK'
      BY <1>0, <1>2, <2>15, MethodsTyped, DeviceStepTyped DEF RecoverState
    <3>. QED
      BY <1>0, <1>4, <2>15, <3>1, GotoTyped, NamesTyped DEF RecoverState
  <2>16. CASE RecoverStateRest(s)
    <3>1. TypeOK'
      BY <1>0, <1>2, <2>16, MethodsTyped, DeviceStepTyped DEF RecoverStateRest
    <3>. QED
      BY <1>0, <1>4, <2>16, <3>1, <1>1, NextSlaveTyped DEF RecoverStateRest
  <2>17. CASE Found(s)
    <3>1. EcTyped'
      BY <1>0, <2>17 DEF Found, EcTyped
    <3>. QED
      BY <1>0, <1>3, <1>4, <2>17, <3>1, GotoTyped, NamesTyped DEF Found
  <2>18. CASE FoundState(s)
    <3>1. TypeOK'
      BY <1>0, <1>2, <2>18, MethodsTyped, DeviceStepTyped DEF FoundState
    <3>. QED
      BY <1>0, <1>4, <2>18, <3>1, <1>1, NextSlaveTyped DEF FoundState
  <2>19. CASE ResetLost(s)
    <3>1. TypeOK'
      <4>1. dev' \in [Slaves -> Device]
        BY <1>0, <1>2, <2>19, MethodsTyped DEF ResetLost, TypeOK
      <4>2. hist[s] \in History
        BY <1>0 DEF TypeOK
      <4>3. (IF ResetOnLoss THEN InitWord ELSE hist[s].want) \in Word
        BY <4>2, WordsTyped DEF History
      <4>4. hist' \in [Slaves -> History]
        BY <1>0, <2>19, <4>3 DEF ResetLost, TypeOK, History
      <4>. QED
        BY <1>0, <2>19, <4>1, <4>4 DEF ResetLost, TypeOK, cycleRest, threadVars, rosVars, exitVars
    <3>. QED
      BY <1>0, <1>4, <2>19, <3>1, GotoTyped, NamesTyped DEF ResetLost
  <2>. QED
    BY <1>8, <2>1, <2>2, <2>3, <2>4, <2>5, <2>6, <2>7, <2>8, <2>9, <2>10, <2>11, <2>12, <2>13,
       <2>14, <2>15, <2>16, <2>17, <2>18, <2>19 DEF Checker
<1>9. ASSUME NEW s \in Slaves, Unplug(s) PROVE T
  <2>1. BusTyped'
    BY <1>0, <1>9, NamesTyped DEF Unplug, BusTyped, Position
  <2>2. faults' \in 0 .. MaxFaults
    BY <1>1, <1>9, LinkAssumption DEF Unplug
  <2>3. CountsTyped'
    BY <1>0, <1>9, <2>2 DEF Unplug, CountsTyped
  <2>. QED
    BY <1>0, <1>3, <1>4, <1>9, <2>1, <2>3 DEF Unplug
<1>10. ASSUME NEW s \in Slaves, Replug(s) PROVE T
  <2>1. BusTyped'
    BY <1>0, <1>10 DEF Replug, BusTyped, Position
  <2>. QED
    BY <1>0, <1>3, <1>4, <1>10, <2>1 DEF Replug
<1>11. ASSUME NEW s \in Slaves, NEW b \in Boards, PowerUp(s, b) PROVE T
  <2>1. BusTyped'
    BY <1>0, <1>11, NamesTyped DEF PowerUp, BusTyped, Position
  <2>2. fw' \in [Slaves -> [rx : Frame, tx : Frame, store : [1 .. ArgLen -> Byte \cup {NoByte}]]]
    BY <1>0, <1>11, FreshTyped DEF PowerUp, TypeOK
  <2>3. TypeOK'
    BY <1>0, <1>11, <2>2 DEF PowerUp, TypeOK, threadVars, rosVars, exitVars
  <2>. QED
    BY <1>4, <1>11, <2>1, <2>3 DEF PowerUp
<1>12. ASSUME UNCHANGED allVars PROVE T
  BY <1>3, <1>4, <1>12 DEF allVars, linkVars
<1>. QED
  <2>1. CycleStep \/ T
    BY <1>6, <1>7, <1>8, <1>9, <1>10, <1>11, <1>12 DEF NextLink, Environment
  <2>. QED
    BY <1>5, <2>1, LinkTypes

-----------------------------------------------------------------------------
(* The board of the set-up.                                                 *)

\* What the invariant says of a slave rests on these.
SameSlave(s) ==
    /\ bus'[s] = bus[s] /\ sn' = sn /\ fw'[s].rx = fw[s].rx
    /\ rejected'[s] = rejected[s] /\ (s \in unread' <=> s \in unread)

\* A step that leaves them alone keeps what was found out about the board ...
LEMMA BoardStays ==
    ASSUME NEW s \in Slaves, BoardChecked(s), SameSlave(s)
    PROVE  BoardChecked(s)'
BY DEF BoardChecked, SameSlave, Unnoticed, OtherBoard, Early, Drives

\* ... and, if the checker stays where it is, what it knows.
LEMMA KnowledgeStays ==
    ASSUME NEW s \in Slaves, CheckerKnows(s), SameSlave(s), ec'[s] = ec[s], UNCHANGED chk
    PROVE  CheckerKnows(s)'
BY DEF CheckerKnows, SameSlave, Unnoticed, OtherBoard, Early, NotVisited, At

\* While the checker is at a slave, or moves on from it, nothing is claimed of another
\* slave but that the round has not got to it.
LEMMA OthersWait ==
    ASSUME NEW s \in Slaves, NEW r \in Slaves, r # s, CheckerKnows(r), SameSlave(r), ec'[r] = ec[r],
           LinkTypeOK, chk.s = s, chk.pc # "idle", chk'.s = s \/ NextSlave
    PROVE  CheckerKnows(r)'
<1>0. chk \in [pc : CheckerSteps, s : Slaves]
  BY DEF LinkTypeOK
<1>1. CASE chk'.s = s
  BY <1>0, <1>1 DEF CheckerKnows, SameSlave, NotVisited, At, Slaves
<1>2. CASE NextSlave
  BY <1>0, <1>2, CycleAssumption DEF NextSlave, CheckerKnows, SameSlave, NotVisited, At, Slaves
<1>. QED
  BY <1>1, <1>2

\* The steps of the cycle do not touch what a slave has received.
LEMMA CycleKeepsRx ==
    ASSUME TypeOK, CycleStep
    PROVE  \A s \in Slaves : fw'[s].rx = fw[s].rx
<1>1. \A s \in Slaves :
          fw[s] \in [rx : Frame, tx : Frame, store : [1 .. ArgLen -> Byte \cup {NoByte}]]
  BY DEF TypeOK
<1>2. ASSUME NEW s \in Slaves, FwTakeArg(s) PROVE \A r \in Slaves : fw'[r].rx = fw[r].rx
  BY <1>1, <1>2 DEF FwTakeArg, TypeOK
<1>3. ASSUME NEW s \in Slaves, FwWork(s) PROVE \A r \in Slaves : fw'[r].rx = fw[r].rx
  BY <1>1, <1>3 DEF FwWork, TypeOK
<1>4. (\E s \in Slaves : FwTakeArg(s) \/ FwWork(s)) \/ UNCHANGED fw
  BY DEF CycleStep, DataThread, Receive, Process, ExitReset, ExitResetRest, Transfer, Cleanup,
         CommandBegin, CommandEnd, SkipExitReset, BeginShutdown, StopThreads
<1>. QED
  BY <1>2, <1>3, <1>4

\* It holds at the start: every slave runs, and no visit is under way.
LEMMA InitLinkInv == InitLink => LinkInv
<1>. SUFFICES ASSUME InitLink PROVE LinkInv
  OBVIOUS
<1>1. ASSUME NEW s \in Slaves PROVE BoardChecked(s) /\ CheckerKnows(s)
  <2>1. bus[s].al = "OP" /\ bus[s].board = sn[s] /\ ~rejected[s]
    BY DEF InitLink
  <2>2. chk.pc = "idle"
    BY DEF InitLink
  <2>. QED
    BY <2>1, <2>2
    DEF BoardChecked, CheckerKnows, Unnoticed, OtherBoard, Early, Drives, NotVisited, At
<1>. QED
  BY <1>1, InitLinkTyped DEF LinkInv

\* A cyclic frame is taken only by slaves in OP.
LEMMA BusKeepsInv ==
    ASSUME NEW arrives, NEW back, LinkInv, BusStep(arrives, back), NEW s \in Slaves
    PROVE  BoardChecked(s)' /\ CheckerKnows(s)'
<1>1. BoardChecked(s) /\ CheckerKnows(s)
  BY DEF LinkInv
<1>2. UNCHANGED <<bus, ec, sn, unread, rejected, chk>>
  BY DEF BusStep
<1>3. CASE bus[s].al # "OP"
  <2>1. fw'[s].rx = fw[s].rx
    BY <1>3 DEF BusStep, Exchange, Writable, TakesOutputs
  <2>. QED
    BY <1>1, <1>2, <2>1, BoardStays, KnowledgeStays DEF SameSlave
<1>4. CASE bus[s].al = "OP"
  BY <1>1, <1>2, <1>4
  DEF BoardChecked, CheckerKnows, Unnoticed, OtherBoard, Early, NotVisited, At
<1>. QED
  BY <1>3, <1>4

\* Boards are unplugged and come back.
LEMMA EnvironmentKeepsInv ==
    ASSUME LinkInv, Environment, NEW s \in Slaves
    PROVE  BoardChecked(s)' /\ CheckerKnows(s)'
<1>0. /\ BoardChecked(s) /\ CheckerKnows(s)
      /\ bus \in [Slaves -> Position]
      /\ fw \in [Slaves -> [rx : Frame, tx : Frame, store : [1 .. ArgLen -> Byte \cup {NoByte}]]]
  BY DEF LinkInv, LinkTypeOK, TypeOK, Position
<1>1. ASSUME NEW r \in Slaves, Unplug(r) PROVE BoardChecked(s)' /\ CheckerKnows(s)'
  <2>1. UNCHANGED <<fw, ec, sn, unread, rejected, chk>>
    BY <1>1 DEF Unplug, vars
  <2>2. /\ bus'[s].board = bus[s].board /\ bus'[s].addressed = bus[s].addressed
        /\ bus'[s].al = bus[s].al \/ (bus[s].al = "OP" /\ bus'[s].al = "SAFE_OP_ERROR")
    BY <1>0, <1>1 DEF Unplug, Position
  <2>. QED
    BY <1>0, <2>1, <2>2
    DEF BoardChecked, CheckerKnows, Unnoticed, OtherBoard, Early, Drives, NotVisited, At
<1>2. ASSUME NEW r \in Slaves, Replug(r) PROVE BoardChecked(s)' /\ CheckerKnows(s)'
  <2>1. UNCHANGED <<fw, ec, sn, unread, rejected, chk>>
    BY <1>2 DEF Replug, vars
  <2>2. /\ bus'[s].board = bus[s].board /\ bus'[s].addressed = bus[s].addressed
        /\ bus'[s].al = bus[s].al
    BY <1>0, <1>2 DEF Replug, Position
  <2>. QED
    BY <1>0, <2>1, <2>2
    DEF BoardChecked, CheckerKnows, Unnoticed, OtherBoard, Early, Drives, NotVisited, At
<1>3. ASSUME NEW r \in Slaves, NEW b \in Boards, PowerUp(r, b)
      PROVE  BoardChecked(s)' /\ CheckerKnows(s)'
  <2>1. UNCHANGED <<ec, sn, unread, rejected, chk>>
    BY <1>3 DEF PowerUp
  <2>2. CASE s # r
    BY <1>0, <1>3, <2>1, <2>2, BoardStays, KnowledgeStays DEF PowerUp, SameSlave
  <2>3. CASE s = r
    <3>1. bus'[s].al = "INIT" /\ ~bus'[s].addressed /\ fw'[s] = FreshFirmware
      BY <1>0, <1>3, <2>3 DEF PowerUp
    <3>2. ~(fw'[s].rx.status >= MASTER_READY)
      BY <3>1, FreshTyped
    <3>. QED
      BY <1>0, <2>1, <3>1, <3>2
      DEF BoardChecked, CheckerKnows, Unnoticed, OtherBoard, Early, Drives, NotVisited, At
  <2>. QED
    BY <2>2, <2>3
<1>. QED
  BY <1>1, <1>2, <1>3 DEF Environment

\* A step of the checker concerns the slave it is at, and no other.
LEMMA CheckerLocal ==
    ASSUME LinkTypeOK, NEW s \in Slaves, Checker(s)
    PROVE  /\ chk.s = s /\ chk.pc # "idle"
           /\ chk'.s = s \/ NextSlave
           /\ \A r \in Slaves : r # s => SameSlave(r) /\ ec'[r] = ec[r]
<1>0. /\ bus \in [Slaves -> Position]
      /\ ec \in [Slaves -> [state : AlStates \cup {"NONE"}, islost : BOOLEAN]]
      /\ rejected \in [Slaves -> BOOLEAN]
      /\ fw \in [Slaves -> [rx : Frame, tx : Frame, store : [1 .. ArgLen -> Byte \cup {NoByte}]]]
      /\ chk \in [pc : CheckerSteps, s : Slaves]
  BY DEF LinkTypeOK, TypeOK, Position
<1>1. chk.s = s /\ chk.pc # "idle"
  BY DEF Checker, At, VisitOperational, VisitSafeOp, VisitInit, VisitNewlyLost, VisitOther,
         ReachOperational, MissOperational, Reconfig, Configure, ReconfigRest, Reconfigured,
          AfterReconfig, NotLost, Recover, RecoverState, RecoverStateRest, Found, ResetLost,
         FoundState
<1>. DEFINE Local == /\ chk'.s = s \/ NextSlave
                    /\ \A r \in Slaves : r # s => SameSlave(r) /\ ec'[r] = ec[r]
<1>2. \A pc : Goto(pc) => chk'.s = s
  BY <1>0, <1>1 DEF Goto
<1>3. \A al : Request(s, al) => \A r \in Slaves : r # s => bus'[r] = bus[r]
  BY <1>0 DEF Request
<1>4. \A al : Learn(s, al) => \A r \in Slaves : r # s => ec'[r] = ec[r]
  BY <1>0 DEF Learn
<1>5. ASSUME VisitOperational(s) PROVE Local
  BY <1>0, <1>2, <1>3, <1>4, <1>5 DEF VisitOperational, SameSlave, vars, cycleRest
<1>6. ASSUME VisitSafeOp(s) PROVE Local
  BY <1>0, <1>2, <1>3, <1>4, <1>6 DEF VisitSafeOp, SameSlave, vars, cycleRest
<1>7. ASSUME VisitInit(s) PROVE Local
  BY <1>0, <1>2, <1>3, <1>4, <1>7 DEF VisitInit, SameSlave, vars, cycleRest
<1>8. ASSUME VisitNewlyLost(s) PROVE Local
  BY <1>0, <1>2, <1>3, <1>4, <1>8 DEF VisitNewlyLost, SameSlave, vars, cycleRest
<1>9. ASSUME VisitOther(s) PROVE Local
  BY <1>0, <1>2, <1>3, <1>4, <1>9 DEF VisitOther, SameSlave, vars, cycleRest
<1>10. ASSUME ReachOperational(s) PROVE Local
  BY <1>0, <1>2, <1>3, <1>4, <1>10 DEF ReachOperational, SameSlave, vars, cycleRest
<1>11. ASSUME MissOperational(s) PROVE Local
  BY <1>0, <1>2, <1>3, <1>4, <1>11 DEF MissOperational, SameSlave, vars, cycleRest
<1>12. ASSUME Reconfig(s) PROVE Local
  BY <1>0, <1>2, <1>3, <1>4, <1>12 DEF Reconfig, SameSlave, vars, cycleRest
<1>13. ASSUME Configure(s) PROVE Local
  <2>1. /\ UNCHANGED <<bus, ec, sn>> /\ chk'.s = s
        /\ rejected' = [rejected EXCEPT ![s] = rejected'[s]]
        /\ unread' = unread \ {s} \/ unread' = unread \cup {s}
        /\ fw' = fw \/ fw' = [fw EXCEPT ![s] = FreshFirmware]
    BY <1>0, <1>2, <1>13, ConfigureChoice DEF Configure
  <2>. QED
    BY <1>0, <2>1 DEF SameSlave
<1>14. ASSUME ReconfigRest(s) PROVE Local
  BY <1>0, <1>2, <1>3, <1>4, <1>14 DEF ReconfigRest, SameSlave, vars, cycleRest
<1>15. ASSUME Reconfigured(s) PROVE Local
  BY <1>0, <1>2, <1>3, <1>4, <1>15 DEF Reconfigured, SameSlave, vars, cycleRest
<1>16. ASSUME AfterReconfig(s) PROVE Local
  BY <1>0, <1>2, <1>3, <1>4, <1>16 DEF AfterReconfig, SameSlave, vars, cycleRest
<1>17. ASSUME NotLost(s) PROVE Local
  BY <1>0, <1>2, <1>3, <1>4, <1>17 DEF NotLost, SameSlave, vars, cycleRest
<1>18. ASSUME Recover(s) PROVE Local
  BY <1>0, <1>2, <1>3, <1>4, <1>18 DEF Recover, SameSlave, vars, cycleRest
<1>19. ASSUME RecoverState(s) PROVE Local
  BY <1>0, <1>2, <1>3, <1>4, <1>19 DEF RecoverState, SameSlave, vars, cycleRest
<1>20. ASSUME RecoverStateRest(s) PROVE Local
  BY <1>0, <1>2, <1>3, <1>4, <1>20 DEF RecoverStateRest, SameSlave, vars, cycleRest
<1>21. ASSUME Found(s) PROVE Local
  BY <1>0, <1>2, <1>3, <1>4, <1>21 DEF Found, SameSlave, vars, cycleRest
<1>22. ASSUME FoundState(s) PROVE Local
  BY <1>0, <1>2, <1>3, <1>4, <1>22 DEF FoundState, SameSlave, vars, cycleRest
<1>23. ASSUME ResetLost(s) PROVE Local
  BY <1>0, <1>2, <1>3, <1>4, <1>23 DEF ResetLost, SameSlave, vars, cycleRest
<1>. QED
  <2>1. Local
    BY <1>5, <1>6, <1>7, <1>8, <1>9, <1>10, <1>11, <1>12, <1>13, <1>14, <1>15, <1>16, <1>17,
       <1>18, <1>19, <1>20, <1>21, <1>22, <1>23 DEF Checker
  <2>. QED
    BY <1>1, <2>1

\* The slave the checker is at: what a step of the visit finds out holds after it.
LEMMA CheckerKeepsInv ==
    ASSUME LinkInv, NEW s \in Slaves, Checker(s)
    PROVE  BoardChecked(s)' /\ CheckerKnows(s)'
<1>0. /\ bus \in [Slaves -> Position]
      /\ ec \in [Slaves -> [state : AlStates \cup {"NONE"}, islost : BOOLEAN]]
      /\ rejected \in [Slaves -> BOOLEAN]
      /\ fw \in [Slaves -> [rx : Frame, tx : Frame, store : [1 .. ArgLen -> Byte \cup {NoByte}]]]
      /\ chk \in [pc : CheckerSteps, s : Slaves]
      /\ ~(s < s)
  BY DEF LinkInv, LinkTypeOK, TypeOK, Position, Slaves
<1>1. BoardChecked(s) /\ CheckerKnows(s)
  BY DEF LinkInv
<1>. DEFINE Inv == BoardChecked(s)' /\ CheckerKnows(s)'
            Later(pc) == chk' = [pc |-> pc, s |-> s]
            Moved == (chk'.s # s /\ ~(chk'.s < s)) \/ chk'.pc = "idle"
\* After the visit has begun, the slave counts as visited.
<1>2. \A pc : Goto(pc) /\ chk.s = s => Later(pc)
  BY <1>0 DEF Goto
<1>3. NextSlave /\ chk.s = s => Moved
  BY <1>0, CycleAssumption DEF NextSlave, Slaves
<1>4. ASSUME Moved PROVE ~NotVisited(s)' /\ \A pc \in CheckerSteps \ {"idle"} : ~At(pc, s)'
  BY <1>4 DEF NotVisited, At
<1>5. ASSUME Moved, BoardChecked(s)' PROVE Inv
  BY <1>5 DEF NotVisited, At, CheckerKnows
<1>6. ASSUME VisitOperational(s) PROVE Inv
  <2>1. /\ SameSlave(s) /\ chk'.s = s /\ chk'.pc \in {"lost?", "to_op"}
        /\ chk'.pc = "to_op" => ~rejected[s]
    BY <1>0, <1>2, <1>6 DEF VisitOperational, At, SameSlave, vars
  <2>. QED
    BY <1>0, <1>1, <2>1 DEF BoardChecked, CheckerKnows, SameSlave, Unnoticed, OtherBoard, Early,
           Drives, NotVisited, At
<1>7. ASSUME VisitOther(s) PROVE Inv
  <2>1. /\ SameSlave(s) /\ chk'.s = s /\ chk'.pc \in {"lost?", "to_op"}
        /\ chk'.pc = "to_op" => ~rejected[s]
    BY <1>0, <1>2, <1>7 DEF VisitOther, At, SameSlave, vars
  <2>. QED
    BY <1>0, <1>1, <2>1 DEF BoardChecked, CheckerKnows, SameSlave, Unnoticed, OtherBoard, Early,
           Drives, NotVisited, At
<1>8. ASSUME VisitSafeOp(s) PROVE Inv
  <2>1. /\ SameSlave(s) /\ chk'.s = s /\ chk'.pc \in {"lost?", "to_op"}
        /\ chk'.pc = "to_op" => ~rejected[s]
    BY <1>0, <1>2, <1>8 DEF VisitSafeOp, At, SameSlave, cycleRest, ToBeResent
  <2>. QED
    BY <1>0, <1>1, <2>1 DEF BoardChecked, CheckerKnows, SameSlave, Unnoticed, OtherBoard, Early,
           Drives, NotVisited, At
<1>9. ASSUME VisitNewlyLost(s) PROVE Inv
  <2>1. SameSlave(s) /\ ec'[s].islost /\ chk'.s = s /\ chk'.pc = "reset_lost"
    BY <1>0, <1>2, <1>9 DEF VisitNewlyLost, At, SameSlave, vars
  <2>. QED
    BY <1>0, <1>1, <2>1 DEF BoardChecked, CheckerKnows, SameSlave, Unnoticed, OtherBoard, Early,
           Drives, NotVisited, At
<1>10. ASSUME MissOperational(s) PROVE Inv
  <2>1. /\ SameSlave(s) /\ chk'.s = s /\ chk'.pc \in {"lost?", "to_op"}
        /\ chk'.pc = "to_op" => ~rejected[s]
    BY <1>0, <1>2, <1>10 DEF MissOperational, At, SameSlave, vars
  <2>. QED
    BY <1>0, <1>1, <2>1 DEF BoardChecked, CheckerKnows, SameSlave, Unnoticed, OtherBoard, Early,
           Drives, NotVisited, At
<1>11. ASSUME AfterReconfig(s) PROVE Inv
  <2>1. /\ SameSlave(s) /\ chk'.s = s /\ chk'.pc \in {"lost?", "to_op"}
        /\ chk'.pc = "to_op" => ~rejected[s]
    BY <1>0, <1>2, <1>11 DEF AfterReconfig, At, SameSlave, cycleRest
  <2>. QED
    BY <1>0, <1>1, <2>1 DEF BoardChecked, CheckerKnows, SameSlave, Unnoticed, OtherBoard, Early,
           Drives, NotVisited, At
<1>12. ASSUME VisitInit(s) PROVE Inv
  <2>1. SameSlave(s) /\ chk'.s = s /\ chk'.pc \in {"lost?", "reconfig"}
    BY <1>0, <1>2, <1>12 DEF VisitInit, At, SameSlave, vars
  <2>2. bus[s].al = "INIT"
    BY <1>0, <1>1, <1>12 DEF VisitInit, CheckerKnows, NotVisited, At
  <2>. QED
    BY <1>0, <1>1, <2>1, <2>2 DEF BoardChecked, CheckerKnows, SameSlave, Unnoticed, OtherBoard,
           Early, Drives, NotVisited, At
<1>13. ASSUME ReachOperational(s) PROVE Inv
  <2>1. /\ fw' = fw /\ sn' = sn /\ rejected' = rejected /\ unread' = unread
        /\ chk'.s = s /\ chk'.pc = "lost?"
        /\ bus[s].al = "SAFE_OP" /\ ~rejected[s]
    BY <1>0, <1>1, <1>2, <1>13 DEF ReachOperational, CheckerKnows, At, vars
  <2>2. bus'[s].al = "OP" /\ bus'[s].board = bus[s].board
    BY <1>0, <1>13 DEF ReachOperational, Request, Position
  <2>. QED
    BY <1>0, <1>1, <2>1, <2>2 DEF BoardChecked, CheckerKnows, SameSlave, Unnoticed, OtherBoard,
           Early, Drives, NotVisited, At
<1>14. ASSUME Reconfig(s) PROVE Inv
  <2>1. /\ fw' = fw /\ sn' = sn /\ rejected' = rejected /\ unread' = unread
        /\ chk'.s = s /\ chk'.pc \in {"configure", "reset"}
        /\ bus[s].al = "INIT"
    BY <1>0, <1>1, <1>2, <1>14 DEF Reconfig, CheckerKnows, At, vars
  <2>2. Early(s)' /\ bus'[s].board = bus[s].board
    BY <1>0, <1>14, <2>1 DEF Reconfig, Request, Position, Early
  <2>. QED
    BY <1>0, <1>1, <2>1, <2>2 DEF BoardChecked, CheckerKnows, SameSlave, Unnoticed, OtherBoard,
           Early, Drives, NotVisited, At
<1>15. ASSUME Configure(s) PROVE Inv
  <2>1. PICK read \in {Answers(s)} \cup (IF SdoMayFail THEN {FALSE} ELSE {}) :
           /\ rejected' = [rejected EXCEPT ![s] = read /\ OtherBoard(s)]
           /\ unread' = IF read THEN unread \ {s} ELSE unread \cup {s}
    BY <1>15 DEF Configure
  <2>2. /\ UNCHANGED <<bus, sn>> /\ chk'.s = s /\ chk'.pc = "safe_op"
        /\ Early(s)
        /\ fw' = fw \/ fw' = [fw EXCEPT ![s] = FreshFirmware]
    BY <1>0, <1>1, <1>2, <1>15, ConfigureChoice DEF Configure, CheckerKnows, At
  <2>3. ~Drives(s)'
    BY <1>0, <1>1, <2>2, FreshTyped DEF BoardChecked, Drives
  <2>4. rejected'[s] => s \notin unread'
    BY <1>0, <2>1
  <2>5. ~Unnoticed(s)'
    BY <1>0, <2>1, <2>2 DEF Unnoticed, OtherBoard
  <2>. QED
    BY <1>0, <2>2, <2>3, <2>4, <2>5 DEF BoardChecked, CheckerKnows, Early, NotVisited, At
<1>16. ASSUME ReconfigRest(s) PROVE Inv
  <2>1. /\ fw' = fw /\ sn' = sn /\ rejected' = rejected /\ unread' = unread
        /\ chk'.s = s /\ chk'.pc \in {"reconfigured", "reset"}
    BY <1>0, <1>2, <1>16 DEF ReconfigRest, At, vars
  <2>2. CASE Answers(s)
    <3>1. bus'[s].al = "SAFE_OP" /\ bus'[s].board = bus[s].board
      BY <1>0, <1>16, <2>2 DEF ReconfigRest, Position
    <3>2. ~Unnoticed(s)
      BY <1>1, <1>16, <2>2 DEF CheckerKnows, ReconfigRest, Answers
    <3>. QED
      BY <1>0, <1>1, <2>1, <3>1, <3>2 DEF BoardChecked, CheckerKnows, SameSlave, Unnoticed,
             OtherBoard, Early, Drives, NotVisited, At
  <2>3. CASE ~Answers(s)
    BY <1>0, <1>1, <1>16, <2>1, <2>3 DEF BoardChecked, CheckerKnows, SameSlave, Unnoticed,
           OtherBoard, Early, Drives, NotVisited, At, ReconfigRest
  <2>. QED
    BY <2>2, <2>3
<1>17. ASSUME Reconfigured(s) PROVE Inv
  <2>1. /\ fw' = fw /\ sn' = sn /\ rejected' = rejected /\ unread' = unread
        /\ chk'.s = s /\ chk'.pc = "reset"
    BY <1>0, <1>2, <1>17 DEF Reconfigured, At, vars
  <2>2. /\ bus'[s].board = bus[s].board
        /\ bus'[s].al = bus[s].al \/ (rejected[s] /\ bus'[s].al = "INIT")
    BY <1>0, <1>17 DEF Reconfigured, Request, Position
  <2>. QED
    BY <1>0, <1>1, <2>1, <2>2 DEF BoardChecked, CheckerKnows, SameSlave, Unnoticed, OtherBoard,
           Early, Drives, NotVisited, At
<1>18. ASSUME NotLost(s) PROVE Inv
  BY <1>1, <1>3, <1>5, <1>18, BoardStays DEF NotLost, At, SameSlave, vars, cycleRest
<1>19. ASSUME RecoverStateRest(s) PROVE Inv
  BY <1>1, <1>3, <1>5, <1>19, BoardStays DEF RecoverStateRest, At, SameSlave, vars, cycleRest
<1>20. ASSUME FoundState(s) PROVE Inv
  BY <1>1, <1>3, <1>5, <1>20, BoardStays DEF FoundState, At, SameSlave, vars, cycleRest
<1>21. ASSUME Recover(s) PROVE Inv
  <2>1. /\ fw' = fw /\ sn' = sn /\ rejected' = rejected /\ unread' = unread /\ chk.s = s
    BY <1>21 DEF Recover, At, vars
  <2>2. bus'[s].al = bus[s].al /\ bus'[s].board = bus[s].board
    BY <1>0, <1>21 DEF Recover, Position
  <2>3. BoardChecked(s)'
    BY <1>0, <1>1, <2>1, <2>2 DEF BoardChecked, CheckerKnows, SameSlave, Unnoticed, OtherBoard,
           Early, Drives, NotVisited, At
  <2>4. CASE bus[s].present
    <3>1. ~ec'[s].islost /\ chk'.s = s /\ chk'.pc = "recover"
      BY <1>0, <1>2, <1>21, <2>1, <2>4 DEF Recover
    <3>. QED
      BY <1>0, <2>3, <3>1 DEF CheckerKnows, NotVisited, At
  <2>5. CASE ~bus[s].present
    BY <1>3, <1>5, <1>21, <2>1, <2>3, <2>5 DEF Recover
  <2>. QED
    BY <2>4, <2>5
<1>22. ASSUME RecoverState(s) PROVE Inv
  <2>1. SameSlave(s) /\ ec' = ec /\ chk'.s = s /\ chk'.pc = "recover_rest" /\ chk.pc = "recover"
        /\ chk.s = s
    BY <1>0, <1>2, <1>22 DEF RecoverState, At, SameSlave, cycleRest
  <2>. QED
    BY <1>0, <1>1, <2>1 DEF BoardChecked, CheckerKnows, SameSlave, Unnoticed, OtherBoard, Early,
           Drives, NotVisited, At
<1>23. ASSUME Found(s) PROVE Inv
  <2>1. SameSlave(s) /\ ~ec'[s].islost /\ chk'.s = s /\ chk'.pc = "found"
    BY <1>0, <1>2, <1>23 DEF Found, At, SameSlave, vars
  <2>. QED
    BY <1>0, <1>1, <2>1 DEF BoardChecked, CheckerKnows, SameSlave, Unnoticed, OtherBoard, Early,
           Drives, NotVisited, At
<1>24. ASSUME ResetLost(s) PROVE Inv
  <2>1. SameSlave(s) /\ chk'.s = s /\ chk'.pc = "lost?"
    BY <1>0, <1>2, <1>24 DEF ResetLost, At, SameSlave, vars, cycleRest
  <2>. QED
    BY <1>0, <1>1, <2>1 DEF BoardChecked, CheckerKnows, SameSlave, Unnoticed, OtherBoard, Early,
           Drives, NotVisited, At
<1>. QED
  <2>1. Inv
    BY <1>6, <1>7, <1>8, <1>9, <1>10, <1>11, <1>12, <1>13, <1>14, <1>15, <1>16, <1>17, <1>18,
       <1>19, <1>20, <1>21, <1>22, <1>23, <1>24 DEF Checker
  <2>. QED
    BY <2>1

\* At the start of a round nothing is known of a slave but what was just read.
LEMMA StartKeepsInv ==
    ASSUME LinkInv, StartCheck, NEW s \in Slaves
    PROVE  BoardChecked(s)' /\ CheckerKnows(s)'
<1>0. BoardChecked(s) /\ chk \in [pc : CheckerSteps, s : Slaves]
  BY DEF LinkInv, LinkTypeOK
<1>1. SameSlave(s) /\ bus' = bus /\ chk'.pc = "visit" /\ ec'[s].state = ReadState(s)
  <2>1. /\ ec'[s] = [ec[s] EXCEPT !.state = ReadState(s)]
        /\ ec \in [Slaves -> [state : AlStates \cup {"NONE"}, islost : BOOLEAN]]
    BY DEF LinkInv, LinkTypeOK, StartCheck
  <2>. QED
    BY <1>0, <2>1 DEF StartCheck, Goto, SameSlave, vars
<1>2. ReadState(s) = "INIT" => bus[s].al = "INIT"
  BY DEF ReadState
<1>. QED
  BY <1>0, <1>1, <1>2, BoardStays DEF CheckerKnows, NotVisited, At

\* Every step keeps the invariant.
LEMMA LinkInvKept == LinkInv /\ [NextLink]_allVars => LinkInv'
<1>. SUFFICES ASSUME LinkInv, [NextLink]_allVars PROVE LinkInv'
  OBVIOUS
<1>1. LinkTypeOK /\ LinkTypeOK'
  BY NextLinkTyped DEF LinkInv
<1>2. \A s \in Slaves : BoardChecked(s) /\ CheckerKnows(s)
  BY DEF LinkInv
<1>. SUFFICES ASSUME NEW r \in Slaves PROVE BoardChecked(r)' /\ CheckerKnows(r)'
  BY <1>1 DEF LinkInv
<1>3. CASE CycleStep
  <2>1. UNCHANGED linkVars /\ fw'[r].rx = fw[r].rx
    BY <1>1, <1>3, CycleIsNext, CycleKeepsRx DEF LinkTypeOK
  <2>. QED
    BY <1>2, <2>1, BoardStays, KnowledgeStays DEF SameSlave, linkVars
<1>4. CASE \E arrives, back \in BOOLEAN : BusStep(arrives, back)
  BY <1>4, BusKeepsInv
<1>5. CASE StartCheck
  BY <1>5, StartKeepsInv
<1>6. ASSUME NEW s \in Slaves, Checker(s) PROVE BoardChecked(r)' /\ CheckerKnows(r)'
  <2>1. CASE r = s
    BY <1>6, <2>1, CheckerKeepsInv
  <2>2. CASE r # s
    <3>1. /\ chk.s = s /\ chk.pc # "idle" /\ (chk'.s = s \/ NextSlave)
          /\ SameSlave(r) /\ ec'[r] = ec[r]
      BY <1>1, <1>6, <2>2, CheckerLocal
    <3>. QED
      BY <1>1, <1>2, <2>2, <3>1, BoardStays, OthersWait
  <2>. QED
    BY <2>1, <2>2
<1>7. CASE Environment
  BY <1>7, EnvironmentKeepsInv
<1>8. CASE UNCHANGED allVars
  BY <1>2, <1>8, BoardStays, KnowledgeStays DEF SameSlave, allVars, linkVars, vars
<1>. QED
  BY <1>3, <1>4, <1>5, <1>6, <1>7, <1>8 DEF NextLink

\* The invariant says what was to be shown.
LEMMA LinkInvSafe == LinkInv => LinkSafe
<1>1. ASSUME LinkInv, NEW s \in Slaves \ unread, fw[s].rx.status >= MASTER_READY
      PROVE  bus[s].board = sn[s]
  BY <1>1 DEF LinkInv, BoardChecked, Unnoticed, OtherBoard, Drives
<1>. QED
  BY <1>1 DEF LinkInv, LinkSafe, SameBoard

\* In every reachable state the variables have their types, and a board that was put in
\* the place of another one, and whose serial number could be read, is not told that the
\* master is ready: the checker's test of the number is made before the board can get
\* into OP, in whatever order boards come and go between its steps.
THEOREM OnlyKnownBoardsDriven == SpecLink => []LinkSafe
BY InitLinkInv, LinkInvKept, LinkInvSafe, PTL DEF SpecLink

-----------------------------------------------------------------------------
(* A lost slave is quiet.                                                   *)

\* Processing a slave that is not configured for ROS does nothing.
LEMMA UnconfiguredKept == \A d : ~d.ros_conf => handshake(d) = d /\ ~Publishes(d)
BY DEF handshake, Publishes, Configured

\* A step of the cycle, or a frame, leaves a quiet device quiet.
LEMMA CycleKeepsQuiet ==
    ASSUME TypeOK, Next, NEW s \in Slaves, Quiet(dev[s])
    PROVE  Quiet(dev'[s])
<1>0. dev \in [Slaves -> Device]
  BY DEF TypeOK
<1>1. ASSUME NEW r \in Slaves, Process(r) PROVE Quiet(dev'[s])
  <2>1. CASE r = s
    <3>1. dev'[s] = dev[s]
      BY <1>0, <1>1, <2>1, UnconfiguredKept DEF Process, Quiet
    <3>. QED
      BY <3>1
  <2>2. CASE r # s
    <3>1. dev'[s] = dev[s]
      BY <1>0, <1>1, <2>2 DEF Process
    <3>. QED
      BY <3>1
  <2>. QED
    BY <2>1, <2>2
<1>2. ASSUME NEW r \in Slaves,
             Receive(r) \/ ExitReset(r) \/ ExitResetRest(r) \/ CommandEnd(r)
                 \/ \E w \in CmdWords : CommandBegin(r, w)
      PROVE  Quiet(dev'[s])
  <2>1. dev'[s].ready = dev[s].ready /\ dev'[s].ros_conf = dev[s].ros_conf
    BY <1>0, <1>2 DEF Receive, ExitReset, ExitResetRest, CommandEnd, CommandBegin, Device
  <2>. QED
    BY <2>1 DEF Quiet
<1>3. ASSUME UNCHANGED dev PROVE Quiet(dev'[s])
  BY <1>3
<1>4. ASSUME NEW r \in Slaves, Transfer(r) \/ Cleanup(r) \/ FwTakeArg(r) \/ FwWork(r)
      PROVE  UNCHANGED dev
  BY <1>4 DEF Transfer, Cleanup, FwTakeArg, FwWork
<1>5. SkipExitReset \/ Bus \/ BeginShutdown \/ StopThreads => UNCHANGED dev
  BY DEF SkipExitReset, Bus, Exchange, BeginShutdown, StopThreads
<1>. QED
  BY <1>1, <1>2, <1>3, <1>4, <1>5 DEF Next, DataThread

\* What a lost slave must not do in a step.
StaysQuiet(s) ==
    /\ At("reset_lost", s) /\ ~At("reset_lost", s)' => ec'[s].islost /\ Quiet(dev'[s])
    /\ ec'[s].islost /\ ec[s].islost /\ ec[s].state = "NONE" /\ Quiet(dev[s]) => Quiet(dev'[s])

\* While the checker stays where it is, only the second part asks for anything.
LEMMA CheckerWaits ==
    ASSUME NEW s \in Slaves, UNCHANGED chk,
           ec'[s].islost /\ ec[s].islost /\ Quiet(dev[s]) => Quiet(dev'[s])
    PROVE  StaysQuiet(s)
BY DEF StaysQuiet, At

\* The checker is through with a loss only after a reset of the device, and makes only a
\* slave work again that is not lost any more, or was seen.
LEMMA CheckerKeepsQuiet ==
    ASSUME LinkInv, NEW r \in Slaves, Checker(r), NEW s \in Slaves
    PROVE  StaysQuiet(s)
<1>0. /\ ec \in [Slaves -> [state : AlStates \cup {"NONE"}, islost : BOOLEAN]]
      /\ dev \in [Slaves -> Device]
      /\ CheckerKnows(r)
  BY DEF LinkInv, LinkTypeOK, TypeOK
\* Only ResetLost leaves the place of the reset.
<1>1. CASE ResetLost(r)
  <2>1. CASE s = r
    <3>1. dev'[s] = backup_master_to_slave_buf(on_connection_lost(reset_state(dev[s])))
      BY <1>0, <1>1, <2>1 DEF ResetLost
    <3>2. Quiet(dev'[s])
      BY <1>0, <3>1 DEF Quiet, backup_master_to_slave_buf, on_connection_lost, reset_state,
                        write_init_values, Device
    <3>3. ec'[s].islost
      BY <1>0, <1>1, <2>1 DEF ResetLost, CheckerKnows
    <3>. QED
      BY <3>2, <3>3 DEF StaysQuiet
  <2>2. CASE s # r
    <3>1. dev'[s] = dev[s] /\ ~At("reset_lost", s)
      BY <1>0, <1>1, <2>2 DEF ResetLost, At
    <3>. QED
      BY <3>1 DEF StaysQuiet
  <2>. QED
    BY <2>1, <2>2
<1>. SUFFICES ASSUME ~ResetLost(r)
              PROVE  ec'[s].islost /\ ec[s].islost /\ ec[s].state = "NONE" /\ Quiet(dev[s])
                         => Quiet(dev'[s])
  <2>1. ~ResetLost(r) => ~At("reset_lost", s)
    BY DEF Checker, At, VisitOperational, VisitSafeOp, VisitInit, VisitNewlyLost, VisitOther,
           ReachOperational, MissOperational, Reconfig, Configure, ReconfigRest, Reconfigured,
           AfterReconfig, NotLost, Recover, RecoverState, RecoverStateRest, Found, FoundState
  <2>. QED
    BY <1>1, <2>1 DEF StaysQuiet
<1>2. CASE \/ VisitOperational(r) \/ VisitOther(r) \/ NotLost(r) \/ VisitNewlyLost(r) \/ VisitInit(r)
           \/ ReachOperational(r) \/ MissOperational(r) \/ Reconfig(r) \/ ReconfigRest(r)
           \/ Reconfigured(r) \/ Recover(r) \/ Found(r)
  <2>1. UNCHANGED dev
    BY <1>2 DEF VisitOperational, VisitOther, NotLost, VisitNewlyLost, VisitInit,
           ReachOperational, MissOperational, Reconfig, ReconfigRest, Reconfigured, Recover, Found,
           vars
  <2>. QED
    BY <2>1
<1>3. CASE VisitSafeOp(r)
  BY <1>0, <1>3 DEF VisitSafeOp, ToBeResent
<1>4. CASE Configure(r)
  <2>1. dev'[s].ready = dev[s].ready /\ dev'[s].ros_conf = dev[s].ros_conf
    <3>1. \/ dev' = dev
          \/ dev' = [dev EXCEPT ![r].master_status = MASTER_SENDING_ARGUMENTS,
                                ![r].ecat_conf = TRUE]
      BY <1>4, ConfigureChoice
    <3>2. \/ dev'[s] = dev[s]
          \/ dev'[s] = [dev[s] EXCEPT !.master_status = MASTER_SENDING_ARGUMENTS,
                                      !.ecat_conf = TRUE]
      BY <1>0, <3>1
    <3>3. dev[s] \in Device
      BY <1>0
    <3>. QED
      BY <3>2, <3>3 DEF Device
  <2>. QED
    BY <2>1 DEF Quiet
<1>5. CASE AfterReconfig(r)
  <2>1. s # r => dev'[s] = dev[s]
    BY <1>0, <1>5 DEF AfterReconfig
  <2>2. s = r => Quiet(dev'[s])
    BY <1>0, <1>5 DEF AfterReconfig, Quiet, reset_state, Device
  <2>. QED
    BY <2>1, <2>2
<1>6. CASE RecoverState(r) \/ RecoverStateRest(r) \/ FoundState(r)
  <2>1. ~ec[r].islost
    BY <1>0, <1>6 DEF RecoverState, RecoverStateRest, FoundState, CheckerKnows
  <2>2. s # r => dev'[s] = dev[s]
    BY <1>0, <1>6 DEF RecoverState, RecoverStateRest, FoundState
  <2>. QED
    BY <2>1, <2>2
<1>. QED
  BY <1>2, <1>3, <1>4, <1>5, <1>6 DEF Checker

\* When the checker is through with a loss, and until it has seen the slave again, the slave
\* counts neither as ready nor as configured, so that the data thread publishes nothing of it:
\* no command, no frame that is still under way and no other step makes it work in between.
THEOREM LostSlavesAreQuiet == SpecLink => LostIsQuiet
<1>1. LinkInv /\ [NextLink]_allVars =>
          [\A s \in Slaves :
               /\ At("reset_lost", s) /\ ~At("reset_lost", s)' => ec'[s].islost /\ Quiet(dev'[s])
               /\ ec'[s].islost /\ ec[s].islost /\ ec[s].state = "NONE" /\ Quiet(dev[s])
                      => Quiet(dev'[s])]_allVars
  <2>. SUFFICES ASSUME LinkInv, NextLink, NEW s \in Slaves PROVE StaysQuiet(s)
    BY DEF StaysQuiet
  <2>1. CASE CycleStep
    BY <2>1, CycleIsNext, CycleKeepsQuiet, CheckerWaits DEF LinkInv, LinkTypeOK, linkVars
  <2>2. CASE \E arrives, back \in BOOLEAN : BusStep(arrives, back)
    BY <2>2, CheckerWaits DEF BusStep, Exchange
  <2>3. CASE StartCheck
    <3>1. UNCHANGED dev /\ chk.pc = "idle"
      BY <2>3 DEF StartCheck, vars
    <3>. QED
      BY <3>1 DEF StaysQuiet, At
  <2>4. CASE \E r \in Slaves : Checker(r)
    BY <2>4, CheckerKeepsQuiet
  <2>5. CASE Environment
    BY <2>5, CheckerWaits DEF Environment, Unplug, Replug, PowerUp, vars
  <2>. QED
    BY <2>1, <2>2, <2>3, <2>4, <2>5 DEF NextLink
<1>. QED
  BY <1>1, InitLinkInv, LinkInvKept, PTL DEF SpecLink, LostIsQuiet
=============================================================================
