------------------------------ MODULE SlaveLink -----------------------------
(***************************************************************************)
(* Loss and recovery of slaves: the process-data cycle together with the   *)
(* state checker thread (EthercatNode::state_check_callback), the parts of *)
(* SOEM it calls, and a bus on which boards are unplugged, replugged, lose *)
(* their power and are exchanged.                                          *)
(*                                                                         *)
(* The checker visits the slaves one after the other; a visit is cut into  *)
(* steps where the thread waits for the bus or for a mutex, so that the    *)
(* data thread, the callbacks and the bus go on in between.                *)
(***************************************************************************)
EXTENDS PdoCycle

CONSTANTS
    Boards,        \* serial numbers of the boards that may be plugged in
    SmWatchdog,    \* does a slave that gets no frames fall to SAFE_OP with the error flag?
    SlowLinkUp,    \* is a board back only after the checker has noticed that it was gone?
    MayBeOutdated, \* may a board come back with a firmware older than required?
    SdoMayFail,    \* may a service data transfer fail while the slave answers otherwise?
    PauseFrames,   \* frames that come back, at least, while the checker sleeps for 100 ms
    MaxFaults      \* bound: how often a board is unplugged

ASSUME LinkAssumption ==
    /\ Boards # {} /\ Boards \subseteq Nat \ {0}
    /\ SmWatchdog \in BOOLEAN /\ SlowLinkUp \in BOOLEAN
    /\ MayBeOutdated \in BOOLEAN /\ SdoMayFail \in BOOLEAN
    /\ PauseFrames \in Nat /\ MaxFaults \in Nat

VARIABLES
    bus,       \* what is plugged in at each position
    ec,        \* ec_slave[]: state and islost, as the master last learned them
    sn,        \* sn_ of each SlaveDevice
    unread,    \* slaves whose serial number could not be read when they came back
    rejected,  \* is_recover_rejected_
    wkcLow,    \* wkc_ < expectedWkc_
    docheck,   \* ec_group[0].docheckstate
    chk,       \* the checker thread: program counter and slave
    pause,     \* frames that have come back since its last round (up to PauseFrames)
    faults     \* how often a board was unplugged (bounded by MaxFaults)

linkVars == <<bus, ec, sn, unread, rejected, wkcLow, docheck, chk, pause, faults>>
allVars == <<vars, linkVars>>

AlStates == {"INIT", "PRE_OP", "SAFE_OP", "OP", "SAFE_OP_ERROR"}

InitLink ==
    /\ Init
    /\ \E b \in Boards :
           /\ bus = [s \in Slaves |-> [ present |-> TRUE, addressed |-> TRUE, mapped |-> TRUE,
                                        al |-> "OP", board |-> b ]]
           /\ sn = [s \in Slaves |-> b]
    /\ ec = [s \in Slaves |-> [state |-> "OP", islost |-> FALSE]]
    /\ rejected = [s \in Slaves |-> FALSE] /\ unread = {}
    /\ wkcLow = FALSE /\ docheck = FALSE
    /\ chk = [pc |-> "idle", s |-> 1] /\ pause = 0
    /\ faults = 0

-----------------------------------------------------------------------------
(* The bus.                                                                 *)

\* A slave answers datagrams to its station address.
Answers(s) == bus[s].present /\ bus[s].addressed

TakesOutputs(s) == bus[s].present /\ bus[s].mapped /\ bus[s].al = "OP"
GivesInputs(s) == bus[s].present /\ bus[s].mapped /\ bus[s].al \in {"SAFE_OP", "OP", "SAFE_OP_ERROR"}

Writable == {s \in Slaves : TakesOutputs(s)}
Readable == {s \in Slaves : GivesInputs(s)}

\* One cyclic frame; the working counter tells the master how many slaves took part.
BusStep(arrives, back) ==
    /\ Exchange(IF arrives THEN Writable ELSE {}, IF arrives THEN Readable ELSE {}, back)
    /\ wkcLow' = ~(arrives /\ back /\ Writable = Slaves /\ Readable = Slaves)
    /\ pause' = IF arrives /\ back /\ pause < PauseFrames THEN pause + 1 ELSE pause
    /\ UNCHANGED <<bus, ec, sn, unread, rejected, docheck, chk, faults>>

Unplug(s) ==
    /\ bus[s].present /\ faults < MaxFaults
    /\ faults' = faults + 1
    /\ bus' = [bus EXCEPT ![s].present = FALSE,
                          ![s].al = IF SmWatchdog /\ @ = "OP" THEN "SAFE_OP_ERROR" ELSE @]
    /\ UNCHANGED <<vars, ec, sn, unread, rejected, wkcLow, docheck, chk, pause>>

MayReturn(s) == ~bus[s].present /\ (SlowLinkUp => ec[s].islost)

\* The cable is plugged in again, the board kept its power.
Replug(s) ==
    /\ MayReturn(s)
    /\ bus' = [bus EXCEPT ![s].present = TRUE]
    /\ UNCHANGED <<vars, ec, sn, unread, rejected, wkcLow, docheck, chk, pause, faults>>

\* A board comes up from power-on: this one or another one of the same type.
PowerUp(s, b) ==
    /\ MayReturn(s)
    /\ bus' = [bus EXCEPT ![s] = [ present |-> TRUE, addressed |-> FALSE, mapped |-> FALSE,
                                   al |-> "INIT", board |-> b ]]
    /\ fw' = [fw EXCEPT ![s] = FreshFirmware]
    /\ UNCHANGED <<dev, out, inp, threadVars, rosVars, exitVars, hist,
                   ec, sn, unread, rejected, wkcLow, docheck, chk, pause, faults>>

-----------------------------------------------------------------------------
(* SOEM as the checker uses it.                                             *)

\* ec_readstate: if a broadcast finds every slave present and in one state without
\* error, that is the state of all, even of one that has no address; else each is asked.
AllIn(al) == \A s \in Slaves : bus[s].present /\ bus[s].al = al
ReadState(s) ==
    IF Answers(s) \/ \E al \in AlStates \ {"SAFE_OP_ERROR"} : AllIn(al) THEN bus[s].al ELSE "NONE"

\* What ec_statecheck leaves in the state of a slave.
CheckedState(s) == IF Answers(s) THEN bus[s].al ELSE "NONE"

\* An AL state request to the station address.
Request(s, al) == bus' = IF Answers(s) THEN [bus EXCEPT ![s].al = al] ELSE bus

-----------------------------------------------------------------------------
(* The checker thread.                                                      *)

At(pc, s) == chk.pc = pc /\ chk.s = s
Goto(pc) == chk' = [chk EXCEPT !.pc = pc]
Learn(s, state) == ec' = [ec EXCEPT ![s].state = state]

\* The next slave, or after the last one the sleep of 100 ms.
NextSlave ==
    IF chk.s < SlaveCount
    THEN chk' = [pc |-> "visit", s |-> chk.s + 1] /\ UNCHANGED pause
    ELSE chk' = [pc |-> "idle", s |-> 1] /\ pause' = 0

cycleRest == <<out, inp, fw, threadVars, rosVars, exitVars>>

StartCheck ==
    /\ chk.pc = "idle"
    /\ running /\ ~exiting          \* the context is shut down before exiting_ is set
    /\ pause = PauseFrames
    /\ wkcLow \/ docheck
    /\ docheck' = FALSE
    /\ ec' = [s \in Slaves |-> [ec[s] EXCEPT !.state = ReadState(s)]]
    /\ Goto("visit")
    /\ UNCHANGED <<vars, bus, sn, unread, rejected, wkcLow, pause, faults>>

VisitOperational(s) ==
    /\ At("visit", s) /\ ec[s].state = "OP"
    /\ Goto("lost?")
    /\ UNCHANGED <<vars, bus, ec, sn, unread, rejected, wkcLow, docheck, pause, faults>>

ToBeResent(s) == ec[s].state = "SAFE_OP" /\ ~rejected[s]
NewlyLost(s) == ec[s].state = "NONE" /\ ~ec[s].islost

\* "reconnected but slave restarted, resend all args"
VisitSafeOp(s) ==
    /\ At("visit", s) /\ ToBeResent(s) /\ ~Locked(s)
    /\ dev' = [dev EXCEPT ![s] = pre_recover(@)]
    /\ docheck' = TRUE
    /\ Goto("to_op")
    /\ UNCHANGED <<cycleRest, hist, bus, ec, sn, unread, rejected, wkcLow, pause, faults>>

\* The request for OP; a slave may also not get there while the checker waits.
ReachOperational(s) ==
    /\ At("to_op", s) /\ Answers(s) /\ bus[s].al = "SAFE_OP"
    /\ Request(s, "OP") /\ Learn(s, "OP")
    /\ Goto("lost?")
    /\ UNCHANGED <<vars, sn, unread, rejected, wkcLow, docheck, pause, faults>>

MissOperational(s) ==
    /\ At("to_op", s)
    /\ Learn(s, CheckedState(s))
    /\ Goto("lost?")
    /\ UNCHANGED <<vars, bus, sn, unread, rejected, wkcLow, docheck, pause, faults>>

\* "double check state": any answer counts.
VisitInit(s) ==
    /\ At("visit", s) /\ ec[s].state = "INIT"
    /\ docheck' = TRUE
    /\ Learn(s, CheckedState(s))
    /\ Goto(IF Answers(s) THEN "reconfig" ELSE "lost?")
    /\ UNCHANGED <<vars, bus, sn, unread, rejected, wkcLow, pause, faults>>

\* ec_reconfig_slave up to PRE_OP ...
Reconfig(s) ==
    /\ At("reconfig", s)
    /\ Request(s, "PRE_OP")
    /\ IF Answers(s) THEN Learn(s, "PRE_OP") /\ Goto("configure")
                     ELSE UNCHANGED ec /\ Goto("reset")
    /\ UNCHANGED <<vars, sn, unread, rejected, wkcLow, docheck, pause, faults>>

\* Mutant: the serial number is not compared.
OtherBoard_Unchecked(s) == FALSE
OtherBoard(s) == bus[s].board # sn[s]

\* ... then its hook, SlaveDevice::init, under the mutex.  The results of the transfers
\* are not looked at: a serial number that cannot be read stays the old one.  A firmware
\* that is too old is not told its argument length; being told makes it start over.
Configure(s) ==
    /\ At("configure", s) /\ ~Locked(s)
    /\ \E read \in {Answers(s)} \cup (IF SdoMayFail THEN {FALSE} ELSE {}) :
       \E outdated \in {FALSE} \cup (IF MayBeOutdated THEN {read} ELSE {}) :
           /\ rejected' = [rejected EXCEPT ![s] = read /\ OtherBoard(s)]
           /\ unread' = IF read THEN unread \ {s} ELSE unread \cup {s}
           /\ IF rejected'[s] \/ outdated
              THEN UNCHANGED <<dev, fw>>
              ELSE /\ dev' = [dev EXCEPT ![s].master_status = MASTER_SENDING_ARGUMENTS,
                                         ![s].ecat_conf = TRUE]
                   /\ fw' = IF Answers(s) THEN [fw EXCEPT ![s] = FreshFirmware] ELSE fw
    /\ Goto("safe_op")
    /\ UNCHANGED <<out, inp, threadVars, rosVars, exitVars, hist,
                   bus, ec, sn, wkcLow, docheck, pause, faults>>

\* ... then, whatever the hook returned, SAFE_OP and the mapping of the process data.
ReconfigRest(s) ==
    /\ At("safe_op", s)
    /\ bus' = IF Answers(s) THEN [bus EXCEPT ![s].al = "SAFE_OP", ![s].mapped = TRUE] ELSE bus
    /\ Learn(s, IF Answers(s) THEN "SAFE_OP" ELSE "NONE")
    /\ Goto(IF Answers(s) THEN "reconfigured" ELSE "reset")
    /\ UNCHANGED <<vars, sn, unread, rejected, wkcLow, docheck, pause, faults>>

Reconfigured(s) ==
    /\ At("reconfigured", s)
    /\ IF rejected[s] THEN Learn(s, "INIT") /\ Request(s, "INIT")
                      ELSE ec' = [ec EXCEPT ![s].islost = FALSE] /\ UNCHANGED bus
    /\ Goto("reset")
    /\ UNCHANGED <<vars, sn, unread, rejected, wkcLow, docheck, pause, faults>>

AfterReconfig(s) ==
    /\ At("reset", s) /\ ~Locked(s)
    /\ dev' = [dev EXCEPT ![s] = reset_state(@)]
    /\ Goto("lost?")
    /\ UNCHANGED <<cycleRest, hist, bus, ec, sn, unread, rejected, wkcLow, docheck, pause, faults>>

\* The flag is set before the mutex is taken: until ResetLost the data thread and the
\* callbacks go on with a slave that counts as lost ...
VisitNewlyLost(s) ==
    /\ At("visit", s) /\ NewlyLost(s)
    /\ ec' = [ec EXCEPT ![s].islost = TRUE]
    /\ docheck' = TRUE
    /\ Goto("reset_lost")
    /\ UNCHANGED <<vars, bus, sn, unread, rejected, wkcLow, pause, faults>>

\* ... then what the mutex protects.
ResetLost(s) ==
    /\ At("reset_lost", s) /\ ~Locked(s)
    /\ dev' = [dev EXCEPT ![s] = backup_master_to_slave_buf(on_connection_lost(reset_state(@)))]
    /\ hist' = [hist EXCEPT ![s].want = IF ResetOnLoss THEN InitWord ELSE @]
    /\ Goto("lost?")
    /\ UNCHANGED <<cycleRest, bus, ec, sn, unread, rejected, wkcLow, docheck, pause, faults>>

\* PRE_OP, SAFE_OP with the error flag, SAFE_OP of a rejected board, a loss already known.
VisitOther(s) ==
    /\ At("visit", s)
    /\ ec[s].state \notin {"OP", "INIT"} /\ ~ToBeResent(s) /\ ~NewlyLost(s)
    /\ docheck' = TRUE
    /\ Goto("lost?")
    /\ UNCHANGED <<vars, bus, ec, sn, unread, rejected, wkcLow, pause, faults>>

NotLost(s) ==
    /\ At("lost?", s) /\ ~ec[s].islost
    /\ NextSlave
    /\ UNCHANGED <<vars, bus, ec, sn, unread, rejected, wkcLow, docheck, faults>>

\* Mutant: the slave counts as found, but is not given its address.
Recover_NoAddress(s) ==
    /\ At("lost?", s) /\ ec[s].islost /\ ec[s].state = "NONE"
    /\ IF bus[s].present THEN ec' = [ec EXCEPT ![s].islost = FALSE] /\ Goto("recover") /\ UNCHANGED pause
                         ELSE NextSlave /\ UNCHANGED ec
    /\ UNCHANGED <<vars, bus, sn, unread, rejected, wkcLow, docheck, faults>>
\* ec_recover_slave: the slave at this position still has its address, or has none and
\* is given it again (its type is compared, not its serial number).
Recover(s) ==
    /\ At("lost?", s) /\ ec[s].islost /\ ec[s].state = "NONE"
    /\ IF bus[s].present
       THEN /\ bus' = [bus EXCEPT ![s].addressed = TRUE]
            /\ ec' = [ec EXCEPT ![s].islost = FALSE]
            /\ Goto("recover") /\ UNCHANGED pause
       ELSE NextSlave /\ UNCHANGED <<bus, ec>>
    /\ UNCHANGED <<vars, sn, unread, rejected, wkcLow, docheck, faults>>

\* recover_state without the mutex: the other threads may see either flag first.
RecoverState(s) ==
    /\ At("recover", s)
    /\ \/ dev' = [dev EXCEPT ![s].ready = TRUE]
       \/ dev' = [dev EXCEPT ![s].ros_conf = TRUE]
    /\ Goto("recover_rest")
    /\ UNCHANGED <<cycleRest, hist, bus, ec, sn, unread, rejected, wkcLow, docheck, pause, faults>>

RecoverStateRest(s) ==
    /\ At("recover_rest", s)
    /\ dev' = [dev EXCEPT ![s] = recover_state(@)]
    /\ NextSlave
    /\ UNCHANGED <<cycleRest, hist, bus, ec, sn, unread, rejected, wkcLow, docheck, faults>>

\* Here too the flag is changed before the mutex is taken.
Found(s) ==
    /\ At("lost?", s) /\ ec[s].islost /\ ec[s].state # "NONE"
    /\ ec' = [ec EXCEPT ![s].islost = FALSE]
    /\ Goto("found")
    /\ UNCHANGED <<vars, bus, sn, unread, rejected, wkcLow, docheck, pause, faults>>

FoundState(s) ==
    /\ At("found", s) /\ ~Locked(s)
    /\ dev' = [dev EXCEPT ![s] = recover_state(@)]
    /\ NextSlave
    /\ UNCHANGED <<cycleRest, hist, bus, ec, sn, unread, rejected, wkcLow, docheck, faults>>

Checker(s) ==
    \/ VisitOperational(s) \/ VisitSafeOp(s) \/ VisitInit(s) \/ VisitNewlyLost(s) \/ VisitOther(s)
    \/ ResetLost(s)
    \/ ReachOperational(s) \/ MissOperational(s)
    \/ Reconfig(s) \/ Configure(s) \/ ReconfigRest(s) \/ Reconfigured(s) \/ AfterReconfig(s)
    \/ NotLost(s) \/ Recover(s) \/ RecoverState(s) \/ RecoverStateRest(s)
    \/ Found(s) \/ FoundState(s)

-----------------------------------------------------------------------------
CycleStep ==
    /\ \/ \E s \in Slaves : DataThread(s) \/ CommandEnd(s) \/ FwTakeArg(s) \/ FwWork(s)
       \/ \E s \in Slaves, w \in CmdWords : CommandBegin(s, w)
       \/ SkipExitReset \/ BeginShutdown \/ StopThreads
    /\ UNCHANGED linkVars

Environment == \E s \in Slaves : Unplug(s) \/ Replug(s) \/ \E b \in Boards : PowerUp(s, b)

NextLink ==
    \/ CycleStep
    \/ \E arrives, back \in BOOLEAN : BusStep(arrives, back)
    \/ StartCheck
    \/ \E s \in Slaves : Checker(s)
    \/ Environment

SpecLink == InitLink /\ [][NextLink]_allVars

\* The threads are scheduled and the firmware runs; frames are not all lost while the
\* slaves are there, and a slave that is asked for OP again and again gets there.
FairnessLink ==
    /\ \A s \in Slaves :
           /\ WF_allVars(DataThread(s) /\ UNCHANGED linkVars)
           /\ WF_allVars(CommandEnd(s) /\ UNCHANGED linkVars)
           /\ WF_allVars(FwTakeArg(s) /\ UNCHANGED linkVars)
           /\ WF_allVars(FwWork(s) /\ UNCHANGED linkVars)
           /\ WF_allVars(Checker(s)) /\ SF_allVars(ReachOperational(s))
    /\ WF_allVars(SkipExitReset /\ UNCHANGED linkVars)
    /\ WF_allVars(StopThreads /\ UNCHANGED linkVars)
    /\ WF_allVars(StartCheck)
    /\ SF_allVars(BusStep(TRUE, TRUE))

FairSpecLink == SpecLink /\ FairnessLink

-----------------------------------------------------------------------------
(* Properties.                                                              *)

CheckerSteps == { "idle", "visit", "to_op", "reconfig", "configure", "safe_op", "reconfigured",
                  "reset", "reset_lost", "lost?", "recover", "recover_rest", "found" }

LinkTypeOK ==
    /\ TypeOK
    /\ bus \in [Slaves -> [ present : BOOLEAN, addressed : BOOLEAN, mapped : BOOLEAN,
                           al : AlStates, board : Boards ]]
    /\ ec \in [Slaves -> [state : AlStates \cup {"NONE"}, islost : BOOLEAN]]
    /\ sn \in [Slaves -> Boards] /\ unread \subseteq Slaves /\ rejected \in [Slaves -> BOOLEAN]
    /\ wkcLow \in BOOLEAN /\ docheck \in BOOLEAN
    /\ chk \in [pc : CheckerSteps, s : Slaves] /\ pause \in 0 .. PauseFrames
    /\ faults \in 0 .. MaxFaults

\* Only the board that was there when the system came up is driven: a board with another
\* serial number that is put in its place is never told that the master is ready -- if its
\* number could be read.  (Otherwise it is taken for the old one.)
SameBoard ==
    \A s \in Slaves \ unread : fw[s].rx.status >= MASTER_READY => bus[s].board = sn[s]

\* Every variable has its type, and only the board of the set-up is driven.
LinkSafe == LinkTypeOK /\ SameBoard

\* When the checker is through with a loss the slave counts neither as ready nor as
\* configured for ROS, and until the checker has seen it again nothing makes it so: no
\* command, no frame still under way, no stale input is taken for a sample of it.  (Between
\* the flag and the reset the data thread may still publish an input of before the loss.  A
\* slave that leaves a second time on its way from SAFE_OP to OP stays configured:
\* pre_recover has been called, reset_state is not.)
Quiet(d) == ~d.ready /\ ~d.ros_conf
LostIsQuiet ==
    [][\A s \in Slaves :
           /\ At("reset_lost", s) /\ ~At("reset_lost", s)' => ec'[s].islost /\ Quiet(dev'[s])
           /\ ec'[s].islost /\ ec[s].islost /\ ec[s].state = "NONE" /\ Quiet(dev[s])
                  => Quiet(dev'[s])]_allVars

\* A slave that comes back is configured anew and published again, if the last inputs it
\* sent were those of a working slave.
LostWorking(s) == faults = MaxFaults /\ ~bus[s].present /\ inp[s].status >= MASTER_READY
WorkingRecovers ==
    \A s \in Slaves : [](LostWorking(s) =>
        \/ <>(exiting \/ hist[s].pubs = MaxPubs \/ bus[s].board # sn[s])
        \/ []~bus[s].present)
=============================================================================
