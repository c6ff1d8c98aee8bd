------------------------------- MODULE ClockSync -------------------------------
(***************************************************************************)
(* The sync signals of slaves with distributed clocks (ecx_dcsync0 and     *)
(* ecx_dcsync01): a slave is stopped, its system time is read, a first     *)
(* trigger time is computed from it and written with the cycle, and it is  *)
(* started again.  None of these accesses is checked.                      *)
(***************************************************************************)
EXTENDS Topology, TLC

CONSTANTS
    SyncDelay,     \* the time the accesses may take
    Cycles,        \* the cycles asked for: <<CyclTime>> or <<CyclTime0, CyclTime1>>
    Shifts,        \* the shifts asked for
    Times,         \* bound: the system times at which the master asks
    Synced         \* bound: the buses for which it does

ASSUME ClockSyncAssumption ==
    /\ SyncDelay \in Nat /\ Times \subseteq Nat /\ Shifts \subseteq Int
    /\ \A c \in Cycles : Len(c) \in 1 .. 2 /\ \A k \in DOMAIN c : c[k] \in Nat
    /\ \A c \in Cycles : Len(c) = 2 => c[1] > 0   \* CyclTime1 is divided by it

VARIABLES
    unit,        \* external: slave -> its registers [run, start, cycle]
    setting,     \* slave -> what ec_slave[] says: DCactive, DCcycle, DCshift
    readAt,      \* slave -> the system time at which it was asked
    lostAccess   \* <<slave, access>> that was lost
clockSyncVars == <<unit, setting, readAt, lostAccess>>

ClockSyncInit ==
    /\ unit = [i \in Slaves |-> [run |-> {}, start |-> 0, cycle |-> <<0>>]]
    /\ setting = [i \in Slaves |-> [active |-> FALSE, cycle |-> 0, shift |-> 0]]
    /\ readAt = <<>>
    /\ lostAccess = {}

\* With SYNC1, the signals repeat after more than one cycle of SYNC0.
TrueCyclTime(cycle) ==
    IF Len(cycle) = 1 THEN cycle[1] ELSE (cycle[2] \div cycle[1] + 1) * cycle[1]

\* Mutant: the last whole multiple, which may be over.
StartTimeLast(t1, cycle, shift) ==
    IF cycle > 0 THEN ((t1 + SyncDelay) \div cycle) * cycle + shift ELSE t1 + SyncDelay + shift
\* The first whole multiple of the cycle after the delay, and the shift.
StartTime(t1, cycle, shift) ==
    IF cycle > 0 THEN ((t1 + SyncDelay) \div cycle) * cycle + cycle + shift
    ELSE t1 + SyncDelay + shift

Accesses == {"stop", "time", "start", "cycle", "run"}
\* A call with these parameters at time t; what is lost is not done, a lost time is 0.
DcSync(i, act, cycle, shift, t, lost) ==
    LET t1 == IF "time" \in lost THEN 0 ELSE t
        stopped == IF "stop" \in lost THEN unit[i].run ELSE {}
        signals == IF act THEN 0 .. Len(cycle) - 1 ELSE {}
    IN  /\ unit' = [unit EXCEPT ![i] =
              [run   |-> IF "run" \in lost THEN stopped ELSE signals,
               start |-> IF "start" \in lost THEN @.start ELSE StartTime(t1, TrueCyclTime(cycle), shift),
               cycle |-> IF "cycle" \in lost THEN @.cycle ELSE cycle]]
        /\ setting' = [setting EXCEPT ![i] = [active |-> act, cycle |-> cycle[1], shift |-> shift]]
        /\ lostAccess' = lostAccess \cup ({i} \X lost)
        /\ readAt' = readAt @@ (i :> t)

\* Bound: every slave is set once, one after the other, and one access is lost.
Synchronize ==
    /\ bus \in Synced
    /\ \E i \in Slaves \ DOMAIN readAt, act \in BOOLEAN, cycle \in Cycles, shift \in Shifts, t \in Times,
          lost \in {{}} \cup {{a} : a \in Accesses} :
          /\ bus[i].dc
          /\ \A j \in DOMAIN readAt : j < i /\ readAt[j] <= t
          /\ lostAccess # {} => lost = {}
          /\ DcSync(i, act, cycle, shift, t, lost)

-----------------------------------------------------------------------------
\* A slave for which no access was lost runs exactly if it is said to; its first signal is
\* still to come when the delay is over, shifted, and at most a cycle later; and slaves
\* with the same cycle give SYNC0 at the same moments, shifted, with and without SYNC1,
\* whenever they were asked.
SyncsTogether ==
    \A i, j \in {s \in DOMAIN readAt : \A a \in Accesses : <<s, a>> \notin lostAccess} :
        LET first(s) == unit[s].start - setting[s].shift
            cycle == setting[i].cycle
        IN  /\ (unit[i].run # {}) = setting[i].active
            /\ cycle > 0 => /\ first(i) > readAt[i] + SyncDelay
                            /\ first(i) <= readAt[i] + SyncDelay + TrueCyclTime(unit[i].cycle)
            /\ setting[j].cycle = cycle /\ cycle > 0 => (first(i) - first(j)) % cycle = 0
=============================================================================
