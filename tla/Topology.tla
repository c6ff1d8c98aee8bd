------------------------------- MODULE Topology -------------------------------
(***************************************************************************)
(* What SOEM finds out about the wiring of the bus: the parent of each     *)
(* slave (ecx_config_init) and, with distributed clocks, by which port it  *)
(* is entered, on which port of its parent it hangs and how long a frame   *)
(* takes to it (ecx_configdc).  Both know only which ports of a slave are  *)
(* open and when its own clock saw the frame at each of them.              *)
(*                                                                         *)
(* The wiring itself is a tree whose nodes are numbered in the order in    *)
(* which they process a frame.  A frame goes through the open ports of a   *)
(* slave in the order 0 - 3 - 1 - 2 and is processed between 0 and 3.      *)
(***************************************************************************)
EXTENDS Integers, Sequences, FiniteSetsExt

CONSTANTS
    Buses,      \* the buses considered, each a sequence of slaves: [par, at, entry, dc,
                \* delay, clock, ...] with the port of the parent, the way and the offset
    ClockSpan   \* the latched times are from -ClockSpan to ClockSpan - 1; 2^31 in the code

\* Ports in the order of a frame that comes in by port 0.
Rank(port) == CASE port = 3 -> 1 [] port = 1 -> 2 [] port = 2 -> 3 [] port = 0 -> 4

ParentOf(b, i) == b[i].par
Children(b, i) == {c \in DOMAIN b : ParentOf(b, c) = i}
\* c is i, or below it: the numbers of a branch follow each other.
RECURSIVE InBranch(_, _, _)
InBranch(b, c, i) == c = i \/ (ParentOf(b, c) # 0 /\ InBranch(b, ParentOf(b, c), i))

\* Slaves are numbered as they process the frame, and every branch is processed after
\* the slave it hangs on, which depends on the port that slave is entered by.
Wired(b) ==
    /\ b[1].par = 0 /\ b[1].at = 0
    /\ \A i \in DOMAIN b \ {1} :
          /\ b[i].par \in DOMAIN b /\ InBranch(b, i - 1, b[i].par)
          /\ Rank(b[i].at) < Rank(b[b[i].par].entry)
          /\ \A j \in Children(b, b[i].par) : j < i => Rank(b[j].at) < Rank(b[i].at)
ASSUME TopologyAssumption == ClockSpan \in Nat \ {0} /\ \A b \in Buses : Wired(b)

VARIABLES
    bus,         \* the wiring
    ports,       \* slave -> activeports
    parents,     \* slave -> parent
    consumed,    \* slave -> consumedports
    entries,     \* slave -> entryport
    pdelay,      \* slave -> pdelay
    parenthold,
    found,       \* number of slaves enumerated
    measured     \* number of slaves that ecx_configdc is through with
topologyVars == <<bus, ports, parents, consumed, entries, pdelay, parenthold, found, measured>>

Slaves == DOMAIN bus
topology(i) == Cardinality(ports[i])

TopologyInit ==
    /\ bus \in Buses
    /\ ports = [i \in Slaves |-> {}]
    /\ parents = [i \in Slaves |-> 0]
    /\ consumed = ports
    /\ entries = [i \in Slaves |-> 0]
    /\ pdelay = [i \in Slaves |-> 0]
    /\ parenthold = 0 /\ found = 0 /\ measured = 0

-----------------------------------------------------------------------------
\* External: when the frame reaches a slave, the time it is away from it on the
\* branches in S, and what the clock of a slave saw at a port.
Sum(S, f(_)) == MapThenSumSet(f, S)
RECURSIVE Away(_, _)
Away(b, i) == Sum(Children(b, i), LAMBDA c : 2 * b[c].delay + Away(b, c))
RECURSIVE Arrival(_, _)
Arrival(b, i) ==
    IF i = 1 THEN b[1].delay
    ELSE LET p == ParentOf(b, i)
             before == {c \in Children(b, p) : c < i}
         IN  Arrival(b, p) + Sum(before, LAMBDA c : 2 * b[c].delay + Away(b, c)) + b[i].delay
Signed(x) == ((x + ClockSpan) % (2 * ClockSpan)) - ClockSpan
OpenPorts(b, i) == {b[i].entry} \cup {b[c].at : c \in Children(b, i)}
Stamp(b, i, port) ==
    IF port \notin OpenPorts(b, i) THEN 0
    ELSE IF port = b[i].entry THEN Signed(b[i].clock + Arrival(b, i))
    ELSE LET c == CHOOSE c \in Children(b, i) : b[c].at = port
         IN  Signed(b[i].clock + Arrival(b, c) + Away(b, c) + b[c].delay)

-----------------------------------------------------------------------------
\* Mutant: a cross point is taken for a split point.
ParentFoundSplit(i) ==
    LET open(j) == CASE topology(j) = 1 -> -1 [] topology(j) >= 3 -> 1 [] OTHER -> 0
        topoc(j) == Sum(j .. i - 1, open)
        ends == {j \in 1 .. i - 1 : j = 1 \/ (topoc(j) >= 0 /\ topology(j) > 1)}
    IN  IF i = 1 THEN 0 ELSE Max(ends)
\* Going back from slave i, every end point needs a split point of its own before
\* the parent is found; the first slave is the last candidate.
ParentFound(i) ==
    LET open(j) == CASE topology(j) = 1 -> -1 [] topology(j) \in {3, 4} -> topology(j) - 2 [] OTHER -> 0
        topoc(j) == Sum(j .. i - 1, open)
        ends == {j \in 1 .. i - 1 : j = 1 \/ (topoc(j) >= 0 /\ topology(j) > 1)}
    IN  IF i = 1 THEN 0 ELSE Max(ends)

\* ecx_config_init, for the next slave: the DL status, then the search.
FindSlave ==
    /\ found < Len(bus)
    /\ found' = found + 1
    /\ ports' = [ports EXCEPT ![found'] = OpenPorts(bus, found')]
    /\ parents' = [parents EXCEPT ![found'] = ParentFound(found')]
    /\ UNCHANGED <<bus, consumed, entries, pdelay, parenthold, measured>>

-----------------------------------------------------------------------------
(* ecx_configdc.                                                            *)

\* The open port before this one.
PrevPort(i, port) ==
    LET order == CASE port = 0 -> <<2, 1, 3>> [] port = 1 -> <<3, 0, 2>>
                   [] port = 2 -> <<1, 3, 0>> [] port = 3 -> <<0, 2, 1>>
        open == {k \in 1 .. 3 : order[k] \in ports[i]}
    IN  IF open = {} THEN port ELSE order[Min(open)]
\* The first port not consumed yet, which is then consumed.
ParentPort(p, left) ==
    IF left[p] = {} THEN 0 ELSE CHOOSE q \in left[p] : \A r \in left[p] : Rank(q) <= Rank(r)
Consume(p, left) == [left EXCEPT ![p] = @ \ {ParentPort(p, left)}]
\* The port with the lowest time stamp; of equal ones, the first in order.
EntryPort(i) ==
    LET earlier(q, r) == \/ Stamp(bus, i, q) < Stamp(bus, i, r)
                         \/ Stamp(bus, i, q) = Stamp(bus, i, r) /\ Rank(q) % 4 <= Rank(r) % 4
    IN  CHOOSE q \in ports[i] : \A r \in ports[i] : earlier(q, r)

\* The chain of parents up to one with a clock, or the master: the last two.
RECURSIVE DcParent(_)
DcParent(i) ==
    IF parents[i] = 0 \/ bus[parents[i]].dc THEN <<i, parents[i]>> ELSE DcParent(parents[i])

Half(x) == IF x >= 0 THEN x \div 2 ELSE -((-x) \div 2)
Abs(x) == IF x < 0 THEN -x ELSE x

\* From port p to port q by the clock of slave i.
Elapsed(i, p, q) == Signed(Stamp(bus, i, q) - Stamp(bus, i, p))

\* Mutant: a later child of its parent does not add what the earlier ones took.
DelayFirst(i, entry, child, parent, port) ==
    LET dt3 == Elapsed(parent, PrevPort(parent, port), port)
        own == IF topology(i) > 1 THEN Elapsed(i, entry, PrevPort(i, entry)) ELSE 0
        dt1 == IF own > dt3 THEN -own ELSE own
    IN  Half(dt3 - dt1) + pdelay[parent]
\* From the time the frame was away from the parent on this branch, less the time it
\* was away from the slave, and the time the branches before it took.
Delay(i, entry, child, parent, port) ==
    LET dt3 == Elapsed(parent, PrevPort(parent, port), port)
        own == IF topology(i) > 1 THEN Elapsed(i, entry, PrevPort(i, entry)) ELSE 0
        dt1 == IF own > dt3 THEN -own ELSE own
        dt2 == IF child - parent > 1
                 THEN Elapsed(parent, entries[parent], PrevPort(parent, port)) ELSE 0
    IN  Half(dt3 - dt1) + Abs(dt2) + pdelay[parent]

\* A slave with a clock.
MeasureSlave(i) ==
    /\ bus[i].dc
    /\ parenthold' = 0
    /\ LET entry == EntryPort(i)
           left == [consumed EXCEPT ![i] = ports[i] \ {entry}]
           child == DcParent(i)[1]
           parent == DcParent(i)[2]
           port == IF topology(parent) = 1 THEN entries[parent] ELSE ParentPort(parent, left)
       IN  /\ entries' = [entries EXCEPT ![i] = entry]
           /\ IF parent > 0
                THEN /\ consumed' = Consume(parent, left)
                     /\ pdelay' = [pdelay EXCEPT ![i] = Delay(i, entry, child, parent, port)]
                ELSE /\ consumed' = left
                     /\ UNCHANGED pdelay

\* A slave without one: at the end of a branch that has none, the port of that branch
\* is consumed.
SkipSlave(i) ==
    /\ ~bus[i].dc
    /\ LET left == [consumed EXCEPT ![i] = ports[i]]
           hold == IF parents[i] > 0 /\ topology(parents[i]) > 2 THEN parents[i] ELSE parenthold
       IN  IF hold > 0 /\ topology(i) = 1
             THEN consumed' = Consume(hold, left) /\ parenthold' = 0
             ELSE consumed' = left /\ parenthold' = hold
    /\ UNCHANGED <<entries, pdelay>>

ConfigDc ==
    /\ found = Len(bus) /\ measured < Len(bus)
    /\ measured' = measured + 1
    /\ MeasureSlave(measured') \/ SkipSlave(measured')
    /\ UNCHANGED <<bus, ports, parents, found>>

-----------------------------------------------------------------------------
\* Every slave hangs on the one that the master takes for its parent.
ParentsFound == \A i \in 1 .. found : parents[i] = bus[i].par

\* The delay of a slave is the time the frame needs from the slave nearest to the
\* master that has a clock and this one below it.
Top(i) == CHOOSE t \in Slaves : /\ bus[t].dc /\ InBranch(bus, i, t)
                                /\ \A u \in Slaves : bus[u].dc /\ InBranch(bus, i, u) => t <= u
\* That holds if no clock wraps while the frame is under way, and if the slaves without
\* a clock make no branches.
NoWrap == \A i \in Slaves : bus[i].dc =>
    \A p \in OpenPorts(bus, i) : Stamp(bus, i, bus[i].entry) <= Stamp(bus, i, p)
NoHiddenBranch == \A i \in Slaves : ~bus[i].dc => Cardinality(OpenPorts(bus, i)) <= 2
DelaysMeasured ==
    NoWrap /\ NoHiddenBranch => \A i \in 1 .. measured :
        bus[i].dc => /\ entries[i] = bus[i].entry
                     /\ pdelay[i] = Arrival(bus, i) - Arrival(bus, Top(i))
=============================================================================
