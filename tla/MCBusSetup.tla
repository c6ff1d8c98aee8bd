------------------------------ MODULE MCBusSetup ------------------------------
(* Buses for TLC: the wirings of up to five slaves without process data, and two or three *)
(* slaves in a line with every combination of data.                                      *)
EXTENDS BusSetup

Areas(bits, areas) == [bits |-> bits, areas |-> areas]
Type(id, out, in, block) == [id |-> id, out |-> out, in |-> in, blockLRW |-> block]
MCTypes == [
    coupler  |-> Type(<<1, 4, 1>>, NoData, NoData, FALSE),
    board    |-> Type(<<1, 1, 1>>, Areas(24, <<3>>), Areas(16, <<2>>), FALSE),
    reader   |-> Type(<<1, 1, 2>>, NoData, Areas(37, <<2, 3>>), FALSE),
    driver   |-> Type(<<1, 2, 1>>, Areas(48, <<6>>), NoData, FALSE),
    switch   |-> Type(<<1, 3, 1>>, Areas(5, <<1>>), Areas(4, <<1>>), FALSE),
    blocker  |-> Type(<<2, 1, 1>>, Areas(16, <<1, 1>>), Areas(8, <<1>>), TRUE),
    big      |-> Type(<<2, 2, 1>>, Areas(80, <<10>>), Areas(136, <<17>>), FALSE)]

Delays == <<5, 1, 20, 100, 401>>
Slave(par, at, entry, dc, k, type, coe) ==
    [par |-> par, at |-> at, entry |-> entry, dc |-> dc, delay |-> Delays[k],
     clock |-> 0 - 37 * k, type |-> type, coe |-> coe]

\* Trees of n slaves, by the ports they are entered by.
Roots(Entries, Clock) == {<<Slave(0, 0, e, dc, 1, "coupler", TRUE)>> : e \in Entries, dc \in Clock}
Grow(S, Entries, Clock) ==
    {b \in {Append(c, Slave(p, at, e, dc, Len(c) + 1, "coupler", TRUE)) :
              c \in S, p \in 1 .. 5, at \in 0 .. 3, e \in Entries, dc \in Clock} :
       b[Len(b)].par < Len(b) /\ Wired(b)}
Trees(n, Entries, Clock) ==
    LET trees[k \in 1 .. n] == IF k = 1 THEN Roots(Entries, Clock)
                                              ELSE Grow(trees[k - 1], Entries, Clock)
    IN  trees[n]

Lines(n, Clock, Coe) ==
    {[k \in 1 .. n |-> Slave(k - 1, IF k = 1 THEN 0 ELSE 1, 0, dc, k, types[k], coe[k])] :
        types \in [1 .. n -> DOMAIN MCTypes], dc \in Clock, coe \in Coe}

MCBuses == UNION {Trees(k, 0 .. 3, BOOLEAN) : k \in 1 .. 2}
           \cup Trees(3, {0, 3}, BOOLEAN) \cup Trees(4, {0}, BOOLEAN) \cup Trees(5, {0}, {TRUE})
           \cup Lines(2, BOOLEAN, [1 .. 2 -> BOOLEAN])
           \cup Lines(3, {TRUE}, {<<TRUE, FALSE, FALSE>>})
MCOverlapped == Lines(2, {TRUE}, {<<TRUE, TRUE>>})
MCSynced == {b \in Lines(2, {TRUE}, {<<TRUE, FALSE>>}) : b[1].type = "board" /\ b[2].type = "board"}
MCCycles == {<<3>>, <<4>>, <<3, 7>>, <<4, 0>>, <<0>>}
MCShifts == {0, -2, 1}
MCTimes == {0, 5, 11}
=============================================================================
