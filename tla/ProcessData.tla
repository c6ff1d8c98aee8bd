------------------------------ MODULE ProcessData ------------------------------
(***************************************************************************)
(* A cycle of process data over the image of IoMap (ecx_send_processdata,  *)
(* ecx_receive_processdata_group): the datagrams that carry the image, the *)
(* answers put together again, and the working counter that ecat_node.cpp  *)
(* compares with outputsWKC * 2 + inputsWKC.  With an overlapped image the *)
(* frames are as long as the longer of outputs and inputs, and the inputs  *)
(* are copied behind the outputs (ecx_send_overlap_processdata_group).     *)
(***************************************************************************)
EXTENDS IoMap, FrameLayout

VARIABLES
    stack,     \* idxstack: the datagrams sent, each [cmd, addr, len, from, data, dc]
    pulled,    \* answers waited for so far
    wkc, valid,
    silent,    \* external: the slaves that do not exchange data in this cycle,
    missing,   \* the datagrams whose answer does not come,
    fresh      \* and the bytes of the process image the answers were copied to
processDataVars == <<stack, pulled, wkc, valid, silent, missing, fresh>>

ProcessDataInit ==
    /\ stack = <<>> /\ pulled = 0
    /\ wkc = 0 /\ valid = FALSE
    /\ silent = {} /\ missing = {} /\ fresh = {}

hasdc == \E i \in Slaves : bus[i].dc
blockLRW == \E i \in Slaves : TypeOf(i).blockLRW
EC_NOFRAME == -1
expectedWkc == wkcs.out * 2 + wkcs.in

-----------------------------------------------------------------------------
\* Datagrams of these lengths one after the other, from this logical address and this
\* byte of the image on; the answers are copied that much further.
Datagrams(cmd, lengths, addr, offset) ==
    [k \in DOMAIN lengths |->
        LET first == addr + SumTo(lengths, k - 1)
        IN  [cmd |-> cmd, addr |-> first, len |-> lengths[k],
             from |-> first, data |-> first + offset, dc |-> FALSE]]

\* The segments of the inputs, without the outputs in the first of them.
InputLengths ==
    LET lengths == SubSeq(IOsegment, group.Isegment + 1, Len(IOsegment))
    IN  [lengths EXCEPT ![1] = @ - group.Ioffset]
\* The segments of the outputs, without the inputs in the last of them.
OutputLengths ==
    LET last == CHOOSE k \in DOMAIN IOsegment :
                  SumTo(IOsegment, k - 1) < group.Obytes /\ group.Obytes <= SumTo(IOsegment, k)
    IN  [SubSeq(IOsegment, 1, last) EXCEPT ![last] = group.Obytes - SumTo(IOsegment, last - 1)]

\* The clock datagram goes with the first.
WithClock(frames) == IF hasdc /\ frames # <<>> THEN [frames EXCEPT ![1].dc = TRUE] ELSE frames

\* How far behind the place they are sent from the answers are copied to.
InputOffset == IF overlap /\ group.Obytes > 0 THEN group.Obytes ELSE 0

\* Inputs and outputs together, or apart if a slave cannot do LRW.
FramesOfCycle ==
    IF group.Obytes + group.Ibytes = 0 THEN <<>>
    ELSE IF ~blockLRW THEN Datagrams("LRW", IOsegment, 0, InputOffset)
    ELSE (IF group.Ibytes > 0 THEN Datagrams("LRD", InputLengths, group.Obytes, 0) ELSE <<>>)
         \o (IF group.Obytes > 0 THEN Datagrams("LWR", OutputLengths, 0, 0) ELSE <<>>)

FrameOf(d) == IF d.dc THEN WithSystemTime(d.cmd, d.len) ELSE SetupDatagram(d.cmd, d.len)

\* The answers of a cycle are all dealt with before the next one is sent.
SendProcessData ==
    /\ mapping = "done" /\ measured = Len(bus)
    /\ pulled = Len(stack)
    /\ stack' = WithClock(FramesOfCycle)
    /\ pulled' = 0 /\ wkc' = 0 /\ valid' = FALSE
    /\ silent' \in SUBSET Slaves
    /\ missing' = {} /\ fresh' = {}

-----------------------------------------------------------------------------
\* External: a slave counts a datagram that one of its FMMUs maps a byte of, by one for
\* data read and, in an LRW, by two for data written.
BytesOf(d) == d.addr .. d.addr + d.len - 1
Counts(i, dir, d) == i \notin silent /\ FmmuBytes(i, dir) \cap BytesOf(d) # {}
Counter(d) ==
    LET read == Cardinality({i \in Slaves : Counts(i, "in", d)})
        written == Cardinality({i \in Slaves : Counts(i, "out", d)})
    IN  CASE d.cmd = "LRW" -> 2 * written + read
          [] d.cmd = "LRD" -> read
          [] d.cmd = "LWR" -> written

\* Where the counter is read: with the clock, that of the frame is the clock's.
CounterTaken(d) == IF d.dc THEN EC_HEADERSIZE + d.len ELSE FrameOf(d).elength

\* Mutant: a write that was not read counts once.
TwiceOnce(d) == Counter(d)
\* What a slave writes counts twice with LRW; the same is made of LWR.
Twice(d) == IF d.cmd = "LWR" THEN 2 * Counter(d) ELSE Counter(d)

\* Mutant: only the answers of LRW hold inputs.
HoldsInputsLrw(d) == d.cmd = "LRW"
HoldsInputs(d) == d.cmd \in {"LRD", "LRW"}

\* The first index not pulled yet.
Receive ==
    /\ pulled < Len(stack)
    /\ pulled' = pulled + 1
    /\ LET d == stack[pulled']
       IN  \/ /\ wkc' = (IF d.dc THEN Twice(d) ELSE wkc + Twice(d))
              /\ valid' = TRUE
              /\ fresh' = IF HoldsInputs(d) THEN fresh \cup (d.data .. d.data + d.len - 1) ELSE fresh
              /\ UNCHANGED missing
           \/ /\ missing' = missing \cup {pulled'}
              /\ UNCHANGED <<wkc, valid, fresh>>
    /\ UNCHANGED <<stack, silent>>

result == IF valid THEN wkc ELSE EC_NOFRAME

-----------------------------------------------------------------------------
\* An overlapped image cannot be sent with LRW blocked: the inputs would be read behind the
\* outputs, where no slave has them.
Sendable == ~(overlap /\ blockLRW)
InputBytes ==
    LET first == IF overlap THEN 0 ELSE group.Obytes IN first .. first + group.Ibytes - 1

\* Every byte of the image is in one datagram that reads it, if it is an input, and in
\* one that writes it, if it is an output; it comes from and goes to its own place in the
\* process image; and every datagram fits in a frame, the first with the clock.  (With
\* LRW blocked, the first frame is that of the first inputs, which need not be in the
\* first segment: its length does not allow for the clock then.)
ImageCarried ==
    LET carriers(b, cmds) == {k \in DOMAIN stack : stack[k].cmd \in cmds /\ b \in BytesOf(stack[k])}
    IN  /\ \A b \in 0 .. group.Obytes - 1 : Cardinality(carriers(b, {"LRW", "LWR"})) = 1
        /\ \A b \in InputBytes : Cardinality(carriers(b, {"LRW", "LRD"})) = 1
        /\ \A k \in DOMAIN stack :
              LET d == stack[k]
                  moved(dir) == (IF dir = "out" THEN d.from ELSE d.data) - d.addr
                  carries(dir) == d.cmd \in {"LRW", IF dir = "out" THEN "LWR" ELSE "LRD"}
              IN  /\ \A i \in Slaves, dir \in Directions :
                        carries(dir) /\ FmmuBytes(i, dir) \cap BytesOf(d) # {} =>
                            Pointer(i, dir) = fmmus[i][dir][1].start + moved(dir)
                  /\ d.len <= EC_MAXLRWDATA
                  /\ d.dc /\ (~blockLRW \/ group.Isegment = 0) =>
                        d.len <= EC_MAXLRWDATA - EC_FIRSTDCDATAGRAM

\* In every frame, the slaves find all datagrams that were put in, the outputs with the
\* caller's data, and the data, the counter and the system time of the answer are read
\* where they are; so are the states of slaves that are asked for in one frame.
AnswersFound ==
    /\ \A k \in DOMAIN stack :
          LET d == stack[k]
              frame == FrameOf(d)
          IN  /\ WellFormed(frame)
              /\ d.cmd \in {"LRW", "LWR"} /\ d.len > 0 => frame.headers[ETH_HEADERSIZE].sent = "caller"
              /\ CounterTaken(d) = CounterPlace(frame, ETH_HEADERSIZE)
              /\ d.dc => SystemTimeOffset(d.cmd, d.len) = DataPlace(LastPlace(frame))
    /\ \A n \in Slaves :
          LET poll == FprdMulti(n)
          IN  /\ WellFormed(poll.frame)
              /\ {poll.sldatapos[k] : k \in 1 .. n} = {DataPlace(p) : p \in DOMAIN poll.frame.headers}

\* Every cycle carries the image, in frames whose datagrams and answers are found.
FramesCarryImage == stack # <<>> /\ pulled = 0 /\ Sendable => ImageCarried /\ AnswersFound

\* The counter is the expected one exactly if every slave with data has exchanged all
\* of it, and lower otherwise: then ecat_node.cpp looks for the slave that is lost.  That
\* holds if no slave has less than a byte or more than the first segment.
WholeBytes == \A i \in Slaves, dir \in Directions :
    LET bits == data[i][dir].bits
    IN  bits = 0 \/ Bytes(bits) \in 1 .. EC_MAXLRWDATA - EC_FIRSTDCDATAGRAM
Exchanged ==
    /\ \A k \in missing : stack[k].len = 0
    /\ \A i \in silent : fmmus[i].out = <<>> /\ fmmus[i].in = <<>>
CounterTells ==
    WholeBytes /\ Sendable /\ stack # <<>> /\ pulled = Len(stack) =>
        /\ result = expectedWkc <=> Exchanged
        /\ result <= expectedWkc

\* With the expected counter, all inputs are from this cycle.
FullCounterIsFresh ==
    WholeBytes /\ Sendable /\ stack # <<>> /\ pulled = Len(stack) /\ result >= expectedWkc =>
        group.Obytes .. group.Obytes + group.Ibytes - 1 \subseteq fresh
=============================================================================
