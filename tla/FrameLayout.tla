------------------------------ MODULE FrameLayout ------------------------------
(***************************************************************************)
(* Several datagrams in one frame (ethercatbase.c): where the master puts  *)
(* them and where it looks for their answers, which come back in a buffer  *)
(* without the Ethernet header.  A slave finds the datagrams by their      *)
(* lengths and by the flag that says that another one follows.             *)
(*                                                                         *)
(* A frame is [txbuflength, elength, headers]: headers are the datagrams   *)
(* by the place in the buffer at which they were written, with the length  *)
(* of the frame where the first one has it.                                *)
(***************************************************************************)
EXTENDS Integers, FiniteSets, TLC

ETH_HEADERSIZE == 14
EC_HEADERSIZE == 12
EC_ELENGTHSIZE == 2
EC_WKCSIZE == 2

\* What the data of a datagram is when it leaves: nothing, zeros for a command that only
\* reads, the caller's for the others.
OnlyRead == {"NOP", "APRD", "FPRD", "BRD", "LRD"}
WriteDatagramData(com, length) ==
    IF length = 0 THEN "none" ELSE IF com \in OnlyRead THEN "zeros" ELSE "caller"

Header(com, length, more) ==
    [com |-> com, dlength |-> length, follows |-> more, sent |-> WriteDatagramData(com, length)]

SetupDatagram(com, length) ==
    [txbuflength |-> ETH_HEADERSIZE + EC_HEADERSIZE + EC_WKCSIZE + length,
     elength     |-> EC_HEADERSIZE + length,
     headers     |-> ETH_HEADERSIZE :> Header(com, length, FALSE)]

\* Mutant: the flag of the first datagram is left alone.
AddDatagramUnannounced(frame, com, more, length) ==
    [txbuflength |-> frame.txbuflength + EC_HEADERSIZE - EC_ELENGTHSIZE + EC_WKCSIZE + length,
     elength     |-> frame.elength + EC_HEADERSIZE + length,
     headers     |-> frame.headers @@ (frame.txbuflength - EC_ELENGTHSIZE :> Header(com, length, more))]
\* The flag is set in the first datagram, and by more in the new one.
AddDatagram(frame, com, more, length) ==
    [txbuflength |-> frame.txbuflength + EC_HEADERSIZE - EC_ELENGTHSIZE + EC_WKCSIZE + length,
     elength     |-> frame.elength + EC_HEADERSIZE + length,
     headers     |-> [frame.headers EXCEPT ![ETH_HEADERSIZE].follows = TRUE]
                     @@ (frame.txbuflength - EC_ELENGTHSIZE :> Header(com, length, more))]

\* Where the answer to the added datagram is looked for.
AnswerOffset(frame) == frame.txbuflength + EC_HEADERSIZE - EC_ELENGTHSIZE - ETH_HEADERSIZE

\* The states of n slaves (of 6 bytes) in one frame, with the places of their answers.
AlStatus == 6
FprdMulti(n) ==
    LET poll[k \in 1 .. n] ==
          IF k = 1 THEN [frame |-> SetupDatagram("FPRD", AlStatus), sldatapos |-> 1 :> EC_HEADERSIZE]
          ELSE [frame |-> AddDatagram(poll[k - 1].frame, "FPRD", k < n, AlStatus),
                sldatapos |-> poll[k - 1].sldatapos @@ (k :> AnswerOffset(poll[k - 1].frame))]
    IN  poll[n]

\* Process data, with the system time that is read from one slave and given to the others,
\* as in ecx_LRWDC.
Int64 == 8
WithSystemTime(com, length) == AddDatagram(SetupDatagram(com, length), "FRMW", FALSE, Int64)
SystemTimeOffset(com, length) == AnswerOffset(SetupDatagram(com, length))

-----------------------------------------------------------------------------
\* External: the places where the slaves find the datagrams, from one to the next.
NextPlace(frame, p) == p + EC_HEADERSIZE + frame.headers[p].dlength
FoundIn(frame) ==
    LET n == Cardinality(DOMAIN frame.headers)
        walk[k \in 1 .. n] ==
            IF k = 1 THEN {ETH_HEADERSIZE}
            ELSE LET last == CHOOSE p \in walk[k - 1] : \A q \in walk[k - 1] : q <= p
                 IN  IF last \in DOMAIN frame.headers /\ frame.headers[last].follows
                       THEN walk[k - 1] \cup {NextPlace(frame, last)} ELSE walk[k - 1]
    IN  walk[n]

\* Where the data of the datagram at p is in the answer, and the counter after it.
DataPlace(p) == p + EC_HEADERSIZE - ETH_HEADERSIZE
CounterPlace(frame, p) == DataPlace(p) + frame.headers[p].dlength
LastPlace(frame) == CHOOSE p \in DOMAIN frame.headers : \A q \in DOMAIN frame.headers : q <= p

\* The slaves find all datagrams and nothing else; the frame ends with the counter of the
\* last, which is the one that ecx_inframe takes for that of the frame.
WellFormed(frame) ==
    /\ FoundIn(frame) = DOMAIN frame.headers
    /\ ~frame.headers[LastPlace(frame)].follows
    /\ frame.elength = CounterPlace(frame, LastPlace(frame))
    /\ frame.txbuflength = ETH_HEADERSIZE + frame.elength + EC_WKCSIZE
=============================================================================
