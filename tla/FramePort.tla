------------------------------ MODULE FramePort ------------------------------
(***************************************************************************)
(* The frame port of SOEM (oshw/linux/nicdrv.c, one interface): a frame    *)
(* carries the index of the buffer that waits for its answer, and the two  *)
(* threads that use the bus share the buffers and the socket.  The data    *)
(* thread sends all frames of a cycle (ec_send_processdata) and collects   *)
(* them in that order (ec_receive_processdata); the checker sends one      *)
(* datagram at a time and repeats it while it has time (ecx_srconfirm).    *)
(* Whichever thread reads the socket stores what belongs to the other.     *)
(*                                                                         *)
(* A request is a number, the same for its repetitions; its answer carries *)
(* it too, which the code cannot see: it compares indexes, and in some     *)
(* calls the command.                                                      *)
(***************************************************************************)
EXTENDS Integers, Sequences, SequencesExt

CONSTANTS
    EC_MAXBUF,     \* buffers
    Segments,      \* frames of a cycle (IOsegment)
    Calls,         \* the calls of the checker, by their commands
    MaxRequests,   \* bound: requests of all threads
    MaxTries,      \* bound: repetitions of a datagram in the time of its confirmation
    MaxLate        \* bound: answers that outlive the patience of their thread

ASSUME PortAssumption ==
    /\ EC_MAXBUF \in Nat /\ Segments \in Nat \ {0} /\ Segments + 1 <= EC_MAXBUF
    /\ MaxRequests \in Nat /\ MaxTries \in Nat \ {0} /\ MaxLate \in Nat

(* The calls for one datagram, by their commands (ethercatbase.c): the data  *)
(* of the answer is copied to the caller, or it is not, and if it is, the    *)
(* command of the answer is compared first, or it is not.                    *)
Call(com, copies, compares) == [com |-> com, copies |-> copies, compares |-> compares]
PositionCalls ==
    {Call("BWR", FALSE, FALSE)} \cup {Call(com, TRUE, FALSE) : com \in {"BRD", "APRD", "ARMW", "FRMW"}}
AddressCalls ==
    {Call("FPRD", TRUE, FALSE)} \cup {Call(com, FALSE, FALSE) : com \in {"APWR", "FPWR"}}
LogicalCalls == {Call("LRW", TRUE, TRUE), Call("LRD", TRUE, TRUE), Call("LWR", FALSE, FALSE)}
CallOf(com) == CHOOSE c \in PositionCalls \cup AddressCalls \cup LogicalCalls : c.com = com
ASSUME CallsAssumption ==
    \A com \in Calls : \E c \in PositionCalls \cup AddressCalls \cup LogicalCalls : c.com = com

Index == 0 .. EC_MAXBUF - 1
Threads == {"data", "checker"}
Frames(t) == IF t = "data" THEN Segments ELSE 1
Nobody == "nobody"

VARIABLES
    rxbufstat,  \* index -> "EMPTY", "ALLOC", "TX", "RCVD" or "COMPLETE"
    rxbuf,      \* index -> the request [req, com] answered by the frame in the buffer
    lastidx,
    wire,       \* the frames under way and in the socket, in order
    pc,         \* thread -> "alloc", "send", "try", "lock", "tried", "read"
    hold,       \* thread -> its indexes, with their requests, as idxstack has them
    tries,      \* how often the checker has sent its datagram
    storing,    \* <<thread, frame>> while the holder of rx_mutex stores for the other
    answer,     \* the request and the answer last collected, and whether its data was taken
    requests, late
vars == <<rxbufstat, rxbuf, lastidx, wire, pc, hold, tries, storing, answer, requests, late>>

Indexes(t) == {hold[t][k].idx : k \in DOMAIN hold[t]}
Held == UNION {Indexes(t) : t \in Threads}
Current(t) == hold[t][1]
Request(frame) == [req |-> frame.req, com |-> frame.com]
NoRequest == [req |-> 0, com |-> "none"]
Commands(t) == IF t = "data" THEN {"LRW"} ELSE Calls

Init ==
    /\ rxbufstat = [i \in Index |-> "EMPTY"]
    /\ rxbuf = [i \in Index |-> NoRequest]
    /\ lastidx = 0
    /\ wire = <<>>
    /\ pc = [t \in Threads |-> "alloc"]
    /\ hold = [t \in Threads |-> <<>>]
    /\ tries = 0
    /\ storing = <<Nobody>>
    /\ answer = [of |-> NoRequest, by |-> NoRequest, taken |-> FALSE]
    /\ requests = 0 /\ late = 0

Goto(t, step) == pc' = [pc EXCEPT ![t] = step]

-----------------------------------------------------------------------------
(* Sending.                                                                 *)

\* Mutant: the status of the buffer is not looked at.
NextIndexBlind == (lastidx + 1) % EC_MAXBUF
\* Mutant: the search begins at the first buffer.
NextIndexLowest ==
    LET free == {i \in Index : rxbufstat[i] = "EMPTY"}
    IN  IF free = {} THEN 0 ELSE CHOOSE i \in free : \A j \in free : i <= j
\* The first free index after the last one; when none is free, the next one all
\* the same.
NextIndex ==
    LET after(k) == (lastidx + k) % EC_MAXBUF
        free == {k \in 1 .. EC_MAXBUF : rxbufstat[after(k)] = "EMPTY"}
    IN  IF free = {} THEN after(1) ELSE after(CHOOSE k \in free : \A j \in free : k <= j)

GetIndex(t) ==
    /\ pc[t] = "alloc" /\ requests < MaxRequests
    /\ requests' = requests + 1
    /\ LET i == NextIndex
       IN  /\ rxbufstat' = [rxbufstat EXCEPT ![i] = "ALLOC"]
           /\ lastidx' = i
           /\ \E com \in Commands(t) :
                 hold' = [hold EXCEPT ![t] = Append(@, [idx |-> i, req |-> requests + 1, com |-> com])]
    /\ Goto(t, "send")
    /\ tries' = IF t = "checker" THEN 0 ELSE tries
    /\ UNCHANGED <<rxbuf, wire, storing, answer, late>>

\* The status is set before the frame leaves, so that its answer is expected.
OutFrame(t) ==
    /\ pc[t] = "send"
    /\ LET frame == hold[t][Len(hold[t])]
       IN  /\ rxbufstat' = [rxbufstat EXCEPT ![frame.idx] = "TX"]
           /\ wire' = Append(wire, frame)
    /\ Goto(t, IF Len(hold[t]) < Frames(t) THEN "alloc" ELSE "try")
    /\ tries' = IF t = "checker" THEN tries + 1 ELSE tries
    /\ UNCHANGED <<rxbuf, lastidx, hold, storing, answer, requests, late>>

-----------------------------------------------------------------------------
(* Receiving: ecx_inframe, in a loop until the time is over.                *)

\* The other thread has stored the answer.
TakeStored(t) ==
    /\ pc[t] \in {"try", "tried"}
    /\ rxbufstat[Current(t).idx] = "RCVD"
    /\ rxbufstat' = [rxbufstat EXCEPT ![Current(t).idx] = "COMPLETE"]
    /\ Goto(t, "read")
    /\ UNCHANGED <<rxbuf, lastidx, wire, hold, tries, storing, answer, requests, late>>

\* It has not: wait for rx_mutex.
WaitForSocket(t) ==
    /\ pc[t] \in {"try", "tried"}
    /\ rxbufstat[Current(t).idx] # "RCVD"
    /\ Goto(t, "lock")
    /\ UNCHANGED <<rxbufstat, rxbuf, lastidx, wire, hold, tries, storing, answer, requests, late>>

\* A frame is stored only if somebody waits for it.
WaitedFor(i) == rxbufstat[i] = "TX"

\* Nothing has come, or one frame: the answer waited for, an answer the other thread
\* waits for, or one that nobody expects.
Receive(t) ==
    /\ pc[t] = "lock" /\ storing = <<Nobody>>
    /\ \/ /\ Goto(t, "tried")
          /\ UNCHANGED <<rxbufstat, rxbuf, wire, storing>>
       \/ /\ wire # <<>>
          /\ wire' = Tail(wire)
          /\ LET frame == Head(wire)
             IN  \/ /\ frame.idx = Current(t).idx
                    /\ rxbuf' = [rxbuf EXCEPT ![frame.idx] = Request(frame)]
                    /\ rxbufstat' = [rxbufstat EXCEPT ![frame.idx] = "COMPLETE"]
                    /\ Goto(t, "read")
                    /\ UNCHANGED storing
                 \/ /\ frame.idx # Current(t).idx
                    /\ WaitedFor(frame.idx)
                    /\ storing' = <<t, frame>>
                    /\ UNCHANGED <<rxbufstat, rxbuf, pc>>
                 \/ /\ frame.idx # Current(t).idx
                    /\ ~WaitedFor(frame.idx)
                    /\ Goto(t, "tried")
                    /\ UNCHANGED <<rxbufstat, rxbuf, storing>>
    /\ UNCHANGED <<lastidx, hold, tries, answer, requests, late>>

\* The buffer is written, whatever has become of it since its status was read.
Store(t) ==
    /\ storing # <<Nobody>> /\ storing[1] = t
    /\ rxbuf' = [rxbuf EXCEPT ![storing[2].idx] = Request(storing[2])]
    /\ rxbufstat' = [rxbufstat EXCEPT ![storing[2].idx] = "RCVD"]
    /\ storing' = <<Nobody>>
    /\ Goto(t, "tried")
    /\ UNCHANGED <<lastidx, wire, hold, tries, answer, requests, late>>

\* Mutant: the index stays on the stack.
ReleasedKeeps(t) ==
    /\ rxbufstat' = [rxbufstat EXCEPT ![Current(t).idx] = "EMPTY"]
    /\ hold' = hold
    /\ Goto(t, IF Len(hold[t]) > 1 THEN "try" ELSE "alloc")
\* ecx_setbufstat(EC_BUF_EMPTY), and the next index of the cycle.
Released(t) ==
    /\ rxbufstat' = [rxbufstat EXCEPT ![Current(t).idx] = "EMPTY"]
    /\ hold' = [hold EXCEPT ![t] = Tail(@)]
    /\ Goto(t, IF Len(hold[t]) > 1 THEN "try" ELSE "alloc")

\* Mutant: process data is taken from any answer.
Takes_Any(t, of, by) == t = "data" \/ CallOf(of.com).copies
\* Whether the data of an answer is taken: in a cycle, if its command is one of process
\* data; in the other calls as in the tables above.
Takes(t, of, by) ==
    IF t = "data" THEN by.com \in {"LRD", "LRW"}
    ELSE CallOf(of.com).copies /\ (CallOf(of.com).compares => by.com = of.com)

\* The data is copied from the buffer before it is released (if the counter is not 0).
Collect(t) ==
    /\ pc[t] = "read"
    /\ LET of == Request(Current(t))
           by == rxbuf[Current(t).idx]
       IN  answer' = [of |-> of, by |-> by, taken |-> Takes(t, of, by)]
    /\ Released(t)
    /\ UNCHANGED <<rxbuf, lastidx, wire, tries, storing, requests, late>>

\* The time is over although the answer is still to come, or has just come.
Underway(t) ==
    \/ \E k \in DOMAIN wire : wire[k] = Current(t)
    \/ storing # <<Nobody>> /\ storing[2] = Current(t)
    \/ rxbufstat[Current(t).idx] = "RCVD"
Patience(t) ==
    /\ late' = IF Underway(t) THEN late + 1 ELSE late
    /\ late' <= MaxLate

\* Mutant: the buffer is not given back.
GiveUpLeaks(t) ==
    /\ pc[t] = "tried"
    /\ Patience(t)
    /\ hold' = [hold EXCEPT ![t] = Tail(@)]
    /\ Goto(t, IF Len(hold[t]) > 1 THEN "try" ELSE "alloc")
    /\ UNCHANGED <<rxbufstat, rxbuf, lastidx, wire, tries, storing, answer, requests>>
GiveUp(t) ==
    /\ pc[t] = "tried"
    /\ Patience(t)
    /\ Released(t)
    /\ UNCHANGED <<rxbuf, lastidx, wire, tries, storing, answer, requests>>

\* Only the checker sends again, under the same index.
Resend ==
    /\ pc["checker"] = "tried" /\ tries < MaxTries
    /\ Patience("checker")
    /\ Goto("checker", "send")
    /\ UNCHANGED <<rxbufstat, rxbuf, lastidx, wire, hold, tries, storing, answer, requests>>

\* External: a frame is lost.
Lose ==
    /\ \E k \in DOMAIN wire : wire' = RemoveAt(wire, k)
    /\ UNCHANGED <<rxbufstat, rxbuf, lastidx, pc, hold, tries, storing, answer, requests, late>>

Next ==
    \/ Lose \/ Resend
    \/ \E t \in Threads :
          \/ GetIndex(t) \/ OutFrame(t) \/ TakeStored(t) \/ WaitForSocket(t)
          \/ Receive(t) \/ Store(t) \/ Collect(t) \/ GiveUp(t)
Spec == Init /\ [][Next]_vars

-----------------------------------------------------------------------------
Coms == Calls \cup {"LRW"}
Frame == [idx : Index, req : 1 .. MaxRequests, com : Coms]
PortTypeOK ==
    /\ rxbufstat \in [Index -> {"EMPTY", "ALLOC", "TX", "RCVD", "COMPLETE"}]
    /\ rxbuf \in [Index -> {NoRequest} \cup [req : 1 .. MaxRequests, com : Coms]]
    /\ lastidx \in Index
    /\ wire \in Seq(Frame)
    /\ pc \in [Threads -> {"alloc", "send", "try", "lock", "tried", "read"}]
    /\ hold \in [Threads -> Seq(Frame)]
    /\ \A t \in Threads : /\ Len(hold[t]) <= Frames(t)
                          /\ pc[t] # "alloc" => Len(hold[t]) > 0
    /\ storing \in {<<Nobody>>} \cup (Threads \X Frame)
    /\ late \in 0 .. MaxLate

\* No two answers are awaited in one buffer, neither of two threads nor of one.
NoSharing ==
    /\ Indexes("data") \cap Indexes("checker") = {}
    /\ \A t \in Threads : \A j, k \in DOMAIN hold[t] : j # k => hold[t][j].idx # hold[t][k].idx

\* A buffer that nobody holds is free again, except for one lost to each answer
\* that was late: it was stored after its index was given back.
Leaked == {i \in Index \ Held : rxbufstat[i] # "EMPTY"}
LeaksAreLate == Cardinality(Leaked) <= late

\* What a thread takes for its answer is its answer, unless an answer was late; and
\* then the two requests are as far apart as the indexes that were free between.  Even
\* then no process data is taken from the answer to another command.
OwnAnswers ==
    /\ answer.of.req # answer.by.req =>
          late > 0 /\ answer.of.req - answer.by.req >= EC_MAXBUF - Segments + 1 - late
    /\ answer.taken /\ answer.of.com \in {"LRW", "LRD"} => answer.by.com \in {"LRW", "LRD"}
=============================================================================
