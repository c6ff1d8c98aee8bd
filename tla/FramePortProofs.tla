-------------------------- MODULE FramePortProofs --------------------------
(***************************************************************************)
(* The frame port for any number of buffers, frames of a cycle, repeated   *)
(* datagrams and requests, as long as the answers that came late (of which *)
(* each may cost a buffer) leave room for the frames of a cycle: no buffer *)
(* is shared, a buffer is lost only to an answer that was late, while none *)
(* was late every thread collects its own answers, and an answer that was  *)
(* late is taken for that of a distant request only.                       *)
(*                                                                         *)
(* The argument is a count.  A frame on its way is awaited at its index by *)
(* the thread that has sent it, or an answer was late; so the frames under *)
(* way and the buffers lost are no more than the awaited indexes and the   *)
(* late answers together (Counted).  And the search for a free buffer goes *)
(* round: it comes back to an index only after it has passed all that were *)
(* free (Far).                                                             *)
(***************************************************************************)
EXTENDS FramePort, FiniteSetTheorems, TLAPS

-----------------------------------------------------------------------------
(* Of numbers and finite sets.                                              *)

\* A number below n is its own remainder, also when n is added.
LEMMA Remainder ==
    ASSUME NEW n \in Nat \ {0}, NEW x \in 0 .. n - 1
    PROVE  x % n = x /\ (x + n) % n = x
OBVIOUS

\* A nonempty set of natural numbers has a smallest element.
LEMMA Smallest ==
    ASSUME NEW S \in SUBSET Nat, S # {}
    PROVE  \E x \in S : \A y \in S : x <= y
<1> DEFINE R == {ss \in Nat \X Nat : ss[1] < ss[2]}
<1>1. IsWellFoundedOn(R, Nat)
  BY NatLessThanWellFounded DEF OpToRel
<1>2. PICK x \in S : \A y \in S : ~ (<<y, x>> \in R)
  <2> HIDE DEF R
  <2> QED BY <1>1, WFMin
<1>3. \A y \in S : ~ (y < x)
  BY <1>2
<1> QED BY <1>3

\* The values of a function are no more than its arguments.
LEMMA Places ==
    ASSUME NEW S, IsFiniteSet(S), NEW f
    PROVE  LET T == {f[k] : k \in S} IN IsFiniteSet(T) /\ Cardinality(T) <= Cardinality(S)
<1> DEFINE T == {f[k] : k \in S}
           g == [k \in S |-> f[k]]
<1>1. g \in Surjection(S, T)
  BY DEF Surjection
<1> QED BY <1>1, FS_Surjection

\* When one element leaves a set, it is smaller by at most one.
LEMMA OneFewer ==
    ASSUME NEW S, IsFiniteSet(S), NEW T, IsFiniteSet(T), NEW x, S \ {x} \subseteq T
    PROVE  Cardinality(S) <= Cardinality(T) + 1
<1>1. Cardinality(S \ {x}) <= Cardinality(T)
  BY FS_Subset
<1>2. Cardinality(S) \in Nat /\ Cardinality(T) \in Nat
  BY FS_CardinalityType
<1>3. Cardinality(S \ {x}) = IF x \in S THEN Cardinality(S) - 1 ELSE Cardinality(S)
  BY FS_RemoveElement, Zenon
<1>4. IsFiniteSet(S \ {x})
  BY FS_RemoveElement
<1>5. Cardinality(S \ {x}) \in Nat
  BY <1>4, FS_CardinalityType
<1> QED BY <1>1, <1>2, <1>3, <1>5

-----------------------------------------------------------------------------
(* The inductive invariant.                                                 *)

\* What is held is not free; a thread that asks for an index has a frame left to send;
\* one that collects waits no more, one that stores has the socket.
InUse == \A t \in Threads : \A k \in DOMAIN hold[t] : rxbufstat[hold[t][k].idx] # "EMPTY"
Ready ==
    \A t \in Threads : /\ pc[t] = "alloc" => Len(hold[t]) < Frames(t)
                       /\ pc[t] = "read" => rxbufstat[Current(t).idx] # "TX"
                       /\ storing # <<Nobody>> /\ storing[1] = t => pc[t] = "lock"

\* The frames under way, with the one that is being stored; the indexes at which one of
\* them is awaited by the thread that has sent it (and does not send it again).
InFlight ==
    {wire[k] : k \in DOMAIN wire} \cup (IF storing = <<Nobody>> THEN {} ELSE {storing[2]})
Stored == IF storing = <<Nobody>> THEN 0 ELSE 1
Expects(t, i) ==
    \E k \in DOMAIN hold[t] : /\ hold[t][k] \in InFlight
                              /\ hold[t][k].idx = i
                              /\ ~ (pc[t] = "send" /\ k = Len(hold[t]))
Awaited == {i \in Index : rxbufstat[i] = "TX" /\ \E t \in Threads : Expects(t, i)}

\* Each frame that nobody awaits, and each buffer lost to one, has an answer of its own
\* that was late.
Counted == Len(wire) + Stored + Cardinality(Leaked) <= late + Cardinality(Awaited)

PortInv ==
    /\ PortTypeOK /\ requests \in 0 .. MaxRequests
    /\ NoSharing /\ InUse /\ Ready /\ Counted

-----------------------------------------------------------------------------
(* Indexes.                                                                 *)

\* A set of indexes is finite.
LEMMA FiniteIndexes ==
    ASSUME NEW S \in SUBSET Index
    PROVE  IsFiniteSet(S) /\ Cardinality(S) \in Nat /\ Cardinality(S) <= EC_MAXBUF
<1>1. IsFiniteSet(Index) /\ Cardinality(Index) = EC_MAXBUF
  BY FS_Interval, PortAssumption DEF Index
<1>2. IsFiniteSet(S) /\ Cardinality(S) <= EC_MAXBUF
  BY <1>1, FS_Subset
<1> QED BY <1>2, FS_CardinalityType

\* How many steps the search makes from the last index to i.
Steps(i) == IF i > lastidx THEN i - lastidx ELSE i - lastidx + EC_MAXBUF

\* The k-th index after the last one is the one k steps away.
LEMMA StepsAfter ==
    ASSUME PortTypeOK
    PROVE  /\ \A i \in Index : Steps(i) \in 1 .. EC_MAXBUF /\ (lastidx + Steps(i)) % EC_MAXBUF = i
           /\ \A k \in 1 .. EC_MAXBUF : /\ (lastidx + k) % EC_MAXBUF \in Index
                                        /\ Steps((lastidx + k) % EC_MAXBUF) = k
<1>1. EC_MAXBUF \in Nat \ {0} /\ lastidx \in 0 .. EC_MAXBUF - 1
  BY PortAssumption DEF PortTypeOK, Index
<1>2. ASSUME NEW i \in Index
      PROVE  Steps(i) \in 1 .. EC_MAXBUF /\ (lastidx + Steps(i)) % EC_MAXBUF = i
  BY <1>1, <1>2, Remainder DEF Index, Steps
<1>3. ASSUME NEW k \in 1 .. EC_MAXBUF
      PROVE  /\ (lastidx + k) % EC_MAXBUF \in Index
             /\ Steps((lastidx + k) % EC_MAXBUF) = k
  <2>1. CASE lastidx + k <= EC_MAXBUF - 1
    <3>1. (lastidx + k) % EC_MAXBUF = lastidx + k
      BY <1>1, <2>1, Remainder
    <3> QED BY <1>1, <2>1, <3>1 DEF Index, Steps
  <2>2. CASE lastidx + k > EC_MAXBUF - 1
    <3>1. lastidx + k - EC_MAXBUF \in 0 .. EC_MAXBUF - 1
      BY <1>1, <2>2
    <3>2. (lastidx + k) % EC_MAXBUF = lastidx + k - EC_MAXBUF
      <4> DEFINE y == lastidx + k - EC_MAXBUF
      <4>1. (y + EC_MAXBUF) % EC_MAXBUF = y
        BY <1>1, <3>1, Remainder
      <4>2. y + EC_MAXBUF = lastidx + k
        BY <1>1
      <4> QED BY <4>1, <4>2
    <3> QED BY <1>1, <2>2, <3>1, <3>2 DEF Index, Steps
  <2> QED BY <1>1, <2>1, <2>2
<1> QED BY <1>2, <1>3

\* When there is a free index, NextIndex finds one, and the first.
LEMMA NextIsFree ==
    ASSUME PortTypeOK, NEW i \in Index, rxbufstat[i] = "EMPTY"
    PROVE  /\ NextIndex \in Index /\ rxbufstat[NextIndex] = "EMPTY"
           /\ Steps(NextIndex) <= Steps(i)
<1> DEFINE after(k) == (lastidx + k) % EC_MAXBUF
           free == {k \in 1 .. EC_MAXBUF : rxbufstat[after(k)] = "EMPTY"}
<1>1. Steps(i) \in 1 .. EC_MAXBUF /\ after(Steps(i)) = i
  BY StepsAfter
<1>2. Steps(i) \in free /\ free \in SUBSET Nat
  BY <1>1
<1>3. \E m \in free : \A j \in free : m <= j
  BY <1>2, Smallest
<1>4. PICK m \in free : NextIndex = after(m) /\ \A j \in free : m <= j
  BY <1>2, <1>3 DEF NextIndex
<1>5. after(m) \in Index /\ Steps(after(m)) = m
  BY <1>4, StepsAfter
<1> QED BY <1>2, <1>4, <1>5

-----------------------------------------------------------------------------
(* Types.                                                                   *)

\* What a thread that waits for an answer holds first.
LEMMA CurrentType ==
    ASSUME PortTypeOK, NEW t \in Threads, pc[t] # "alloc"
    PROVE  /\ hold[t] \in Seq(Frame) /\ Len(hold[t]) \in Nat \ {0}
           /\ hold[t] # <<>> /\ DOMAIN hold[t] = 1 .. Len(hold[t])
           /\ Current(t) \in Frame /\ Current(t).idx \in Index
           /\ hold[t][Len(hold[t])] \in Frame /\ hold[t][Len(hold[t])].idx \in Index
<1>1. hold[t] \in Seq(Frame) /\ Len(hold[t]) > 0
  BY DEF PortTypeOK
<1>2. hold[t] # <<>> /\ DOMAIN hold[t] = 1 .. Len(hold[t]) /\ Len(hold[t]) \in Nat \ {0}
  BY <1>1
<1>3. \A k \in 1 .. Len(hold[t]) : hold[t][k] \in Frame
  BY <1>1
<1> QED BY <1>1, <1>2, <1>3 DEF Current, Frame

\* Giving an index back.
LEMMA ReleasedType ==
    ASSUME PortTypeOK, NEW t \in Threads, pc[t] # "alloc", Released(t)
    PROVE  /\ rxbufstat' \in [Index -> {"EMPTY", "ALLOC", "TX", "RCVD", "COMPLETE"}]
           /\ pc' \in [Threads -> {"alloc", "send", "try", "lock", "tried", "read"}]
           /\ hold' \in [Threads -> Seq(Frame)]
           /\ \A u \in Threads : /\ Len(hold'[u]) <= Frames(u)
                                 /\ pc'[u] # "alloc" => Len(hold'[u]) > 0
<1>1. Tail(hold[t]) \in Seq(Frame) /\ Len(Tail(hold[t])) = Len(hold[t]) - 1 /\ Len(hold[t]) \in Nat
  BY CurrentType
<1>2. /\ hold' = [hold EXCEPT ![t] = Tail(hold[t])]
      /\ pc' = [pc EXCEPT ![t] = IF Len(hold[t]) > 1 THEN "try" ELSE "alloc"]
  BY DEF Released, Goto
<1>3. hold' \in [Threads -> Seq(Frame)] /\ pc' \in [Threads -> {"alloc", "send", "try", "lock", "tried", "read"}]
  BY <1>1, <1>2 DEF PortTypeOK
<1>4. Frames(t) \in Nat /\ Len(hold[t]) <= Frames(t)
  BY PortAssumption DEF PortTypeOK, Frames
<1>5. ASSUME NEW u \in Threads
      PROVE  Len(hold'[u]) <= Frames(u) /\ (pc'[u] # "alloc" => Len(hold'[u]) > 0)
  <2>1. CASE u = t
    <3>1. hold'[u] = Tail(hold[t]) /\ (pc'[u] # "alloc" => Len(hold[t]) > 1)
      BY <2>1, <1>2 DEF PortTypeOK
    <3> QED BY <3>1, <2>1, <1>1, <1>4
  <2>2. CASE u # t
    <3>1. hold'[u] = hold[u] /\ pc'[u] = pc[u]
      BY <2>2, <1>2 DEF PortTypeOK
    <3> QED BY <3>1 DEF PortTypeOK
  <2> QED BY <2>1, <2>2
<1>6. rxbufstat' \in [Index -> {"EMPTY", "ALLOC", "TX", "RCVD", "COMPLETE"}]
  BY CurrentType DEF PortTypeOK, Released
<1> QED BY <1>3, <1>5, <1>6

\* Every action keeps the types; GetIndex also the bound of the requests.
LEMMA TypeStep ==
    ASSUME PortTypeOK, requests \in 0 .. MaxRequests, InUse, Ready, NEW t \in Threads
    PROVE  /\ GetIndex(t) /\ NextIndex \in Index => PortTypeOK' /\ requests' \in 0 .. MaxRequests
           /\ OutFrame(t) => PortTypeOK'
           /\ TakeStored(t) => PortTypeOK'
           /\ WaitForSocket(t) => PortTypeOK'
           /\ Receive(t) => PortTypeOK'
           /\ Store(t) => PortTypeOK'
           /\ Collect(t) => PortTypeOK'
           /\ GiveUp(t) => PortTypeOK'
           /\ Resend => PortTypeOK'
           /\ Lose => PortTypeOK'
<1> USE PortAssumption
<1>1. ASSUME GetIndex(t), NextIndex \in Index PROVE PortTypeOK' /\ requests' \in 0 .. MaxRequests
  <2>1. PICK com \in Commands(t) :
           hold' = [hold EXCEPT ![t] = Append(hold[t], [idx |-> NextIndex, req |-> requests + 1, com |-> com])]
    BY <1>1 DEF GetIndex
  <2> DEFINE frame == [idx |-> NextIndex, req |-> requests + 1, com |-> com]
  <2>2. requests' = requests + 1 /\ requests + 1 \in 1 .. MaxRequests
    BY <1>1 DEF GetIndex
  <2>3. frame \in Frame
    BY <1>1, <2>2 DEF Frame, Coms, Commands
  <2> HIDE DEF frame
  <2>4. /\ Append(hold[t], frame) \in Seq(Frame) /\ Len(hold[t]) \in Nat
        /\ Len(Append(hold[t], frame)) = Len(hold[t]) + 1
        /\ Len(hold[t]) < Frames(t) /\ Frames(t) \in Nat
    <3>1. hold[t] \in Seq(Frame) /\ Len(hold[t]) < Frames(t)
      BY <1>1 DEF PortTypeOK, GetIndex, Ready
    <3>2. Frames(t) \in Nat
      BY DEF Frames
    <3> QED BY <2>3, <3>1, <3>2
  <2>5. hold' \in [Threads -> Seq(Frame)] /\ pc' = [pc EXCEPT ![t] = "send"]
    BY <1>1, <2>1, <2>4 DEF PortTypeOK, GetIndex, Goto, frame
  <2>6. \A u \in Threads : Len(hold'[u]) <= Frames(u) /\ (pc'[u] # "alloc" => Len(hold'[u]) > 0)
    BY <2>1, <2>4, <2>5 DEF PortTypeOK, frame
  <2>7. rxbufstat' \in [Index -> {"EMPTY", "ALLOC", "TX", "RCVD", "COMPLETE"}] /\ lastidx' \in Index
    BY <1>1 DEF PortTypeOK, GetIndex
  <2> QED BY <1>1, <2>2, <2>5, <2>6, <2>7 DEF PortTypeOK, GetIndex
<1>2. ASSUME OutFrame(t) PROVE PortTypeOK'
  BY <1>2, CurrentType DEF OutFrame, PortTypeOK, Goto, Frames
<1>3. ASSUME TakeStored(t) PROVE PortTypeOK'
  BY <1>3, CurrentType DEF TakeStored, PortTypeOK, Goto
<1>4. ASSUME WaitForSocket(t) PROVE PortTypeOK'
  BY <1>4, CurrentType DEF WaitForSocket, PortTypeOK, Goto
<1>5. ASSUME Receive(t) PROVE PortTypeOK'
  <2>1. pc' \in [Threads -> {"alloc", "send", "try", "lock", "tried", "read"}]
        /\ \A u \in Threads : pc'[u] # "alloc" => pc[u] # "alloc"
    BY <1>5 DEF Receive, PortTypeOK, Goto
  <2>2. hold' = hold /\ lastidx' = lastidx /\ late' = late
    BY <1>5 DEF Receive
  <2>3. CASE UNCHANGED <<rxbufstat, rxbuf, wire, storing>>
    BY <2>1, <2>2, <2>3 DEF PortTypeOK
  <2>4. CASE wire # <<>> /\ wire' = Tail(wire)
    <3>1. Head(wire) \in Frame /\ wire' \in Seq(Frame)
      BY <2>4 DEF PortTypeOK
    <3>2. Head(wire).idx \in Index /\ Request(Head(wire)) \in [req : 1 .. MaxRequests, com : Coms]
      BY <3>1 DEF Frame, Request
    <3>3. rxbufstat' \in [Index -> {"EMPTY", "ALLOC", "TX", "RCVD", "COMPLETE"}]
      BY <1>5, <3>2 DEF Receive, PortTypeOK
    <3>4. rxbuf' \in [Index -> {NoRequest} \cup [req : 1 .. MaxRequests, com : Coms]]
      BY <1>5, <3>2 DEF Receive, PortTypeOK
    <3>5. storing' \in {<<Nobody>>} \cup (Threads \X Frame)
      BY <1>5, <3>1 DEF Receive, PortTypeOK
    <3> QED BY <2>1, <2>2, <3>1, <3>3, <3>4, <3>5 DEF PortTypeOK
  <2> QED BY <1>5, <2>3, <2>4 DEF Receive
<1>6. ASSUME Store(t) PROVE PortTypeOK'
  <2>1. storing \in Threads \X Frame
    BY <1>6 DEF Store, PortTypeOK
  <2>2. storing[2] \in Frame
    BY <2>1
  <2>3. storing[2].idx \in Index /\ Request(storing[2]) \in [req : 1 .. MaxRequests, com : Coms]
    BY <2>2 DEF Frame, Request
  <2>4. pc[t] = "lock"
    <3>1. storing # <<Nobody>> /\ storing[1] = t
      BY <1>6 DEF Store
    <3> QED BY <3>1 DEF Ready
  <2> QED BY <1>6, <2>3, <2>4 DEF Store, PortTypeOK, Goto
<1>7. ASSUME Collect(t) PROVE PortTypeOK'
  BY <1>7, ReleasedType DEF Collect, PortTypeOK
<1>8. ASSUME GiveUp(t) PROVE PortTypeOK'
  BY <1>8, ReleasedType DEF GiveUp, Patience, PortTypeOK
<1>9. ASSUME Resend PROVE PortTypeOK'
  BY <1>9 DEF Resend, Patience, PortTypeOK, Goto, Threads
<1>10. ASSUME Lose PROVE PortTypeOK'
  BY <1>10, SMTT(30) DEF Lose, PortTypeOK, RemoveAt
<1> QED BY <1>1, <1>2, <1>3, <1>4, <1>5, <1>6, <1>7, <1>8, <1>9, <1>10

-----------------------------------------------------------------------------
(* Who holds what.                                                          *)

\* No index is held in two places.
Apart ==
    \A t, u \in Threads : \A j \in DOMAIN hold[t], k \in DOMAIN hold[u] :
        hold[t][j].idx = hold[u][k].idx => t = u /\ j = k

\* Which is what NoSharing says of the sets of indexes.
LEMMA SharingApart == NoSharing <=> Apart
<1>1. ASSUME NoSharing PROVE Apart
  BY <1>1 DEF NoSharing, Apart, Threads, Indexes
<1>2. ASSUME Apart PROVE NoSharing
  <2>1. "data" \in Threads /\ "checker" \in Threads /\ "data" # "checker"
    BY DEF Threads
  <2>2. Indexes("data") \cap Indexes("checker") = {}
    BY <1>2, <2>1 DEF Apart, Indexes
  <2> QED BY <1>2, <2>2 DEF NoSharing, Apart
<1> QED BY <1>1, <1>2

\* What the threads hold.
LEMMA HoldType ==
    ASSUME PortTypeOK, NEW u \in Threads
    PROVE  /\ hold[u] \in Seq(Frame) /\ DOMAIN hold[u] = 1 .. Len(hold[u]) /\ Len(hold[u]) \in Nat
           /\ \A k \in DOMAIN hold[u] : hold[u][k] \in Frame /\ hold[u][k].idx \in Index
<1>1. hold[u] \in Seq(Frame)
  BY DEF PortTypeOK
<1>2. DOMAIN hold[u] = 1 .. Len(hold[u]) /\ Len(hold[u]) \in Nat
  BY <1>1
<1>3. \A k \in DOMAIN hold[u] : hold[u][k] \in Frame
  BY <1>1
<1>4. \A k \in DOMAIN hold[u] : hold[u][k].idx \in Index
  BY <1>3 DEF Frame
<1> QED BY <1>1, <1>2, <1>3, <1>4

\* What a step of the threads leaves of it.
LEMMA StatusStep ==
    ASSUME PortTypeOK, NoSharing, InUse, hold' = hold, NEW i \in Index, NEW s, s # "EMPTY",
           rxbufstat' \in {rxbufstat, [rxbufstat EXCEPT ![i] = s]}
    PROVE  NoSharing' /\ InUse'
<1>1. NoSharing'
  BY SMTT(30) DEF NoSharing, Indexes
<1>2. \A j \in Index : rxbufstat'[j] = "EMPTY" => rxbufstat[j] = "EMPTY"
  BY DEF PortTypeOK
<1>3. \A t \in Threads : \A k \in DOMAIN hold[t] : hold[t][k].idx \in Index
  BY HoldType
<1> QED BY <1>1, <1>2, <1>3 DEF InUse

\* A frame with a free index is added to those of t.
LEMMA AppendStep ==
    ASSUME PortTypeOK, NoSharing, InUse, NEW t \in Threads, NEW frame \in Frame,
           rxbufstat[frame.idx] = "EMPTY",
           rxbufstat' = [rxbufstat EXCEPT ![frame.idx] = "ALLOC"],
           hold' = [hold EXCEPT ![t] = Append(hold[t], frame)]
    PROVE  NoSharing' /\ InUse'
<1>1. \A u \in Threads : /\ hold[u] \in Seq(Frame) /\ DOMAIN hold[u] = 1 .. Len(hold[u])
                         /\ Len(hold[u]) \in Nat
                         /\ \A k \in DOMAIN hold[u] : hold[u][k].idx \in Index
  BY HoldType
<1>2. frame.idx \in Index /\ rxbufstat' = [j \in Index |-> IF j = frame.idx THEN "ALLOC" ELSE rxbufstat[j]]
  BY DEF PortTypeOK, Frame
<1>3. ASSUME NEW u \in Threads
      PROVE  /\ u # t => hold'[u] = hold[u]
             /\ u = t => /\ DOMAIN hold'[u] = 1 .. Len(hold[t]) + 1
                         /\ hold'[u][Len(hold[t]) + 1] = frame
                         /\ \A k \in DOMAIN hold[u] : hold'[u][k] = hold[u][k]
  BY <1>1 DEF PortTypeOK
<1>4. \A u \in Threads : \A k \in DOMAIN hold'[u] :
         \/ k \in DOMAIN hold[u] /\ hold'[u][k] = hold[u][k]
         \/ u = t /\ k = Len(hold[t]) + 1 /\ hold'[u][k] = frame
  BY <1>1, <1>3
<1>5. \A u \in Threads : \A k \in DOMAIN hold[u] : hold[u][k].idx \in Index /\ hold[u][k].idx # frame.idx
  BY <1>1 DEF InUse
<1>6. InUse'
  BY <1>2, <1>4, <1>5 DEF InUse
<1>7. Apart'
  BY <1>4, <1>5, SharingApart DEF Apart
<1> QED BY <1>6, <1>7, SharingApart, PTL

\* t gives its first index back, and the others of its frames move up.
LEMMA ReleasedStep ==
    ASSUME PortTypeOK, NoSharing, InUse, NEW t \in Threads, pc[t] # "alloc", Released(t)
    PROVE  /\ NoSharing' /\ InUse'
           /\ \A u \in Threads : /\ u # t => hold'[u] = hold[u]
                                 /\ u = t => /\ DOMAIN hold'[u] = 1 .. Len(hold[t]) - 1
                                             /\ \A k \in DOMAIN hold'[u] : hold'[u][k] = hold[u][k + 1]
<1>1. \A u \in Threads : /\ hold[u] \in Seq(Frame) /\ DOMAIN hold[u] = 1 .. Len(hold[u])
                         /\ Len(hold[u]) \in Nat
                         /\ \A k \in DOMAIN hold[u] : hold[u][k].idx \in Index
  BY HoldType
<1>2. /\ rxbufstat' = [j \in Index |-> IF j = Current(t).idx THEN "EMPTY" ELSE rxbufstat[j]]
      /\ hold' = [hold EXCEPT ![t] = Tail(hold[t])]
  BY CurrentType DEF Released, PortTypeOK
<1>3. ASSUME NEW u \in Threads
      PROVE  /\ u # t => hold'[u] = hold[u]
             /\ u = t => /\ DOMAIN hold'[u] = 1 .. Len(hold[t]) - 1
                         /\ \A k \in DOMAIN hold'[u] : hold'[u][k] = hold[u][k + 1]
  BY <1>1, <1>2, CurrentType DEF PortTypeOK
<1>4. \A u \in Threads : \A k \in DOMAIN hold'[u] :
         LET m == IF u = t THEN k + 1 ELSE k IN m \in DOMAIN hold[u] /\ hold'[u][k] = hold[u][m]
  BY <1>1, <1>3
<1>5. \A u \in Threads : \A k \in DOMAIN hold'[u] : k \in Int
  BY <1>1, <1>3
<1>6. Apart'
  BY <1>4, <1>5, SharingApart DEF Apart
<1>7. 1 \in DOMAIN hold[t] /\ Current(t) = hold[t][1]
  BY CurrentType DEF Current
<1>8. \A u \in Threads : \A k \in DOMAIN hold'[u] : hold'[u][k].idx \in Index /\ hold'[u][k].idx # Current(t).idx
  <2>1. Apart
    BY SharingApart
  <2> SUFFICES ASSUME NEW u \in Threads, NEW k \in DOMAIN hold'[u]
               PROVE  hold'[u][k].idx \in Index /\ hold'[u][k].idx # hold[t][1].idx
    BY <1>7
  <2>2. CASE u = t
    <3>1. k + 1 \in DOMAIN hold[t] /\ hold'[u][k] = hold[t][k + 1] /\ k + 1 # 1
      BY <2>2, <1>3, <1>4
    <3> QED BY <3>1, <2>1, <1>1, <1>7 DEF Apart
  <2>3. CASE u # t
    BY <2>3, <2>1, <1>1, <1>3, <1>7 DEF Apart
  <2> QED BY <2>2, <2>3
<1>9. InUse'
  BY <1>2, <1>4, <1>8 DEF InUse
<1>10. NoSharing'
  BY <1>6, SharingApart, PTL
<1> QED BY <1>3, <1>9, <1>10

\* The frame that GetIndex prepares.
NewFrame(com) == [idx |-> NextIndex, req |-> requests + 1, com |-> com]

\* It is the one that a thread holds more.
LEMMA GetIndexFrame ==
    ASSUME PortTypeOK, requests \in 0 .. MaxRequests, NEW t \in Threads, GetIndex(t),
           NextIndex \in Index
    PROVE  \E frame \in Frame : /\ frame.idx = NextIndex
                                /\ hold' = [hold EXCEPT ![t] = Append(hold[t], frame)]
<1>1. PICK com \in Commands(t) : hold' = [hold EXCEPT ![t] = Append(hold[t], NewFrame(com))]
  BY DEF GetIndex, NewFrame
<1>2. NewFrame(com) \in Frame /\ NewFrame(com).idx = NextIndex
  BY PortAssumption DEF GetIndex, NewFrame, Frame, Coms, Commands
<1> QED BY <1>1, <1>2

\* The actions that give no index back leave every index with one holder.
LEMMA SharingStep ==
    ASSUME PortTypeOK, requests \in 0 .. MaxRequests, NoSharing, InUse, Ready,
           NEW t \in Threads, NEW i \in Index
    PROVE  /\ GetIndex(t) /\ NextIndex \in Index /\ rxbufstat[NextIndex] = "EMPTY"
                 => NoSharing' /\ InUse'
           /\ OutFrame(t) => NoSharing' /\ InUse'
           /\ TakeStored(t) => NoSharing' /\ InUse'
           /\ Receive(t) => NoSharing' /\ InUse'
           /\ Store(t) => NoSharing' /\ InUse'
           /\ UNCHANGED <<rxbufstat, hold>> => NoSharing' /\ InUse'
<1>1. ASSUME GetIndex(t), NextIndex \in Index, rxbufstat[NextIndex] = "EMPTY"
      PROVE  NoSharing' /\ InUse'
  <2>1. PICK frame \in Frame : /\ frame.idx = NextIndex
                               /\ hold' = [hold EXCEPT ![t] = Append(hold[t], frame)]
    BY <1>1, GetIndexFrame
  <2>2. rxbufstat' = [rxbufstat EXCEPT ![frame.idx] = "ALLOC"]
    BY <1>1, <2>1 DEF GetIndex
  <2> QED BY <1>1, <2>1, <2>2, AppendStep
<1>2. ASSUME OutFrame(t) PROVE NoSharing' /\ InUse'
  BY <1>2, CurrentType, StatusStep DEF OutFrame
<1>3. ASSUME TakeStored(t) PROVE NoSharing' /\ InUse'
  BY <1>3, CurrentType, StatusStep DEF TakeStored
<1>4. ASSUME Receive(t) PROVE NoSharing' /\ InUse'
  <2>1. hold' = hold /\ (\/ rxbufstat' = rxbufstat
                         \/ rxbufstat' = [rxbufstat EXCEPT ![Current(t).idx] = "COMPLETE"])
    BY <1>4 DEF Receive
  <2>2. Current(t).idx \in Index
    BY <1>4, CurrentType DEF Receive
  <2> QED BY <2>1, <2>2, StatusStep
<1>5. ASSUME Store(t) PROVE NoSharing' /\ InUse'
  <2>1. storing[2].idx \in Index
    BY <1>5 DEF Store, PortTypeOK, Frame
  <2> QED BY <1>5, <2>1, StatusStep DEF Store
<1>6. ASSUME UNCHANGED <<rxbufstat, hold>> PROVE NoSharing' /\ InUse'
  BY <1>6, StatusStep
<1> QED BY <1>1, <1>2, <1>3, <1>4, <1>5, <1>6

\* Who has given an index back has a frame to send or another to collect.
LEMMA ReadyReleased ==
    ASSUME PortTypeOK, NoSharing, InUse, Ready, NEW t \in Threads, pc[t] \in {"read", "tried"},
           Released(t), storing' = storing
    PROVE  Ready'
<1>1. /\ rxbufstat' = [j \in Index |-> IF j = Current(t).idx THEN "EMPTY" ELSE rxbufstat[j]]
      /\ hold' = [hold EXCEPT ![t] = Tail(hold[t])]
      /\ pc' = [pc EXCEPT ![t] = IF Len(hold[t]) > 1 THEN "try" ELSE "alloc"]
  BY CurrentType DEF Released, PortTypeOK, Goto
<1>2. Len(hold[t]) \in Nat \ {0} /\ Len(Tail(hold[t])) = Len(hold[t]) - 1
  BY CurrentType
<1> SUFFICES ASSUME NEW u \in Threads
             PROVE  /\ pc'[u] = "alloc" => Len(hold'[u]) < Frames(u)
                    /\ pc'[u] = "read" => rxbufstat'[hold'[u][1].idx] # "TX"
                    /\ storing' # <<Nobody>> /\ storing'[1] = u => pc'[u] = "lock"
  BY DEF Ready, Current
<1>3. CASE u = t
  <2>1. pc'[u] \in {"try", "alloc"} /\ (pc'[u] = "alloc" => Len(hold[t]) <= 1)
    BY <1>1, <1>2, <1>3 DEF PortTypeOK
  <2>2. hold'[u] = Tail(hold[t])
    BY <1>1, <1>3 DEF PortTypeOK
  <2>3. Frames(t) \in Nat /\ Frames(t) > 0
    BY PortAssumption DEF Frames
  <2>4. storing # <<Nobody>> => storing[1] # t
    BY DEF Ready
  <2> QED BY <2>1, <2>2, <2>3, <2>4, <1>2, <1>3
<1>4. CASE u # t
  <2>1. pc'[u] = pc[u] /\ hold'[u] = hold[u]
    BY <1>1, <1>4 DEF PortTypeOK
  <2>2. pc[u] = "read" => hold[u][1].idx \in Index
    BY CurrentType DEF Current
  <2> QED BY <2>1, <2>2, <1>1 DEF Ready, Current
<1> QED BY <1>3, <1>4

\* Every action leaves the threads ready.
LEMMA ReadyStep ==
    ASSUME PortTypeOK, requests \in 0 .. MaxRequests, NoSharing, InUse, Ready,
           NEW t \in Threads
    PROVE  /\ GetIndex(t) => Ready'
           /\ OutFrame(t) => Ready'
           /\ TakeStored(t) => Ready'
           /\ WaitForSocket(t) => Ready'
           /\ Receive(t) => Ready'
           /\ Store(t) => Ready'
           /\ Collect(t) => Ready'
           /\ GiveUp(t) => Ready'
           /\ Resend => Ready'
           /\ Lose => Ready'
           /\ UNCHANGED vars => Ready'
<1>1. ASSUME GetIndex(t) PROVE Ready'
  BY <1>1, HoldType DEF GetIndex, Ready, Goto, PortTypeOK, Current
<1>2. ASSUME OutFrame(t) PROVE Ready'
  <2> DEFINE n == Len(hold[t])
  <2>1. n \in 1 .. Len(hold[t]) /\ DOMAIN hold[t] = 1 .. Len(hold[t]) /\ hold[t][n].idx \in Index
    BY <1>2, CurrentType DEF OutFrame
  <2>2. /\ rxbufstat' = [j \in Index |-> IF j = hold[t][n].idx THEN "TX" ELSE rxbufstat[j]]
        /\ pc' = [pc EXCEPT ![t] = IF n < Frames(t) THEN "alloc" ELSE "try"]
        /\ hold' = hold /\ storing' = storing
    BY <1>2 DEF OutFrame, PortTypeOK, Goto
  <2> SUFFICES ASSUME NEW u \in Threads
               PROVE  /\ pc'[u] = "alloc" => Len(hold[u]) < Frames(u)
                      /\ pc'[u] = "read" => rxbufstat'[hold[u][1].idx] # "TX"
                      /\ storing # <<Nobody>> /\ storing[1] = u => pc'[u] = "lock"
    BY <2>2 DEF Ready, Current
  <2>3. CASE u = t
    <3>1. pc'[u] \in {"alloc", "try"} /\ (pc'[u] = "alloc" => n < Frames(t))
      BY <2>2, <2>3 DEF PortTypeOK
    <3>2. storing # <<Nobody>> => storing[1] # t
      BY <1>2 DEF OutFrame, Ready
    <3> QED BY <2>3, <3>1, <3>2
  <2>4. CASE u # t
    <3>1. pc'[u] = pc[u]
      BY <2>2, <2>4 DEF PortTypeOK
    <3>2. CASE pc[u] = "read"
      <4>1. /\ 1 \in DOMAIN hold[u] /\ hold[u][1].idx \in Index
            /\ rxbufstat[hold[u][1].idx] # "TX"
        BY <3>2, CurrentType DEF Ready, Current
      <4>2. hold[u][1].idx # hold[t][n].idx
        BY <4>1, <2>1, <2>4, SharingApart DEF Apart
      <4>3. storing # <<Nobody>> => storing[1] # u
        BY <3>2 DEF Ready
      <4> QED BY <3>1, <3>2, <4>1, <4>2, <4>3, <2>2
    <3>3. CASE pc[u] # "read"
      BY <3>1, <3>3 DEF Ready
    <3> QED BY <3>2, <3>3
  <2> QED BY <2>3, <2>4
<1>3. ASSUME TakeStored(t) PROVE Ready'
  BY <1>3, HoldType DEF TakeStored, Ready, Goto, PortTypeOK, Current
<1>4. ASSUME WaitForSocket(t) PROVE Ready'
  BY <1>4, HoldType DEF WaitForSocket, Ready, Goto, PortTypeOK, Current
<1>5. ASSUME Receive(t) PROVE Ready'
  BY <1>5, HoldType DEF Receive, Ready, Goto, PortTypeOK, Current
<1>6. ASSUME Store(t) PROVE Ready'
  BY <1>6, HoldType DEF Store, Ready, Goto, PortTypeOK, Current
<1>7. ASSUME Collect(t) PROVE Ready'
  BY <1>7, ReadyReleased DEF Collect
<1>8. ASSUME GiveUp(t) PROVE Ready'
  BY <1>8, ReadyReleased DEF GiveUp
<1>9. ASSUME Resend PROVE Ready'
  BY <1>9, HoldType DEF Resend, Ready, Goto, PortTypeOK, Current
<1>10. ASSUME Lose PROVE Ready'
  BY <1>10, HoldType DEF Lose, Ready, Goto, PortTypeOK, Current
<1>11. ASSUME UNCHANGED vars PROVE Ready'
  BY <1>11 DEF vars, Ready, Current
<1> QED BY <1>1, <1>2, <1>3, <1>4, <1>5, <1>6, <1>7, <1>8, <1>9, <1>10, <1>11

-----------------------------------------------------------------------------
(* The frames that are owed to nobody.                                      *)

\* What is left of a sequence without one element.
LEMMA WithoutOne ==
    ASSUME NEW S, NEW s \in Seq(S), NEW n \in DOMAIN s
    PROVE  /\ RemoveAt(s, n) \in Seq(S) /\ Len(RemoveAt(s, n)) = Len(s) - 1
           /\ \A k \in DOMAIN s : k # n => \E m \in DOMAIN RemoveAt(s, n) : RemoveAt(s, n)[m] = s[k]
<1> DEFINE r == RemoveAt(s, n)
<1>1. Len(s) \in Nat /\ DOMAIN s = 1 .. Len(s) /\ n \in 1 .. Len(s)
  OBVIOUS
<1>2. r \in Seq(S) /\ Len(r) = Len(s) - 1
  BY <1>1 DEF RemoveAt
<1>3. \A k \in 1 .. Len(s) : k < n => k \in 1 .. Len(r) /\ r[k] = s[k]
  BY <1>1 DEF RemoveAt
<1>4. \A k \in 1 .. Len(s) : k > n => k - 1 \in 1 .. Len(r) /\ r[k - 1] = s[k]
  <2> DEFINE left == SubSeq(s, 1, n - 1)
             right == SubSeq(s, n + 1, Len(s))
  <2>1. left \in Seq(S) /\ Len(left) = n - 1 /\ right \in Seq(S) /\ Len(right) = Len(s) - n
    BY <1>1
  <2>2. \A j \in 1 .. Len(s) - n : right[j] = s[n + j]
    BY <1>1
  <2> HIDE DEF left, right, r
  <2>3. \A k \in 1 .. Len(s) : k > n => k - n \in 1 .. Len(s) - n /\ (left \o right)[k - 1] = right[k - n]
    BY <1>1, <2>1
  <2>4. r = left \o right
    BY DEF RemoveAt, left, right, r
  <2>5. \A k \in 1 .. Len(s) : k > n => right[k - n] = s[k]
    BY <1>1, <2>2
  <2> SUFFICES ASSUME NEW k \in 1 .. Len(s), k > n PROVE k - 1 \in 1 .. Len(r) /\ r[k - 1] = s[k]
    OBVIOUS
  <2>6. k - 1 \in 1 .. Len(r)
    BY <1>1, <1>2
  <2> QED BY <2>3, <2>4, <2>5, <2>6
<1>5. DOMAIN r = 1 .. Len(r)
  BY <1>2
<1> HIDE DEF r
<1>6. ASSUME NEW k \in DOMAIN s, k # n PROVE \E m \in DOMAIN r : r[m] = s[k]
  <2>1. k < n \/ k > n
    BY <1>1, <1>6
  <2> QED BY <2>1, <1>1, <1>3, <1>4, <1>5
<1> QED BY <1>2, <1>6 DEF r

\* What is left of a sequence without its first element.
LEMMA WithoutHead ==
    ASSUME NEW S, NEW s \in Seq(S), s # <<>>
    PROVE  /\ Head(s) = s[1] /\ 1 \in DOMAIN s /\ Len(Tail(s)) = Len(s) - 1
           /\ \A k \in DOMAIN s : k # 1 => \E m \in DOMAIN Tail(s) : Tail(s)[m] = s[k]
<1>1. Len(s) \in Nat \ {0} /\ DOMAIN s = 1 .. Len(s) /\ Head(s) = s[1]
  OBVIOUS
<1>2. /\ Len(Tail(s)) = Len(s) - 1 /\ DOMAIN Tail(s) = 1 .. Len(s) - 1
      /\ \A m \in 1 .. Len(s) - 1 : Tail(s)[m] = s[m + 1]
  OBVIOUS
<1>3. ASSUME NEW k \in DOMAIN s, k # 1 PROVE \E m \in DOMAIN Tail(s) : Tail(s)[m] = s[k]
  <2>1. k - 1 \in DOMAIN Tail(s) /\ Tail(s)[k - 1] = s[k]
    BY <1>1, <1>2, <1>3
  <2> QED BY <2>1
<1> QED BY <1>1, <1>2, <1>3

\* The numbers that are compared.
Countable ==
    /\ Len(wire) \in Nat /\ Stored \in 0 .. 1 /\ late \in Nat
    /\ IsFiniteSet(Leaked) /\ Cardinality(Leaked) \in Nat
    /\ IsFiniteSet(Awaited) /\ Cardinality(Awaited) \in Nat

\* They are all finite.
LEMMA Sizes == PortTypeOK => Countable
<1> HAVE PortTypeOK
<1>1. Leaked \in SUBSET Index /\ Awaited \in SUBSET Index
  BY DEF Leaked, Awaited
<1>2. Len(wire) \in Nat /\ Stored \in 0 .. 1 /\ late \in Nat
  BY PortAssumption DEF PortTypeOK, Stored
<1> QED BY <1>1, <1>2, FiniteIndexes DEF Countable

\* The sum after a step, from what the step does to its parts.
LEMMA Balance ==
    ASSUME PortTypeOK, PortTypeOK', Counted, NEW a \in Int, NEW l \in Int,
           Cardinality(Awaited') >= Cardinality(Awaited) + a,
           Cardinality(Leaked') <= Cardinality(Leaked) + l,
           Len(wire') + Stored' + l - late' <= Len(wire) + Stored + a - late
    PROVE  Counted'
<1>1. Countable
  BY Sizes
<1>2. Countable'
  BY Sizes, PTL
<1>3. /\ Len(wire) \in Nat /\ Stored \in Nat /\ late \in Nat
      /\ Cardinality(Leaked) \in Nat /\ Cardinality(Awaited) \in Nat
  BY <1>1 DEF Countable
<1>4. /\ Len(wire') \in Nat /\ Stored' \in Nat /\ late' \in Nat
      /\ Cardinality(Leaked') \in Nat /\ Cardinality(Awaited') \in Nat
  BY <1>2 DEF Countable
<1>5. Len(wire') + Stored' + Cardinality(Leaked') <= late' + Cardinality(Awaited')
  <2> DEFINE n == Len(wire)   n1 == Len(wire')   m == Stored   m1 == Stored'
             c == Cardinality(Leaked)   c1 == Cardinality(Leaked')
             d == late   d1 == late'
             e == Cardinality(Awaited)   e1 == Cardinality(Awaited')
  <2>1. n \in Nat /\ m \in Nat /\ c \in Nat /\ d \in Nat /\ e \in Nat /\ n + m + c <= d + e
    BY <1>3 DEF Counted
  <2>2. /\ n1 \in Nat /\ m1 \in Nat /\ c1 \in Nat /\ d1 \in Nat /\ e1 \in Nat
        /\ e1 >= e + a /\ c1 <= c + l /\ n1 + m1 + l - d1 <= n + m + a - d
    BY <1>4
  <2> HIDE DEF n, n1, m, m1, c, c1, d, d1, e, e1
  <2>3. n1 + m1 + c1 <= d1 + e1
    BY <2>1, <2>2
  <2> QED BY <2>3 DEF n1, m1, c1, d1, e1
<1> QED BY <1>5 DEF Counted

\* What stays awaited.
LEMMA AwaitedKept ==
    ASSUME NEW x,
           \A i \in Index : rxbufstat[i] = "TX" /\ i # x => rxbufstat'[i] = "TX",
           \A e \in InFlight : e.idx # x => e \in InFlight',
           \A t \in Threads : \A k \in DOMAIN hold[t] :
               hold[t][k].idx # x /\ ~ (pc[t] = "send" /\ k = Len(hold[t])) =>
                   \E m \in DOMAIN hold'[t] : /\ hold'[t][m] = hold[t][k]
                                              /\ ~ (pc'[t] = "send" /\ m = Len(hold'[t]))
    PROVE  Awaited \ {x} \subseteq Awaited'
<1> SUFFICES ASSUME NEW i \in Awaited, i # x PROVE i \in Awaited'
  OBVIOUS
<1>1. i \in Index /\ rxbufstat[i] = "TX"
  BY DEF Awaited
<1>2. PICK t \in Threads : Expects(t, i)
  BY DEF Awaited
<1>3. PICK k \in DOMAIN hold[t] : /\ hold[t][k] \in InFlight /\ hold[t][k].idx = i
                                  /\ ~ (pc[t] = "send" /\ k = Len(hold[t]))
  BY <1>2 DEF Expects
<1>4. PICK m \in DOMAIN hold'[t] : /\ hold'[t][m] = hold[t][k]
                                   /\ ~ (pc'[t] = "send" /\ m = Len(hold'[t]))
  BY <1>3
<1>5. hold'[t][m] \in InFlight' /\ hold'[t][m].idx = i
  BY <1>3, <1>4
<1>6. Expects(t, i)'
  BY <1>4, <1>5 DEF Expects
<1> QED BY <1>1, <1>6 DEF Awaited

\* The four kinds of steps.
LEMMA NothingLost ==
    ASSUME PortTypeOK, PortTypeOK', Counted, Awaited \subseteq Awaited', Leaked' \subseteq Leaked,
           Len(wire') + Stored' - late' <= Len(wire) + Stored - late
    PROVE  Counted'
<1>1. Countable /\ Countable'
  BY Sizes, PTL
<1>2. Cardinality(Awaited) <= Cardinality(Awaited') /\ Cardinality(Leaked') <= Cardinality(Leaked)
  BY <1>1, FS_Subset DEF Countable
<1>3. Cardinality(Awaited') >= Cardinality(Awaited) + 0
  BY <1>1, <1>2 DEF Countable
<1>4. Len(wire') + Stored' + 0 - late' <= Len(wire) + Stored + 0 - late
  BY <1>1 DEF Countable
<1>5. Cardinality(Leaked') <= Cardinality(Leaked) + 0
  BY <1>1, <1>2 DEF Countable
<1> QED BY <1>3, <1>4, <1>5, Balance

\* A frame is gone, or an answer is late, and one index is awaited no more.
LEMMA OneLost ==
    ASSUME PortTypeOK, PortTypeOK', Counted, NEW x, Awaited \ {x} \subseteq Awaited', Leaked' \subseteq Leaked,
           Len(wire') + Stored' - late' <= Len(wire) + Stored - late - 1
    PROVE  Counted'
<1>1. Countable /\ Countable'
  BY Sizes, PTL
<1>2. Cardinality(Awaited) <= Cardinality(Awaited') + 1 /\ Cardinality(Leaked') <= Cardinality(Leaked)
  BY <1>1, OneFewer, FS_Subset DEF Countable
<1>3. Cardinality(Awaited') >= Cardinality(Awaited) + (-1)
  BY <1>1, <1>2, SMTT(30) DEF Countable
<1>4. Len(wire') + Stored' + 0 - late' <= Len(wire) + Stored + (-1) - late
  BY <1>1 DEF Countable
<1>5. Cardinality(Leaked') <= Cardinality(Leaked) + 0
  BY <1>1, <1>2 DEF Countable
<1> QED BY <1>3, <1>4, <1>5, Balance

\* The frame that was stored has taken a buffer that nobody holds.
LEMMA OneMoreLeaked ==
    ASSUME PortTypeOK, PortTypeOK', Counted, NEW x, Awaited \subseteq Awaited', Leaked' \ {x} \subseteq Leaked,
           Len(wire') + Stored' - late' <= Len(wire) + Stored - late - 1
    PROVE  Counted'
<1>1. Countable /\ Countable'
  BY Sizes, PTL
<1>2. Cardinality(Awaited) <= Cardinality(Awaited') /\ Cardinality(Leaked') <= Cardinality(Leaked) + 1
  BY <1>1, OneFewer, FS_Subset DEF Countable
<1>3. Cardinality(Awaited') >= Cardinality(Awaited) + 0
  BY <1>1, <1>2 DEF Countable
<1>4. Len(wire') + Stored' + 1 - late' <= Len(wire) + Stored + 0 - late
  BY <1>1, SMTT(30) DEF Countable
<1> QED BY <1>2, <1>3, <1>4, Balance

\* A frame has been sent and is awaited.
LEMMA OneMoreAwaited ==
    ASSUME PortTypeOK, PortTypeOK', Counted, NEW x, x \notin Awaited, Awaited \cup {x} \subseteq Awaited',
           Leaked' \subseteq Leaked,
           Len(wire') + Stored' - late' <= Len(wire) + Stored - late + 1
    PROVE  Counted'
<1>1. Countable /\ Countable'
  BY Sizes, PTL
<1>2. Cardinality(Awaited \cup {x}) <= Cardinality(Awaited')
  BY <1>1, FS_Subset DEF Countable
<1>3. Cardinality(Awaited \cup {x}) = Cardinality(Awaited) + 1
  BY <1>1, FS_AddElement, Zenon DEF Countable
<1>4. Cardinality(Leaked') <= Cardinality(Leaked)
  BY <1>1, FS_Subset DEF Countable
<1>5. Cardinality(Awaited') >= Cardinality(Awaited) + 1
  BY <1>1, <1>2, <1>3 DEF Countable
<1>6. Len(wire') + Stored' + 0 - late' <= Len(wire) + Stored + 1 - late
  BY <1>1 DEF Countable
<1>7. Cardinality(Leaked') <= Cardinality(Leaked) + 0
  BY <1>1, <1>4 DEF Countable
<1> QED BY <1>5, <1>6, <1>7, Balance

\* Where nothing is released or taken, and only held buffers change, none is leaked.
LEMMA LeakedKept ==
    ASSUME hold' = hold, \A j \in Index : j \notin Held => rxbufstat'[j] = rxbufstat[j]
    PROVE  Leaked' \subseteq Leaked
BY DEF Leaked, Held, Indexes

\* The index of a frame that a thread holds is held.
LEMMA CurrentHeld ==
    ASSUME PortTypeOK, NEW t \in Threads, NEW k \in DOMAIN hold[t]
    PROVE  hold[t][k].idx \in Held
BY DEF Held, Indexes

\* A new index is not awaited yet, and was not leaked.
LEMMA CountGetIndex ==
    ASSUME PortTypeOK, PortTypeOK', requests \in 0 .. MaxRequests, Counted, NEW t \in Threads,
           GetIndex(t), NextIndex \in Index, rxbufstat[NextIndex] = "EMPTY"
    PROVE  Counted'
<1>1. PICK frame \in Frame : /\ frame.idx = NextIndex
                             /\ hold' = [hold EXCEPT ![t] = Append(hold[t], frame)]
  BY GetIndexFrame
<1>2. /\ rxbufstat' = [j \in Index |-> IF j = NextIndex THEN "ALLOC" ELSE rxbufstat[j]]
      /\ pc' = [pc EXCEPT ![t] = "send"] /\ pc[t] = "alloc"
      /\ wire' = wire /\ storing' = storing /\ late' = late
  BY DEF GetIndex, Goto, PortTypeOK
<1>3. ASSUME NEW u \in Threads, NEW k \in DOMAIN hold[u]
      PROVE  /\ k \in DOMAIN hold'[u] /\ hold'[u][k] = hold[u][k]
             /\ pc'[u] = "send" /\ k = Len(hold'[u]) => pc[u] = "send" /\ k = Len(hold[u])
  <2>1. CASE u = t
    <3>1. hold'[u] = Append(hold[t], frame) /\ hold[t] \in Seq(Frame)
      BY <1>1, <2>1 DEF PortTypeOK
    <3> QED BY <3>1, <2>1
  <2>2. CASE u # t
    BY <2>2, <1>1, <1>2 DEF PortTypeOK
  <2> QED BY <2>1, <2>2
<1>4. InFlight' = InFlight /\ Stored' = Stored
  BY <1>2 DEF InFlight, Stored
<1>5. Awaited \ {NextIndex} \subseteq Awaited'
  <2>1. \A i \in Index : rxbufstat[i] = "TX" /\ i # NextIndex => rxbufstat'[i] = "TX"
    BY <1>2
  <2> QED BY <2>1, <1>3, <1>4, AwaitedKept
<1>6. NextIndex \notin Awaited
  BY DEF Awaited
<1>7. ASSUME NEW i \in Leaked' PROVE i \in Leaked
  <2>1. i \in Index /\ i \notin Held' /\ rxbufstat'[i] # "EMPTY"
    BY <1>7 DEF Leaked
  <2>2. i \notin Held
    BY <2>1, <1>3 DEF Held, Indexes
  <2>3. i # NextIndex
    <3>1. Len(hold[t]) + 1 \in DOMAIN hold'[t] /\ hold'[t][Len(hold[t]) + 1] = frame
      BY <1>1 DEF PortTypeOK
    <3>2. NextIndex \in Held'
      BY <3>1, <1>1 DEF Held, Indexes
    <3> QED BY <3>2, <2>1
  <2> QED BY <2>1, <2>2, <2>3, <1>2 DEF Leaked
<1>8. Awaited \subseteq Awaited' /\ Leaked' \subseteq Leaked
  BY <1>5, <1>6, <1>7
<1>9. Len(wire') + Stored' - late' <= Len(wire) + Stored - late
  <2>1. Countable
    BY Sizes
  <2> QED BY <2>1, <1>2, <1>4 DEF Countable
<1> QED BY <1>8, <1>9, NothingLost

\* The frame sent is awaited; it was not, before it was sent.
LEMMA CountOutFrame ==
    ASSUME PortTypeOK, PortTypeOK', NoSharing, Counted, NEW t \in Threads, OutFrame(t)
    PROVE  Counted'
<1> DEFINE n == Len(hold[t])
           frame == hold[t][n]
<1>1. n \in DOMAIN hold[t] /\ frame \in Frame /\ frame.idx \in Index /\ pc[t] = "send"
  BY CurrentType DEF OutFrame
<1>2. /\ rxbufstat' = [j \in Index |-> IF j = frame.idx THEN "TX" ELSE rxbufstat[j]]
      /\ wire' = Append(wire, frame)
      /\ hold' = hold /\ storing' = storing /\ late' = late
  BY DEF OutFrame, PortTypeOK
<1>3. pc'[t] # "send" /\ \A u \in Threads : u # t => pc'[u] = pc[u]
  BY DEF OutFrame, PortTypeOK, Goto
<1> HIDE DEF n, frame
<1>4. InFlight \subseteq InFlight' /\ frame \in InFlight'
  <2>1. /\ \A k \in DOMAIN wire : k \in DOMAIN wire' /\ wire'[k] = wire[k]
        /\ Len(wire) + 1 \in DOMAIN wire' /\ wire'[Len(wire) + 1] = frame
    BY <1>1, <1>2 DEF PortTypeOK
  <2> QED BY <2>1, <1>2 DEF InFlight
<1>5. Awaited \ {frame.idx} \subseteq Awaited'
  BY <1>2, <1>3, <1>4, AwaitedKept
<1>6. frame.idx \in Awaited'
  <2> SUFFICES ASSUME NEW i, i = frame.idx PROVE i \in Awaited'
    OBVIOUS
  <2>1. PICK k \in DOMAIN hold'[t] : hold'[t][k] \in InFlight' /\ hold'[t][k].idx = i
    BY <1>1, <1>2, <1>4 DEF frame
  <2>2. Expects(t, i)'
    BY <2>1, <1>3 DEF Expects
  <2> QED BY <2>2, <1>1, <1>2 DEF Awaited
<1>7. frame.idx \notin Awaited
  <2> SUFFICES ASSUME NEW u \in Threads, Expects(u, frame.idx) PROVE FALSE
    BY DEF Awaited
  <2>1. PICK k \in DOMAIN hold[u] : /\ hold[u][k].idx = frame.idx
                                    /\ ~ (pc[u] = "send" /\ k = Len(hold[u]))
    BY DEF Expects
  <2>2. u = t /\ k = n
    BY <2>1, <1>1, SharingApart DEF Apart, frame
  <2> QED BY <2>1, <2>2, <1>1 DEF n
<1>8. Leaked' \subseteq Leaked
  <2>1. frame.idx \in Held
    BY <1>1, CurrentHeld DEF frame
  <2> QED BY <2>1, <1>2, LeakedKept
<1>9. Len(wire') + Stored' - late' <= Len(wire) + Stored - late + 1
  <2>1. Countable /\ Len(wire') = Len(wire) + 1 /\ Stored' = Stored
    BY <1>1, <1>2, Sizes DEF PortTypeOK, Stored
  <2> QED BY <2>1, <1>2 DEF Countable
<1> QED BY <1>5, <1>6, <1>7, <1>8, <1>9, OneMoreAwaited

\* A step of the thread t that keeps what it holds and does not send.
LEMMA AwaitedSame ==
    ASSUME NEW x, hold' = hold, \A u \in Threads : pc'[u] = "send" => pc[u] = "send",
           \A i \in Index : rxbufstat[i] = "TX" /\ i # x => rxbufstat'[i] = "TX",
           \A e \in InFlight : e.idx # x => e \in InFlight'
    PROVE  Awaited \ {x} \subseteq Awaited'
BY AwaitedKept

\* A step that changes no status and loses no frame.
LEMMA AwaitedAll ==
    ASSUME hold' = hold, \A u \in Threads : pc'[u] = "send" => pc[u] = "send",
           rxbufstat' = rxbufstat, \A e \in InFlight : e \in InFlight'
    PROVE  Awaited \subseteq Awaited'
<1>1. \A i : \A u \in Threads : Expects(u, i) => Expects(u, i)'
  BY DEF Expects
<1> QED BY <1>1 DEF Awaited

\* The answer that t takes was awaited no more.
LEMMA CountTakeStored ==
    ASSUME PortTypeOK, PortTypeOK', Counted, NEW t \in Threads, TakeStored(t)
    PROVE  Counted'
<1> DEFINE x == Current(t).idx
<1>1. x \in Index /\ x \in Held
  BY CurrentType, CurrentHeld DEF TakeStored, Current
<1>2. /\ rxbufstat' = [j \in Index |-> IF j = x THEN "COMPLETE" ELSE rxbufstat[j]]
      /\ rxbufstat[x] = "RCVD"
      /\ wire' = wire /\ hold' = hold /\ storing' = storing /\ late' = late
  BY DEF TakeStored, PortTypeOK
<1>3. \A u \in Threads : pc'[u] = "send" => pc[u] = "send"
  BY DEF TakeStored, PortTypeOK, Goto
<1> HIDE DEF x
<1>4. InFlight' = InFlight /\ Stored' = Stored
  BY <1>2 DEF InFlight, Stored
<1>5. Awaited \ {x} \subseteq Awaited'
  BY <1>2, <1>3, <1>4, AwaitedSame
<1>6. x \notin Awaited
  BY <1>2 DEF Awaited
<1>7. Leaked' \subseteq Leaked
  BY <1>1, <1>2, LeakedKept
<1>8. Len(wire') + Stored' - late' <= Len(wire) + Stored - late
  BY <1>2, <1>4, Sizes DEF Countable
<1> QED BY <1>5, <1>6, <1>7, <1>8, NothingLost

\* Waiting changes nothing.
LEMMA CountWaitForSocket ==
    ASSUME PortTypeOK, PortTypeOK', Counted, NEW t \in Threads, WaitForSocket(t)
    PROVE  Counted'
<1>1. /\ wire' = wire /\ hold' = hold /\ storing' = storing /\ late' = late /\ rxbufstat' = rxbufstat
      /\ \A u \in Threads : pc'[u] = "send" => pc[u] = "send"
  BY DEF WaitForSocket, PortTypeOK, Goto
<1>2. InFlight' = InFlight /\ Stored' = Stored /\ Leaked' = Leaked
  BY <1>1 DEF InFlight, Stored, Leaked, Held, Indexes
<1>3. Awaited \subseteq Awaited'
  BY <1>1, <1>2, AwaitedAll
<1>4. Len(wire') + Stored' - late' <= Len(wire) + Stored - late
  BY <1>1, <1>2, Sizes DEF Countable
<1> QED BY <1>2, <1>3, <1>4, NothingLost

\* A frame taken off the wire is stored, kept for the other, or dropped.
LEMMA CountReceive ==
    ASSUME PortTypeOK, PortTypeOK', Counted, NEW t \in Threads, Receive(t)
    PROVE  Counted'
<1>1. /\ hold' = hold /\ late' = late /\ storing = <<Nobody>>
      /\ \A u \in Threads : pc'[u] = "send" => pc[u] = "send"
  BY DEF Receive, PortTypeOK, Goto
<1>2. CASE UNCHANGED <<rxbufstat, rxbuf, wire, storing>>
  <2>1. InFlight' = InFlight /\ Stored' = Stored /\ Leaked' = Leaked
    BY <1>1, <1>2 DEF InFlight, Stored, Leaked, Held, Indexes
  <2>2. Awaited \subseteq Awaited'
    BY <1>1, <1>2, <2>1, AwaitedAll
  <2>3. Len(wire') + Stored' - late' <= Len(wire) + Stored - late
    BY <1>1, <1>2, <2>1, Sizes DEF Countable
  <2> QED BY <2>1, <2>2, <2>3, NothingLost
<1>3. CASE wire # <<>> /\ wire' = Tail(wire)
  <2> DEFINE frame == Head(wire)
             x == frame.idx
  <2>1. /\ frame = wire[1] /\ 1 \in DOMAIN wire /\ Len(wire') = Len(wire) - 1
        /\ \A k \in DOMAIN wire : k # 1 => \E m \in DOMAIN wire' : wire'[m] = wire[k]
    BY <1>3, WithoutHead DEF PortTypeOK
  <2>2. Len(wire) \in Nat /\ Stored = 0 /\ late \in Nat
    BY <1>1, Sizes DEF Countable, Stored
  <2>3. CASE rxbufstat' = rxbufstat /\ storing' = <<t, frame>>
    <3>1. \A e \in InFlight : e \in InFlight'
      <4>1. storing' # <<Nobody>> /\ storing'[2] = frame
        BY <2>3
      <4> QED BY <4>1, <2>1, <1>1 DEF InFlight
    <3>2. Leaked' = Leaked
      BY <1>1, <2>3 DEF Leaked, Held, Indexes
    <3>3. Awaited \subseteq Awaited'
      BY <1>1, <2>3, <3>1, AwaitedAll
    <3>4. Stored' <= 1 /\ Stored' \in Nat
      BY DEF Stored
    <3>5. Len(wire') + Stored' - late' <= Len(wire) + Stored - late
      BY <1>1, <2>1, <2>2, <3>4
    <3> QED BY <3>2, <3>3, <3>5, NothingLost
  <2>4. CASE /\ storing' = storing
             /\ \/ rxbufstat' = rxbufstat
                \/ x = Current(t).idx /\ rxbufstat' = [rxbufstat EXCEPT ![x] = "COMPLETE"]
    <3>1. \A e \in InFlight : e = frame \/ e \in InFlight'
      BY <2>1, <2>4 DEF InFlight
    <3>2. \A i \in Index : i # x => rxbufstat'[i] = rxbufstat[i]
      BY <2>4 DEF PortTypeOK
    <3> HIDE DEF frame
    <3>3. Awaited \ {x} \subseteq Awaited'
      BY <1>1, <3>1, <3>2, AwaitedSame
    <3>4. Current(t).idx \in Held
      BY CurrentType, CurrentHeld DEF Receive, Current
    <3>5. Leaked' \subseteq Leaked
      BY <1>1, <2>4, <3>2, <3>4, LeakedKept
    <3>6. Stored' = 0
      BY <1>1, <2>4 DEF Stored
    <3>7. Len(wire') + Stored' - late' <= Len(wire) + Stored - late - 1
      BY <1>1, <2>1, <2>2, <3>6
    <3> QED BY <3>3, <3>5, <3>7, OneLost
  <2> QED BY <1>1, <1>3, <2>3, <2>4 DEF Receive
<1> QED BY <1>2, <1>3 DEF Receive

\* The buffer stored into is held, and awaited no more; or it is leaked.
LEMMA CountStore ==
    ASSUME PortTypeOK, PortTypeOK', Counted, NEW t \in Threads, Store(t)
    PROVE  Counted'
<1> DEFINE frame == storing[2]
           x == frame.idx
<1>1. x \in Index
  BY DEF Store, PortTypeOK, Frame
<1>2. /\ rxbufstat' = [rxbufstat EXCEPT ![x] = "RCVD"]
      /\ wire' = wire /\ hold' = hold /\ late' = late
      /\ storing # <<Nobody>> /\ storing' = <<Nobody>>
      /\ \A u \in Threads : pc'[u] = "send" => pc[u] = "send"
  BY DEF Store, PortTypeOK, Goto
<1>3. \A i \in Index : i # x => rxbufstat'[i] = rxbufstat[i]
  BY <1>2 DEF PortTypeOK
<1>4. \A e \in InFlight : e.idx # x => e \in InFlight'
  BY <1>2 DEF InFlight
<1>5. Awaited \ {x} \subseteq Awaited'
  BY <1>2, <1>3, <1>4, AwaitedSame
<1>6. Len(wire') + Stored' - late' <= Len(wire) + Stored - late - 1
  <2>1. Stored = 1 /\ Stored' = 0
    BY <1>2 DEF Stored
  <2> QED BY <1>2, <2>1, Sizes DEF Countable
<1> HIDE DEF frame, x
<1>7. CASE x \in Held
  <2>1. Leaked' \subseteq Leaked
    BY <1>2, <1>3, <1>7, LeakedKept
  <2> QED BY <1>5, <1>6, <2>1, OneLost
<1>8. CASE x \notin Held
  <2>1. x \notin Awaited
    BY <1>8 DEF Awaited, Expects, Held, Indexes
  <2>2. Leaked' \ {x} \subseteq Leaked
    BY <1>2, <1>3 DEF Leaked, Held, Indexes
  <2> QED BY <1>5, <1>6, <2>1, <2>2, OneMoreLeaked
<1> QED BY <1>7, <1>8

\* A lost frame leaves one index without an answer.
LEMMA CountLose ==
    ASSUME PortTypeOK, PortTypeOK', Counted, Lose
    PROVE  Counted'
<1>1. PICK n \in DOMAIN wire : wire' = RemoveAt(wire, n)
  BY DEF Lose
<1>2. hold' = hold /\ late' = late /\ storing' = storing /\ pc' = pc /\ rxbufstat' = rxbufstat
  BY DEF Lose
<1>3. /\ Len(wire') = Len(wire) - 1
      /\ \A k \in DOMAIN wire : k # n => \E m \in DOMAIN wire' : wire'[m] = wire[k]
  BY <1>1, WithoutOne DEF PortTypeOK
<1> DEFINE x == wire[n].idx
<1>4. \A e \in InFlight : e = wire[n] \/ e \in InFlight'
  BY <1>2, <1>3 DEF InFlight
<1>5. Awaited \ {x} \subseteq Awaited'
  BY <1>2, <1>4, AwaitedSame
<1>6. Leaked' = Leaked /\ Stored' = Stored
  BY <1>2 DEF Leaked, Held, Indexes, Stored
<1>7. Len(wire') + Stored' - late' <= Len(wire) + Stored - late - 1
  BY <1>2, <1>3, <1>6, Sizes DEF Countable
<1> HIDE DEF x
<1> QED BY <1>5, <1>6, <1>7, OneLost

\* The first index of a thread is awaited only when its answer is under way.
LEMMA AwaitedCurrent ==
    ASSUME PortTypeOK, NoSharing, NEW t \in Threads, pc[t] # "alloc",
           Current(t).idx \in Awaited
    PROVE  Underway(t) /\ rxbufstat[Current(t).idx] = "TX"
<1>1. PICK u \in Threads : Expects(u, Current(t).idx)
  BY DEF Awaited
<1>2. PICK k \in DOMAIN hold[u] : hold[u][k] \in InFlight /\ hold[u][k].idx = Current(t).idx
  BY <1>1 DEF Expects
<1>3. u = t /\ k = 1
  <2>1. 1 \in DOMAIN hold[t]
    BY CurrentType
  <2> QED BY <1>2, <2>1, SharingApart DEF Apart, Current
<1>4. Current(t) \in InFlight
  BY <1>2, <1>3 DEF Current
<1> QED BY <1>4 DEF Underway, InFlight, Awaited

\* The step of a thread that waits no longer for its first index x, as in GiveUp and
\* Resend.
LEMMA CountPatience ==
    ASSUME PortTypeOK, PortTypeOK', NoSharing, Counted, NEW t \in Threads, pc[t] # "alloc",
           Awaited \ {Current(t).idx} \subseteq Awaited', Leaked' \subseteq Leaked,
           wire' = wire, storing' = storing,
           late' = IF Underway(t) THEN late + 1 ELSE late
    PROVE  Counted'
<1>1. Stored' = Stored
  BY DEF Stored
<1>2. CASE Underway(t)
  <2>1. Len(wire') + Stored' - late' <= Len(wire) + Stored - late - 1
    BY <1>1, <1>2, Sizes DEF Countable
  <2> QED BY <2>1, OneLost
<1>3. CASE ~ Underway(t)
  <2>1. Awaited \subseteq Awaited'
    BY <1>3, AwaitedCurrent
  <2>2. Len(wire') + Stored' - late' <= Len(wire) + Stored - late
    BY <1>1, <1>3, Sizes DEF Countable
  <2> QED BY <2>1, <2>2, NothingLost
<1> QED BY <1>2, <1>3

\* The index sent again is awaited no more, until the frame has left.
LEMMA CountResend ==
    ASSUME PortTypeOK, PortTypeOK', NoSharing, Counted, Resend
    PROVE  Counted'
<1> DEFINE t == "checker"
           x == Current(t).idx
<1>1. /\ pc[t] = "tried" /\ pc' = [pc EXCEPT ![t] = "send"] /\ t \in Threads
      /\ wire' = wire /\ storing' = storing /\ hold' = hold /\ rxbufstat' = rxbufstat
      /\ late' = IF Underway(t) THEN late + 1 ELSE late
  BY DEF Resend, Goto, Patience, Threads
<1>2. InFlight' = InFlight /\ Leaked' = Leaked
  BY <1>1 DEF InFlight, Leaked, Held, Indexes
<1>3. \A k \in DOMAIN hold[t] : k = 1 /\ hold[t][k].idx = x
  <2>1. Len(hold[t]) <= 1 /\ Len(hold[t]) \in Nat /\ DOMAIN hold[t] = 1 .. Len(hold[t])
    BY <1>1, CurrentType DEF PortTypeOK, Frames
  <2> QED BY <2>1 DEF Current
<1>4. \A u \in Threads : u # t => pc'[u] = pc[u]
  BY <1>1 DEF PortTypeOK
<1> HIDE DEF t
<1>5. Awaited \ {x} \subseteq Awaited'
  BY <1>1, <1>2, <1>3, <1>4, AwaitedKept, ZenonT(60)
<1> QED BY <1>1, <1>2, <1>5, CountPatience

\* Giving an index back leaves what is awaited at the others, and leaks nothing.
LEMMA CountReleased ==
    ASSUME PortTypeOK, NoSharing, InUse, NEW t \in Threads, pc[t] # "alloc", Released(t),
           wire' = wire, storing' = storing
    PROVE  Awaited \ {Current(t).idx} \subseteq Awaited' /\ Leaked' \subseteq Leaked
<1> DEFINE x == Current(t).idx
<1>1. /\ x \in Index
      /\ rxbufstat' = [j \in Index |-> IF j = x THEN "EMPTY" ELSE rxbufstat[j]]
      /\ \A u \in Threads : u # t => pc'[u] = pc[u]
      /\ pc'[t] # "send"
  BY CurrentType DEF Released, PortTypeOK, Goto
<1>2. \A u \in Threads : /\ u # t => hold'[u] = hold[u]
                         /\ u = t => /\ DOMAIN hold'[u] = 1 .. Len(hold[t]) - 1
                                     /\ \A k \in DOMAIN hold'[u] : hold'[u][k] = hold[u][k + 1]
  BY ReleasedStep
<1>3. DOMAIN hold[t] = 1 .. Len(hold[t]) /\ Len(hold[t]) \in Nat \ {0} /\ hold[t][1].idx = x
  BY CurrentType DEF Current
<1>4. InFlight' = InFlight
  BY DEF InFlight
<1> HIDE DEF x
<1>5. ASSUME NEW k \in DOMAIN hold[t], hold[t][k].idx # x
      PROVE  \E m \in DOMAIN hold'[t] : hold'[t][m] = hold[t][k]
  <2>1. k # 1
    BY <1>3, <1>5
  <2>2. k - 1 \in DOMAIN hold'[t] /\ hold'[t][k - 1] = hold[t][k]
    BY <2>1, <1>2, <1>3
  <2> QED BY <2>2
<1>6. Awaited \ {x} \subseteq Awaited'
  BY <1>1, <1>2, <1>4, <1>5, AwaitedKept, ZenonT(60)
<1>7. ASSUME NEW i \in Leaked' PROVE i \in Leaked
  <2>1. i \in Index /\ i \notin Held' /\ rxbufstat'[i] # "EMPTY"
    BY <1>7 DEF Leaked
  <2>2. i # x /\ rxbufstat[i] # "EMPTY"
    BY <2>1, <1>1
  <2>3. i \notin Held
    BY <2>1, <2>2, <1>2, <1>5 DEF Held, Indexes
  <2> QED BY <2>1, <2>2, <2>3 DEF Leaked
<1> QED BY <1>6, <1>7 DEF x

\* An index that is collected was awaited no more.
LEMMA CountCollect ==
    ASSUME PortTypeOK, PortTypeOK', NoSharing, InUse, Ready, Counted, NEW t \in Threads, Collect(t)
    PROVE  Counted'
<1>1. /\ pc[t] = "read" /\ Released(t) /\ wire' = wire /\ storing' = storing /\ late' = late
      /\ rxbufstat[Current(t).idx] # "TX"
  BY DEF Collect, Ready
<1>2. Awaited \subseteq Awaited' /\ Leaked' \subseteq Leaked
  BY <1>1, CountReleased DEF Awaited
<1>3. Len(wire') + Stored' - late' <= Len(wire) + Stored - late
  BY <1>1, Sizes DEF Countable, Stored
<1> QED BY <1>2, <1>3, NothingLost

\* An index that is given up was awaited, and its answer is late, or it was not.
LEMMA CountGiveUp ==
    ASSUME PortTypeOK, PortTypeOK', NoSharing, InUse, Counted, NEW t \in Threads, GiveUp(t)
    PROVE  Counted'
<1>1. /\ pc[t] = "tried" /\ Released(t) /\ wire' = wire /\ storing' = storing
      /\ late' = IF Underway(t) THEN late + 1 ELSE late
  BY DEF GiveUp, Patience
<1> QED BY <1>1, CountReleased, CountPatience

-----------------------------------------------------------------------------
(* There is a free index for who asks.                                      *)

\* Every awaited index has a frame of its own under way.
LEMMA AwaitedBound ==
    ASSUME PortTypeOK
    PROVE  Cardinality(Awaited) <= Len(wire) + Stored
<1> DEFINE n == Len(wire) + Stored
           f == [k \in 1 .. n |-> IF k <= Len(wire) THEN wire[k].idx ELSE storing[2].idx]
           T == {f[k] : k \in 1 .. n}
<1>1. Len(wire) \in Nat /\ Stored \in 0 .. 1 /\ DOMAIN wire = 1 .. Len(wire)
  BY Sizes DEF Countable, PortTypeOK
<1>2. n \in Nat
  BY <1>1
<1>3. IsFiniteSet(T) /\ Cardinality(T) <= n
  <2>1. IsFiniteSet(1 .. n) /\ Cardinality(1 .. n) = n
    BY <1>2, FS_Interval
  <2> HIDE DEF n, f
  <2> QED BY <2>1, Places
<1>4. ASSUME NEW i \in Awaited PROVE i \in T
  <2>1. PICK e \in InFlight : e.idx = i
    BY DEF Awaited, Expects
  <2>2. CASE \E k \in DOMAIN wire : e = wire[k]
    <3>1. PICK k \in 1 .. Len(wire) : e = wire[k]
      BY <2>2, <1>1
    <3>2. k \in 1 .. n /\ f[k] = i
      BY <3>1, <2>1, <1>1
    <3> QED BY <3>2
  <2>3. CASE storing # <<Nobody>> /\ e = storing[2]
    <3>1. Stored = 1
      BY <2>3 DEF Stored
    <3>2. n \in 1 .. n /\ f[n] = i
      BY <3>1, <2>1, <2>3, <1>1
    <3> QED BY <3>2
  <2> QED BY <2>2, <2>3 DEF InFlight
<1>5. Cardinality(Awaited) <= Cardinality(T)
  BY <1>3, <1>4, FS_Subset
<1>6. Cardinality(T) \in Nat /\ Cardinality(Awaited) \in Nat
  BY <1>3, FS_CardinalityType, Sizes DEF Countable
<1> HIDE DEF n, T
<1> QED BY <1>2, <1>3, <1>5, <1>6 DEF n

\* There are no more leaked buffers than late answers.
LEMMA FewLeaked == PortTypeOK /\ Counted => LeaksAreLate
<1> SUFFICES ASSUME PortTypeOK, Counted PROVE Cardinality(Leaked) <= late
  BY DEF LeaksAreLate
<1> QED BY AwaitedBound, Sizes DEF Counted, Countable

\* When a thread asks for an index, the two hold fewer than they may.
LEMMA FewHeld ==
    ASSUME PortTypeOK, Ready, NEW t \in Threads, pc[t] = "alloc"
    PROVE  IsFiniteSet(Held) /\ Cardinality(Held) <= Segments
<1> DEFINE a == Len(hold["data"])
           b == Len(hold["checker"])
           n == a + b
           f == [k \in 1 .. n |-> IF k <= a THEN hold["data"][k].idx ELSE hold["checker"][k - a].idx]
           T == {f[k] : k \in 1 .. n}
<1>1. /\ a \in Nat /\ DOMAIN hold["data"] = 1 .. a /\ a <= Segments
      /\ b \in Nat /\ DOMAIN hold["checker"] = 1 .. b /\ b <= 1
      /\ "data" \in Threads /\ "checker" \in Threads
  BY HoldType DEF PortTypeOK, Threads, Frames
<1>2. a < Segments \/ b < 1
  BY DEF Ready, Frames, Threads
<1>3. \A i \in Held : \/ \E k \in 1 .. a : hold["data"][k].idx = i
                      \/ \E k \in 1 .. b : hold["checker"][k].idx = i
  <2> TAKE i \in Held
  <2>1. PICK u \in Threads : \E k \in DOMAIN hold[u] : hold[u][k].idx = i
    BY DEF Held, Indexes
  <2>2. u = "data" \/ u = "checker"
    BY DEF Threads
  <2> QED BY <2>1, <2>2, <1>1
<1> HIDE DEF a, b
<1>4. n \in Nat /\ n <= Segments
  BY <1>1, <1>2, PortAssumption
<1>5. ASSUME NEW i \in Held PROVE i \in T
  <2>1. CASE \E k \in 1 .. a : hold["data"][k].idx = i
    <3>1. PICK k \in 1 .. a : hold["data"][k].idx = i
      BY <2>1
    <3>2. k \in 1 .. n /\ f[k] = i
      BY <1>1, <3>1
    <3> QED BY <3>2
  <2>2. CASE \E k \in 1 .. b : hold["checker"][k].idx = i
    <3>1. PICK k \in 1 .. b : hold["checker"][k].idx = i
      BY <2>2
    <3>2. a + k \in 1 .. n /\ ~ (a + k <= a) /\ (a + k) - a = k
      BY <1>1
    <3>3. f[a + k] = i
      BY <3>1, <3>2
    <3> QED BY <3>2, <3>3
  <2> QED BY <1>3, <2>1, <2>2
<1>6. IsFiniteSet(T) /\ Cardinality(T) <= n
  <2>1. IsFiniteSet(1 .. n) /\ Cardinality(1 .. n) = n
    BY <1>4, FS_Interval
  <2> HIDE DEF n, f
  <2> QED BY <2>1, Places
<1> HIDE DEF n, T
<1>7. IsFiniteSet(Held) /\ Cardinality(Held) <= Cardinality(T)
  BY <1>5, <1>6, FS_Subset
<1>8. Cardinality(T) \in Nat /\ Cardinality(Held) \in Nat
  BY <1>6, <1>7, FS_CardinalityType
<1> QED BY <1>4, <1>6, <1>7, <1>8, PortAssumption

\* There are more buffers than frames that may wait for an answer and answers that may be
\* late.
Room == Segments + MaxLate < EC_MAXBUF

\* Who asks for an index finds a free buffer.
LEMMA FreeIndex ==
    ASSUME Room, PortTypeOK, Ready, Counted, NEW t \in Threads, pc[t] = "alloc"
    PROVE  \E i \in Index : rxbufstat[i] = "EMPTY"
<1> SUFFICES ASSUME \A i \in Index : rxbufstat[i] # "EMPTY" PROVE FALSE
  OBVIOUS
<1>1. Index \subseteq Held \cup Leaked
  BY DEF Leaked
<1>2. /\ IsFiniteSet(Held) /\ IsFiniteSet(Leaked)
      /\ Cardinality(Held) <= Segments /\ Cardinality(Index) = EC_MAXBUF
  <2>1. Cardinality(Index) = EC_MAXBUF
    BY FS_Interval, PortAssumption DEF Index
  <2> QED BY <2>1, FewHeld, Sizes DEF Countable
<1>3. IsFiniteSet(Held \cup Leaked)
      /\ Cardinality(Held \cup Leaked) = Cardinality(Held) + Cardinality(Leaked) - Cardinality(Held \cap Leaked)
  BY <1>2, FS_Union
<1>4. Cardinality(Index) <= Cardinality(Held \cup Leaked)
  BY <1>1, <1>3, FS_Subset
<1>5. Cardinality(Held) \in Nat /\ Cardinality(Leaked) \in Nat /\ Cardinality(Held \cap Leaked) \in Nat
  <2>1. IsFiniteSet(Held \cap Leaked)
    BY <1>2, FS_Subset
  <2> QED BY <1>2, <2>1, FS_CardinalityType
<1>6. Cardinality(Leaked) <= late /\ late <= MaxLate /\ late \in Nat
  BY FewLeaked, PortAssumption DEF LeaksAreLate, PortTypeOK
<1> QED BY <1>2, <1>3, <1>4, <1>5, <1>6, PortAssumption DEF Room

-----------------------------------------------------------------------------
(* Every step keeps the invariant.                                          *)

\* The port starts with the invariant.
LEMMA PortInit == Init => PortInv
<1> HAVE Init
<1> USE PortAssumption
<1>1. PortTypeOK
  BY DEF Init, PortTypeOK, Index, Threads, Frames, Nobody
<1>2. NoSharing /\ InUse
  BY DEF Init, NoSharing, InUse, Indexes, Threads
<1>3. Ready
  BY DEF Init, Ready, Threads, Frames
<1>4. Counted
  <2>1. Leaked = {}
    BY DEF Init, Leaked
  <2>2. Len(wire) = 0 /\ Stored = 0 /\ late = 0
    BY DEF Init, Stored
  <2> QED BY <1>1, <2>1, <2>2, Sizes, FS_EmptySet DEF Counted, Countable
<1> QED BY <1>1, <1>2, <1>3, <1>4 DEF Init, PortInv

\* Every step keeps the invariant.
LEMMA PortStep ==
    ASSUME Room, PortInv, [Next]_vars
    PROVE  PortInv'
<1> USE DEF PortInv
<1>0. 0 \in Index
  BY PortAssumption DEF Index
<1>1. ASSUME NEW t \in Threads, GetIndex(t) PROVE PortInv'
  <2>1. \E i \in Index : rxbufstat[i] = "EMPTY"
    BY <1>1, FreeIndex DEF GetIndex
  <2>2. NextIndex \in Index /\ rxbufstat[NextIndex] = "EMPTY"
    BY <2>1, NextIsFree
  <2>3. PortTypeOK' /\ requests' \in 0 .. MaxRequests
    BY <1>0, <1>1, <2>2, TypeStep
  <2>4. NoSharing' /\ InUse' /\ Ready'
    BY <1>0, <1>1, <2>2, SharingStep, ReadyStep
  <2>5. Counted'
    BY <1>1, <2>2, <2>3, CountGetIndex
  <2> QED BY <2>3, <2>4, <2>5
<1>2. ASSUME NEW t \in Threads, OutFrame(t) PROVE PortInv'
  <2>1. requests' = requests
    BY <1>2 DEF OutFrame
  <2> QED BY <1>0, <1>2, <2>1, TypeStep, SharingStep, ReadyStep, CountOutFrame
<1>3. ASSUME NEW t \in Threads, TakeStored(t) PROVE PortInv'
  <2>1. requests' = requests
    BY <1>3 DEF TakeStored
  <2> QED BY <1>0, <1>3, <2>1, TypeStep, SharingStep, ReadyStep, CountTakeStored
<1>4. ASSUME NEW t \in Threads, WaitForSocket(t) PROVE PortInv'
  <2>1. requests' = requests /\ UNCHANGED <<rxbufstat, hold>>
    BY <1>4 DEF WaitForSocket
  <2> QED BY <1>0, <1>4, <2>1, TypeStep, SharingStep, ReadyStep, CountWaitForSocket
<1>5. ASSUME NEW t \in Threads, Receive(t) PROVE PortInv'
  <2>1. requests' = requests
    BY <1>5 DEF Receive
  <2> QED BY <1>0, <1>5, <2>1, TypeStep, SharingStep, ReadyStep, CountReceive
<1>6. ASSUME NEW t \in Threads, Store(t) PROVE PortInv'
  <2>1. requests' = requests
    BY <1>6 DEF Store
  <2> QED BY <1>0, <1>6, <2>1, TypeStep, SharingStep, ReadyStep, CountStore
<1>7. ASSUME NEW t \in Threads, Collect(t) PROVE PortInv'
  <2>1. requests' = requests /\ pc[t] # "alloc" /\ Released(t)
    BY <1>7 DEF Collect
  <2> QED BY <1>0, <1>7, <2>1, TypeStep, ReleasedStep, ReadyStep, CountCollect
<1>8. ASSUME NEW t \in Threads, GiveUp(t) PROVE PortInv'
  <2>1. requests' = requests /\ pc[t] # "alloc" /\ Released(t)
    BY <1>8 DEF GiveUp
  <2> QED BY <1>0, <1>8, <2>1, TypeStep, ReleasedStep, ReadyStep, CountGiveUp
<1>9. ASSUME Resend PROVE PortInv'
  <2>1. requests' = requests /\ UNCHANGED <<rxbufstat, hold>> /\ "data" \in Threads
    BY <1>9 DEF Resend, Threads
  <2> QED BY <1>0, <1>9, <2>1, TypeStep, SharingStep, ReadyStep, CountResend
<1>10. ASSUME Lose PROVE PortInv'
  <2>1. requests' = requests /\ UNCHANGED <<rxbufstat, hold>> /\ "data" \in Threads
    BY <1>10 DEF Lose, Threads
  <2> QED BY <1>0, <1>10, <2>1, TypeStep, SharingStep, ReadyStep, CountLose
<1>11. ASSUME UNCHANGED vars PROVE PortInv'
  <2>1. PortTypeOK' /\ requests' \in 0 .. MaxRequests
    BY <1>11 DEF vars, PortTypeOK
  <2>2. NoSharing' /\ InUse' /\ Ready'
    <3>1. UNCHANGED <<rxbufstat, hold>> /\ "data" \in Threads
      BY <1>11 DEF vars, Threads
    <3> QED BY <1>0, <1>11, <3>1, SharingStep, ReadyStep
  <2>3. Counted'
    BY <1>11 DEF vars, Counted, Stored, Leaked, Held, Indexes, Awaited, Expects, InFlight
  <2> QED BY <2>1, <2>2, <2>3
<1> QED
  BY <1>1, <1>2, <1>3, <1>4, <1>5, <1>6, <1>7, <1>8, <1>9, <1>10, <1>11 DEF Next

\* The invariant holds as long as there is room.
LEMMA PortInvariant == ASSUME Room PROVE Spec => []PortInv
<1>1. PortInv /\ [Next]_vars => PortInv'
  BY PortStep
<1> QED BY <1>1, PortInit, PTL DEF Spec

-----------------------------------------------------------------------------
(* Whose answers.                                                           *)

\* What was collected last, and what waits in the buffers, is the answer to the request
\* it is held for, as long as no answer was late.
Collected ==
    \A t \in Threads : pc[t] = "read" => rxbufstat[Current(t).idx] \in {"RCVD", "COMPLETE"}
Own ==
    late = 0 =>
        /\ answer.of = answer.by
        /\ \A t \in Threads : \A k \in DOMAIN hold[t] :
              rxbufstat[hold[t][k].idx] \in {"RCVD", "COMPLETE"} =>
                  rxbuf[hold[t][k].idx] = Request(hold[t][k])

\* A frame under way that no thread holds has come late, and not to one of the buffers that
\* are lost: without it there would be one frame less than the awaited indexes need.
LEMMA StrayIsLate ==
    ASSUME PortTypeOK, Counted, NEW e \in InFlight,
           \A t \in Threads : \A k \in DOMAIN hold[t] : hold[t][k] # e
    PROVE  Cardinality(Leaked) + 1 <= late
<1> DEFINE n == Len(wire) + Stored
           F == [k \in 1 .. n |-> IF k <= Len(wire) THEN wire[k] ELSE storing[2]]
           f == [k \in 1 .. n |-> F[k].idx]
<1>1. Len(wire) \in Nat /\ Stored \in 0 .. 1 /\ DOMAIN wire = 1 .. Len(wire)
  BY Sizes DEF Countable, PortTypeOK
<1>2. n \in Nat
  BY <1>1
<1>3. \A d \in InFlight : \E k \in 1 .. n : F[k] = d
  <2> TAKE d \in InFlight
  <2>1. CASE \E k \in DOMAIN wire : d = wire[k]
    <3>1. PICK k \in 1 .. Len(wire) : d = wire[k]
      BY <2>1, <1>1
    <3>2. k \in 1 .. n /\ F[k] = d
      BY <3>1, <1>1
    <3> QED BY <3>2
  <2>2. CASE storing # <<Nobody>> /\ d = storing[2]
    <3>1. Stored = 1
      BY <2>2 DEF Stored
    <3>2. n \in 1 .. n /\ F[n] = d
      BY <3>1, <2>2, <1>1
    <3> QED BY <3>2
  <2> QED BY <2>1, <2>2 DEF InFlight
<1>4. \A k \in 1 .. n : f[k] = F[k].idx
  OBVIOUS
<1> HIDE DEF F, f
<1>5. PICK p \in 1 .. n : F[p] = e
  BY <1>3
<1> DEFINE S == (1 .. n) \ {p}
           T == {f[k] : k \in S}
<1>6. IsFiniteSet(S) /\ Cardinality(S) = n - 1
  <2>1. IsFiniteSet(1 .. n) /\ Cardinality(1 .. n) = n
    BY <1>2, FS_Interval
  <2> HIDE DEF n
  <2>2. IsFiniteSet(S) /\ Cardinality(S) = IF p \in 1 .. n THEN Cardinality(1 .. n) - 1 ELSE Cardinality(1 .. n)
    BY <2>1, FS_RemoveElement, Zenon
  <2> QED BY <2>1, <2>2
<1>7. IsFiniteSet(T) /\ Cardinality(T) <= n - 1
  <2>1. IsFiniteSet(T) /\ Cardinality(T) <= Cardinality(S)
    <3> HIDE DEF S
    <3> QED BY <1>6, Places
  <2> QED BY <2>1, <1>6
<1>8. ASSUME NEW i \in Awaited PROVE i \in T
  <2>1. PICK t \in Threads : Expects(t, i)
    BY DEF Awaited
  <2>2. PICK k \in DOMAIN hold[t] : hold[t][k] \in InFlight /\ hold[t][k].idx = i
    BY <2>1 DEF Expects
  <2>3. PICK q \in 1 .. n : F[q] = hold[t][k]
    BY <2>2, <1>3
  <2>4. q # p /\ f[q] = i
    BY <2>2, <2>3, <1>4, <1>5
  <2> QED BY <2>4
<1>9. Cardinality(Awaited) <= Cardinality(T)
  BY <1>7, <1>8, FS_Subset
<1>10. /\ Cardinality(T) \in Nat /\ Cardinality(Awaited) \in Nat /\ Cardinality(Leaked) \in Nat
       /\ late \in Nat /\ n + Cardinality(Leaked) <= late + Cardinality(Awaited)
  BY <1>7, FS_CardinalityType, Sizes DEF Countable, Counted
<1> HIDE DEF n, T
<1> QED BY <1>2, <1>7, <1>9, <1>10

\* As long as no answer was late, every frame under way is the request of a thread.
LEMMA EveryFrameHeld ==
    ASSUME PortTypeOK, Counted, late = 0, NEW e \in InFlight
    PROVE  \E t \in Threads : \E k \in DOMAIN hold[t] : hold[t][k] = e
<1> SUFFICES ASSUME \A t \in Threads : \A k \in DOMAIN hold[t] : hold[t][k] # e PROVE FALSE
  OBVIOUS
<1>1. Cardinality(Leaked) + 1 <= 0 /\ Cardinality(Leaked) \in Nat
  BY StrayIsLate, Sizes DEF Countable
<1> QED BY <1>1

\* A step that stores nothing in a buffer that stays held.
LEMMA OwnKept ==
    ASSUME Own, late' = 0 => late = 0, late' = 0 => answer'.of = answer'.by,
           rxbuf' = rxbuf,
           \A u \in Threads : \A k \in DOMAIN hold'[u] :
               rxbufstat'[hold'[u][k].idx] \in {"RCVD", "COMPLETE"} =>
                   /\ \E m \in DOMAIN hold[u] : hold[u][m] = hold'[u][k]
                   /\ rxbufstat[hold'[u][k].idx] \in {"RCVD", "COMPLETE"}
    PROVE  Own'
<1> SUFFICES ASSUME late' = 0, NEW u \in Threads, NEW k \in DOMAIN hold'[u],
                    rxbufstat'[hold'[u][k].idx] \in {"RCVD", "COMPLETE"}
             PROVE  rxbuf'[hold'[u][k].idx] = Request(hold'[u][k])
  BY DEF Own, Request
<1>1. PICK m \in DOMAIN hold[u] : hold[u][m] = hold'[u][k]
  OBVIOUS
<1> QED BY <1>1 DEF Own

\* A step that stores frame, which is held at its index.
LEMMA OwnStored ==
    ASSUME PortTypeOK, NoSharing, Own, late' = late, answer' = answer, hold' = hold,
           NEW frame, frame.idx \in Index,
           rxbuf' = [rxbuf EXCEPT ![frame.idx] = Request(frame)],
           \A i \in Index : i # frame.idx => rxbufstat'[i] = rxbufstat[i],
           late = 0 => \E t \in Threads : \E k \in DOMAIN hold[t] : hold[t][k] = frame
    PROVE  Own'
<1> SUFFICES ASSUME late = 0, NEW u \in Threads, NEW k \in DOMAIN hold[u],
                    rxbufstat'[hold[u][k].idx] \in {"RCVD", "COMPLETE"}
             PROVE  rxbuf'[hold[u][k].idx] = Request(hold[u][k])
  BY DEF Own, Request
<1>1. PICK t \in Threads : \E m \in DOMAIN hold[t] : hold[t][m] = frame
  OBVIOUS
<1>2. PICK m \in DOMAIN hold[t] : hold[t][m] = frame
  BY <1>1
<1>3. hold[u][k].idx \in Index
  BY HoldType
<1>4. CASE hold[u][k].idx = frame.idx
  <2>1. hold[u][k] = frame
    BY <1>2, <1>4, SharingApart DEF Apart
  <2> QED BY <2>1 DEF PortTypeOK
<1>5. CASE hold[u][k].idx # frame.idx
  BY <1>3, <1>5 DEF Own, PortTypeOK
<1> QED BY <1>4, <1>5

\* A step of t by which the buffers that the others collect from stay as they are.
LEMMA CollectedKept ==
    ASSUME PortTypeOK, Collected, NEW t \in Threads, NEW step,
           pc' = [pc EXCEPT ![t] = step], \A u \in Threads : u # t => hold'[u] = hold[u],
           step = "read" => rxbufstat'[hold'[t][1].idx] \in {"RCVD", "COMPLETE"},
           \A u \in Threads : u # t /\ pc[u] = "read" =>
               \/ rxbufstat'[Current(u).idx] = rxbufstat[Current(u).idx]
               \/ rxbufstat'[Current(u).idx] \in {"RCVD", "COMPLETE"}
    PROVE  Collected'
<1> SUFFICES ASSUME NEW u \in Threads, pc'[u] = "read"
             PROVE  rxbufstat'[hold'[u][1].idx] \in {"RCVD", "COMPLETE"}
  BY DEF Collected, Current
<1>1. CASE u = t
  BY <1>1 DEF PortTypeOK
<1>2. CASE u # t
  BY <1>2 DEF PortTypeOK, Collected, Current
<1> QED BY <1>1, <1>2

\* The others collect from other buffers.
LEMMA OthersApart ==
    ASSUME PortTypeOK, NoSharing, NEW t \in Threads, NEW k \in DOMAIN hold[t],
           NEW u \in Threads, u # t, pc[u] = "read"
    PROVE  Current(u).idx \in Index /\ Current(u).idx # hold[t][k].idx
<1>1. 1 \in DOMAIN hold[u] /\ Current(u).idx \in Index
  BY CurrentType
<1> QED BY <1>1, SharingApart DEF Apart, Current

\* Every step stores and collects what belongs together.
LEMMA OwnStep ==
    ASSUME Room, PortInv, PortInv', Collected, Own, [Next]_vars
    PROVE  Collected' /\ Own'
<1> USE DEF PortInv
<1>0. \A u \in Threads : \A k \in DOMAIN hold'[u] : hold'[u][k].idx \in Index
  <2>1. \A u \in Threads : hold'[u] \in Seq(Frame)
    BY DEF PortTypeOK
  <2>2. \A u \in Threads : \A k \in DOMAIN hold'[u] : hold'[u][k] \in Frame
    BY <2>1
  <2> QED BY <2>2 DEF Frame
<1>1. ASSUME NEW t \in Threads, GetIndex(t) PROVE Collected' /\ Own'
  <2>1. PICK com \in Commands(t) : hold' = [hold EXCEPT ![t] = Append(hold[t], NewFrame(com))]
    BY <1>1 DEF GetIndex, NewFrame
  <2>2. /\ rxbufstat' = [rxbufstat EXCEPT ![NextIndex] = "ALLOC"] /\ NewFrame(com).idx = NextIndex
        /\ rxbuf' = rxbuf /\ answer' = answer /\ late' = late
        /\ pc' = [pc EXCEPT ![t] = "send"] /\ pc[t] = "alloc"
    BY <1>1 DEF GetIndex, NewFrame, Goto
  <2>3. \A i \in Index : /\ i # NextIndex => rxbufstat'[i] = rxbufstat[i]
                         /\ i = NextIndex => rxbufstat'[i] = "ALLOC"
    BY <2>2 DEF PortTypeOK
  <2> HIDE DEF NewFrame
  <2>4. ASSUME NEW u \in Threads, NEW k \in DOMAIN hold'[u]
        PROVE  hold'[u][k] = NewFrame(com) \/ (k \in DOMAIN hold[u] /\ hold[u][k] = hold'[u][k])
    <3>1. hold[t] \in Seq(Frame) /\ hold \in [Threads -> Seq(Frame)]
      BY DEF PortTypeOK
    <3>2. CASE u = t
      <4>1. hold'[u] = Append(hold[t], NewFrame(com)) /\ hold[u] = hold[t]
        BY <2>1, <3>1, <3>2
      <4> QED BY <4>1, <3>1
    <3>3. CASE u # t
      BY <2>1, <3>1, <3>3
    <3> QED BY <3>2, <3>3
  <2>5. Own'
    BY <1>0, <2>2, <2>3, <2>4, OwnKept DEF Own
  <2>6. rxbufstat[NextIndex] = "EMPTY"
    BY <2>2, FreeIndex, NextIsFree
  <2>7. Collected'
    <3>1. \A u \in Threads : u # t => hold'[u] = hold[u]
      BY <2>1 DEF PortTypeOK
    <3>2. \A u \in Threads : pc[u] = "read" => Current(u).idx \in Index /\ Current(u).idx # NextIndex
      BY <2>6, CurrentType DEF Collected
    <3> QED BY <2>2, <2>3, <3>1, <3>2, CollectedKept
  <2> QED BY <2>5, <2>7
<1>2. ASSUME NEW t \in Threads, OutFrame(t) PROVE Collected' /\ Own'
  <2> DEFINE n == Len(hold[t])
  <2>1. n \in DOMAIN hold[t] /\ hold[t][n].idx \in Index
    BY <1>2, CurrentType DEF OutFrame
  <2>2. /\ rxbufstat' = [rxbufstat EXCEPT ![hold[t][n].idx] = "TX"]
        /\ rxbuf' = rxbuf /\ answer' = answer /\ late' = late /\ hold' = hold
        /\ pc' = [pc EXCEPT ![t] = IF n < Frames(t) THEN "alloc" ELSE "try"]
    BY <1>2 DEF OutFrame, Goto
  <2> HIDE DEF n
  <2>3. \A i \in Index : /\ i # hold[t][n].idx => rxbufstat'[i] = rxbufstat[i]
                         /\ i = hold[t][n].idx => rxbufstat'[i] = "TX"
    BY <2>2 DEF PortTypeOK
  <2>4. Own'
    BY <1>0, <2>2, <2>3, OwnKept DEF Own
  <2>5. Collected'
    BY <2>1, <2>2, <2>3, OthersApart, CollectedKept, ZenonT(60)
  <2> QED BY <2>4, <2>5
<1>3. ASSUME NEW t \in Threads, TakeStored(t) PROVE Collected' /\ Own'
  <2> DEFINE x == Current(t).idx
  <2>1. /\ x \in Index /\ rxbufstat[x] = "RCVD" /\ x = hold[t][1].idx
        /\ rxbufstat' = [rxbufstat EXCEPT ![x] = "COMPLETE"]
        /\ rxbuf' = rxbuf /\ answer' = answer /\ late' = late /\ hold' = hold
        /\ pc' = [pc EXCEPT ![t] = "read"]
    BY <1>3, CurrentType DEF TakeStored, Goto, Current
  <2> HIDE DEF x
  <2>2. \A i \in Index : /\ i # x => rxbufstat'[i] = rxbufstat[i]
                         /\ i = x => rxbufstat'[i] = "COMPLETE"
    BY <2>1 DEF PortTypeOK
  <2>3. Own'
    BY <1>0, <2>1, <2>2, OwnKept DEF Own
  <2>4. Collected'
    <3>1. \A u \in Threads : pc[u] = "read" => Current(u).idx \in Index
      BY CurrentType
    <3> QED BY <2>1, <2>2, <3>1, CollectedKept
  <2> QED BY <2>3, <2>4
<1>4. ASSUME NEW t \in Threads, Receive(t) PROVE Collected' /\ Own'
  <2>1. /\ answer' = answer /\ late' = late /\ hold' = hold
        /\ Current(t).idx \in Index /\ Current(t) = hold[t][1]
    BY <1>4, CurrentType DEF Receive, Current
  <2>2. CASE /\ UNCHANGED <<rxbufstat, rxbuf>>
             /\ \/ pc' = pc
                \/ pc' = [pc EXCEPT ![t] = "tried"]
    <3>1. Own'
      BY <2>1, <2>2 DEF Own, Request
    <3>2. Collected'
      BY <2>1, <2>2 DEF Collected, Current, PortTypeOK
    <3> QED BY <3>1, <3>2
  <2>3. CASE \E frame : /\ wire # <<>> /\ frame = Head(wire) /\ frame.idx = Current(t).idx
                        /\ rxbuf' = [rxbuf EXCEPT ![frame.idx] = Request(frame)]
                        /\ rxbufstat' = [rxbufstat EXCEPT ![frame.idx] = "COMPLETE"]
                        /\ pc' = [pc EXCEPT ![t] = "read"]
    <3>1. PICK frame : /\ wire # <<>> /\ frame = Head(wire) /\ frame.idx = Current(t).idx
                       /\ rxbuf' = [rxbuf EXCEPT ![frame.idx] = Request(frame)]
                       /\ rxbufstat' = [rxbufstat EXCEPT ![frame.idx] = "COMPLETE"]
                       /\ pc' = [pc EXCEPT ![t] = "read"]
      BY <2>3
    <3>2. frame \in InFlight
      BY <3>1, WithoutHead DEF InFlight, PortTypeOK
    <3>3. \A i \in Index : /\ i # frame.idx => rxbufstat'[i] = rxbufstat[i]
                           /\ i = frame.idx => rxbufstat'[i] = "COMPLETE"
      BY <3>1 DEF PortTypeOK
    <3>4. late = 0 => \E u \in Threads : \E k \in DOMAIN hold[u] : hold[u][k] = frame
      BY <3>2, EveryFrameHeld
    <3>5. Own'
      BY <2>1, <3>1, <3>3, <3>4, OwnStored
    <3>6. Collected'
      <4>1. \A u \in Threads : pc[u] = "read" => Current(u).idx \in Index
        BY CurrentType
      <4> QED BY <2>1, <3>1, <3>3, <4>1, CollectedKept
    <3> QED BY <3>5, <3>6
  <2> QED BY <1>4, <2>2, <2>3 DEF Receive, Goto
<1>5. ASSUME NEW t \in Threads, Store(t) PROVE Collected' /\ Own'
  <2>1. PICK frame : frame = storing[2]
    OBVIOUS
  <2>2. /\ storing # <<Nobody>> /\ frame.idx \in Index
        /\ rxbuf' = [rxbuf EXCEPT ![frame.idx] = Request(frame)]
        /\ rxbufstat' = [rxbufstat EXCEPT ![frame.idx] = "RCVD"]
        /\ answer' = answer /\ late' = late /\ hold' = hold
        /\ pc' = [pc EXCEPT ![t] = "tried"]
    BY <1>5, <2>1 DEF Store, Goto, PortTypeOK, Frame
  <2>3. frame \in InFlight
    BY <2>1, <2>2 DEF InFlight
  <2>4. \A i \in Index : /\ i # frame.idx => rxbufstat'[i] = rxbufstat[i]
                         /\ i = frame.idx => rxbufstat'[i] = "RCVD"
    BY <2>2 DEF PortTypeOK
  <2>5. late = 0 => \E u \in Threads : \E k \in DOMAIN hold[u] : hold[u][k] = frame
    BY <2>3, EveryFrameHeld
  <2>6. Own'
    BY <2>2, <2>4, <2>5, OwnStored
  <2>7. Collected'
    <3>1. \A u \in Threads : pc[u] = "read" => Current(u).idx \in Index
      BY CurrentType
    <3> QED BY <2>2, <2>4, <3>1, CollectedKept
  <2> QED BY <2>6, <2>7
<1>6. ASSUME NEW t \in Threads, Released(t), rxbuf' = rxbuf, pc[t] # "alloc",
             late' = 0 => late = 0, late' = 0 => answer'.of = answer'.by
      PROVE  Collected' /\ Own'
  <2> DEFINE x == Current(t).idx
  <2>1. /\ x \in Index /\ 1 \in DOMAIN hold[t] /\ x = hold[t][1].idx
        /\ rxbufstat' = [rxbufstat EXCEPT ![x] = "EMPTY"]
        /\ pc' = [pc EXCEPT ![t] = IF Len(hold[t]) > 1 THEN "try" ELSE "alloc"]
        /\ DOMAIN hold[t] = 1 .. Len(hold[t]) /\ Len(hold[t]) \in Nat \ {0}
    BY <1>6, CurrentType DEF Released, Goto, Current
  <2> HIDE DEF x
  <2>2. \A i \in Index : /\ i # x => rxbufstat'[i] = rxbufstat[i]
                         /\ i = x => rxbufstat'[i] = "EMPTY"
    BY <2>1 DEF PortTypeOK
  <2>3. \A u \in Threads : /\ u # t => hold'[u] = hold[u]
                           /\ u = t => /\ DOMAIN hold'[u] = 1 .. Len(hold[t]) - 1
                                       /\ \A k \in DOMAIN hold'[u] : hold'[u][k] = hold[u][k + 1]
    BY <1>6, ReleasedStep
  <2>4. \A u \in Threads : \A k \in DOMAIN hold'[u] : \E m \in DOMAIN hold[u] : hold[u][m] = hold'[u][k]
    <3> TAKE u \in Threads
    <3> TAKE k \in DOMAIN hold'[u]
    <3>1. CASE u = t
      <4>1. k + 1 \in DOMAIN hold[u] /\ hold'[u][k] = hold[u][k + 1]
        BY <2>1, <2>3, <3>1
      <4> QED BY <4>1
    <3>2. CASE u # t
      BY <2>3, <3>2
    <3> QED BY <3>1, <3>2
  <2>5. Own'
    BY <1>0, <1>6, <2>2, <2>4, OwnKept
  <2>6. Collected'
    <3>1. \A u \in Threads : u # t /\ pc[u] = "read" => rxbufstat'[Current(u).idx] = rxbufstat[Current(u).idx]
      BY <2>1, <2>2, OthersApart
    <3>2. pc'[t] # "read" /\ \A u \in Threads : u # t => pc'[u] = pc[u]
      BY <2>1 DEF PortTypeOK
    <3> QED BY <2>3, <3>1, <3>2 DEF Collected, Current
  <2> QED BY <2>5, <2>6
<1>7. ASSUME NEW t \in Threads, Collect(t) PROVE Collected' /\ Own'
  <2>1. /\ Released(t) /\ rxbuf' = rxbuf /\ pc[t] = "read" /\ late' = late
        /\ answer'.of = Request(Current(t)) /\ answer'.by = rxbuf[Current(t).idx]
    BY <1>7 DEF Collect
  <2>2. 1 \in DOMAIN hold[t]
    BY <2>1, CurrentType
  <2>3. late = 0 => answer'.of = answer'.by
    BY <2>1, <2>2 DEF Own, Collected, Current
  <2> QED BY <1>6, <2>1, <2>3
<1>8. ASSUME NEW t \in Threads, GiveUp(t) PROVE Collected' /\ Own'
  <2>1. /\ Released(t) /\ rxbuf' = rxbuf /\ pc[t] = "tried" /\ answer' = answer
        /\ late' = IF Underway(t) THEN late + 1 ELSE late
    BY <1>8 DEF GiveUp, Patience
  <2>2. late' = 0 => late = 0
    BY <2>1, Sizes DEF Countable
  <2> QED BY <1>6, <2>1, <2>2 DEF Own
<1>9. ASSUME Resend PROVE Collected' /\ Own'
  <2>1. /\ UNCHANGED <<rxbufstat, rxbuf, hold, answer>> /\ "checker" \in Threads
        /\ pc' = [pc EXCEPT !["checker"] = "send"]
        /\ late' = IF Underway("checker") THEN late + 1 ELSE late
    BY <1>9 DEF Resend, Goto, Patience, Threads
  <2>2. late' = 0 => late = 0
    BY <2>1, Sizes DEF Countable
  <2>3. Own'
    BY <2>1, <2>2 DEF Own, Request
  <2> QED BY <2>1, <2>3, CollectedKept
<1>10. ASSUME UNCHANGED <<rxbufstat, rxbuf, hold, answer, late>>,
              \A u \in Threads : pc'[u] = "read" => pc[u] = "read"
       PROVE  Collected' /\ Own'
  BY <1>10 DEF Collected, Current, Own, Request
<1>11. ASSUME NEW t \in Threads, WaitForSocket(t) PROVE Collected' /\ Own'
  BY <1>10, <1>11 DEF WaitForSocket, Goto, PortTypeOK
<1>12. ASSUME Lose \/ UNCHANGED vars PROVE Collected' /\ Own'
  BY <1>10, <1>12 DEF Lose, vars
<1> QED
  BY <1>1, <1>2, <1>3, <1>4, <1>5, <1>7, <1>8, <1>9, <1>11, <1>12 DEF Next

-----------------------------------------------------------------------------
(* How far the request of an answer that was late is from the one that it   *)
(* is taken for: the search comes back to an index only after it has passed *)
(* all that were free.                                                      *)

\* The frames that the threads hold; the free buffers that the search finds before i; and
\* how many of them there are at least when a frame is sent.
HeldFrames == UNION {{hold[t][k] : k \in DOMAIN hold[t]} : t \in Threads}
Ahead(i) == {j \in Index : rxbufstat[j] = "EMPTY" /\ Steps(j) < Steps(i)}
Owed == EC_MAXBUF - Segments - Cardinality(Leaked)

\* The requests since e and the free buffers before its index make up for what is owed,
\* except for e itself, until the search has passed its index.
Far(e) ==
    \/ requests - e.req + Cardinality(Ahead(e.idx)) >= Owed - 1
    \/ requests - e.req >= Owed

\* What OwnAnswers says of two requests, when n answers were late.
FarApart(a, b, n) == a # b => n > 0 /\ a - b >= EC_MAXBUF - Segments + 1 - n
AllFar == \A e \in InFlight \cup HeldFrames : Far(e)
FlightsApart ==
    \A e \in InFlight, h \in HeldFrames : h.idx = e.idx => FarApart(h.req, e.req, late)
BuffersApart ==
    \A h \in HeldFrames : rxbufstat[h.idx] \in {"RCVD", "COMPLETE"} =>
        FarApart(h.req, rxbuf[h.idx].req, late)
AnswerApart ==
    /\ answer.of.req \in Nat /\ answer.by.req \in Nat
    /\ FarApart(answer.of.req, answer.by.req, late)
Distances ==
    AllFar /\ FlightsApart /\ BuffersApart /\ AnswerApart

\* The more answers were late, the less is asked for.
LEMMA FarMore ==
    ASSUME NEW a \in Nat, NEW b \in Nat, NEW n \in Nat, NEW m \in Nat, n <= m, FarApart(a, b, n)
    PROVE  FarApart(a, b, m)
BY PortAssumption DEF FarApart

\* The frames have their type, and indexes and requests are numbers.
LEMMA KnownTypes ==
    ASSUME PortTypeOK
    PROVE  /\ \A e \in InFlight \cup HeldFrames : e \in Frame /\ e.idx \in Index /\ e.req \in Nat
           /\ \A i \in Index : rxbuf[i].req \in Nat
           /\ late \in Nat
<1> USE PortAssumption
<1>1. InFlight \subseteq Frame
  <2>1. \A k \in DOMAIN wire : wire[k] \in Frame
    BY DEF PortTypeOK
  <2>2. storing # <<Nobody>> => storing[2] \in Frame
    BY DEF PortTypeOK
  <2> QED BY <2>1, <2>2 DEF InFlight
<1>2. HeldFrames \subseteq Frame
  BY HoldType DEF HeldFrames
<1>3. \A e \in Frame : e.idx \in Index /\ e.req \in Nat
  BY DEF Frame
<1>4. \A i \in Index : rxbuf[i].req \in Nat
  <2>1. \A i \in Index : rxbuf[i] \in {NoRequest} \cup [req : 1 .. MaxRequests, com : Coms]
    BY DEF PortTypeOK
  <2> QED BY <2>1 DEF NoRequest
<1> QED BY <1>1, <1>2, <1>3, <1>4 DEF PortTypeOK

\* What is held, in three ways.
LEMMA HeldWays ==
    /\ \A h \in HeldFrames : \E t \in Threads : \E k \in DOMAIN hold[t] : hold[t][k] = h
    /\ \A t \in Threads : \A k \in DOMAIN hold[t] : hold[t][k] \in HeldFrames
    /\ \A i : i \in Held <=> \E h \in HeldFrames : h.idx = i
<1>1. \A h \in HeldFrames : \E t \in Threads : \E k \in DOMAIN hold[t] : hold[t][k] = h
  BY DEF HeldFrames
<1>2. \A t \in Threads : \A k \in DOMAIN hold[t] : hold[t][k] \in HeldFrames
  BY DEF HeldFrames
<1>3. \A i : i \in Held <=> \E t \in Threads : \E k \in DOMAIN hold[t] : hold[t][k].idx = i
  BY DEF Held, Indexes
<1>4. \A i : i \in Held <=> \E h \in HeldFrames : h.idx = i
  BY <1>1, <1>2, <1>3
<1> QED BY <1>1, <1>2, <1>4

\* The frames of an index are one frame, and what a thread holds is not free.
LEMMA HeldOnce ==
    ASSUME NoSharing, InUse
    PROVE  /\ \A g, h \in HeldFrames : g.idx = h.idx => g = h
           /\ \A h \in HeldFrames : rxbufstat[h.idx] # "EMPTY"
<1>1. \A g, h \in HeldFrames : g.idx = h.idx => g = h
  BY HeldWays, SharingApart DEF Apart
<1>2. \A h \in HeldFrames : rxbufstat[h.idx] # "EMPTY"
  BY HeldWays DEF InUse
<1> QED BY <1>1, <1>2

\* A step without a new request brings the search no nearer: a free buffer before i stays
\* free, or it is lost and less is owed.
LEMMA FarKept ==
    ASSUME PortTypeOK, PortTypeOK', InUse, requests \in Nat, requests' = requests, lastidx' = lastidx,
           HeldFrames' \subseteq HeldFrames, NEW x,
           \A i \in Index \ Held : i # x \/ rxbufstat'[i] = "EMPTY" => rxbufstat'[i] = rxbufstat[i],
           NEW e \in Frame, Far(e)
    PROVE  Far(e)'
<1>1. Held' \subseteq Held
  <2>1. \A i : i \in Held' => \E t \in Threads : \E k \in DOMAIN hold'[t] : hold'[t][k].idx = i
    BY DEF Held, Indexes
  <2>2. \A t \in Threads : \A k \in DOMAIN hold'[t] : hold'[t][k] \in HeldFrames'
    BY DEF HeldFrames
  <2>3. \A i : i \in Held' => \E h \in HeldFrames' : h.idx = i
    BY <2>1, <2>2
  <2> QED BY <2>3, HeldWays
<1>2. \A i \in Held : rxbufstat[i] # "EMPTY"
  BY HeldWays DEF InUse
<1>3. Leaked \subseteq Leaked'
  BY <1>1 DEF Leaked
<1>4. Countable /\ Countable'
  BY Sizes, PTL
<1> DEFINE S == Ahead(e.idx)
           T == Ahead(e.idx)'
<1>5. IsFiniteSet(S) /\ Cardinality(S) \in Nat /\ IsFiniteSet(T) /\ Cardinality(T) \in Nat
  <2>1. S \in SUBSET Index /\ T \in SUBSET Index
    BY DEF Ahead
  <2> HIDE DEF S, T
  <2> QED BY <2>1, FiniteIndexes
<1>6. ASSUME NEW i \in S, rxbufstat'[i] = "EMPTY" PROVE i \in T
  BY <1>6 DEF Ahead, Steps
<1>7. ASSUME NEW i \in S PROVE i \in Index \ Held /\ rxbufstat[i] = "EMPTY" /\ i \notin Held' /\ i \notin Leaked
  BY <1>1, <1>2 DEF Ahead, Leaked
<1> HIDE DEF S, T
<1>8. \/ Cardinality(S) <= Cardinality(T) /\ Cardinality(Leaked) <= Cardinality(Leaked')
      \/ Cardinality(S) <= Cardinality(T) + 1 /\ Cardinality(Leaked) + 1 <= Cardinality(Leaked')
  <2>1. CASE x \in Leaked' /\ x \notin Leaked
    <3>1. S \ {x} \subseteq T
      BY <1>6, <1>7
    <3>2. Cardinality(S) <= Cardinality(T) + 1
      BY <1>5, <3>1, OneFewer
    <3>3. Cardinality(Leaked \cup {x}) = Cardinality(Leaked) + 1
      BY <2>1, <1>4, FS_AddElement, Zenon DEF Countable
    <3>4. Cardinality(Leaked \cup {x}) <= Cardinality(Leaked')
      BY <2>1, <1>3, <1>4, FS_Subset DEF Countable
    <3> QED BY <3>2, <3>3, <3>4
  <2>2. CASE ~ (x \in Leaked' /\ x \notin Leaked)
    <3>1. ASSUME NEW i \in S PROVE rxbufstat'[i] = "EMPTY"
      BY <2>2, <1>7 DEF Leaked
    <3>2. S \subseteq T
      BY <3>1, <1>6
    <3>3. Cardinality(S) <= Cardinality(T)
      BY <3>2, <1>5, FS_Subset
    <3>4. Cardinality(Leaked) <= Cardinality(Leaked')
      BY <1>3, <1>4, FS_Subset DEF Countable
    <3> QED BY <3>3, <3>4
  <2> QED BY <2>1, <2>2
<1>9. /\ requests - e.req + Cardinality(S) >= EC_MAXBUF - Segments - Cardinality(Leaked) - 1
      \/ requests - e.req >= EC_MAXBUF - Segments - Cardinality(Leaked)
  BY DEF Far, Owed, S
<1>10. e.req \in Nat /\ Cardinality(Leaked) \in Nat /\ Cardinality(Leaked') \in Nat
  BY <1>4 DEF Frame, Countable
<1>11. \/ requests - e.req + Cardinality(T) >= EC_MAXBUF - Segments - Cardinality(Leaked') - 1
       \/ requests - e.req >= EC_MAXBUF - Segments - Cardinality(Leaked')
  <2> DEFINE r == requests   q == e.req   s == Cardinality(S)   d == Cardinality(T)
             l == Cardinality(Leaked)   m == Cardinality(Leaked')
  <2>1. r \in Nat /\ q \in Nat /\ s \in Nat /\ d \in Nat /\ l \in Nat /\ m \in Nat
    BY <1>5, <1>10
  <2> HIDE DEF r, q, s, d, l, m
  <2>2. (s <= d /\ l <= m) \/ (s <= d + 1 /\ l + 1 <= m)
    BY <1>8 DEF s, d, l, m
  <2>3. \/ r - q + s >= EC_MAXBUF - Segments - l - 1
        \/ r - q >= EC_MAXBUF - Segments - l
    BY <1>9 DEF r, q, s, l
  <2>4. \/ r - q + d >= EC_MAXBUF - Segments - m - 1
        \/ r - q >= EC_MAXBUF - Segments - m
    BY <2>1, <2>2, <2>3, PortAssumption
  <2> QED BY <2>4 DEF r, q, d, m
<1> QED BY <1>11 DEF Far, Owed, T

\* Where the search goes on, the indexes beyond are nearer by the steps it has made.
LEMMA StepsMove ==
    ASSUME PortTypeOK, PortTypeOK', NEW i \in Index, Steps(i) > Steps(lastidx')
    PROVE  Steps(i)' = Steps(i) - Steps(lastidx')
<1> DEFINE a == lastidx   b == lastidx'
<1>1. EC_MAXBUF \in Nat \ {0} /\ a \in 0 .. EC_MAXBUF - 1 /\ b \in 0 .. EC_MAXBUF - 1 /\ i \in 0 .. EC_MAXBUF - 1
  BY PortAssumption DEF PortTypeOK, Index
<1>2. /\ Steps(i) = IF i > a THEN i - a ELSE i - a + EC_MAXBUF
      /\ Steps(b) = IF b > a THEN b - a ELSE b - a + EC_MAXBUF
      /\ Steps(i)' = IF i > b THEN i - b ELSE i - b + EC_MAXBUF
  BY DEF Steps
<1> HIDE DEF a, b
<1>3. (IF i > b THEN i - b ELSE i - b + EC_MAXBUF)
        = (IF i > a THEN i - a ELSE i - a + EC_MAXBUF) - (IF b > a THEN b - a ELSE b - a + EC_MAXBUF)
  <2>1. Steps(i) > Steps(b)
    BY DEF b
  <2> QED BY <1>1, <1>2, <2>1
<1> QED BY <1>2, <1>3 DEF b

\* Two indexes are not the same number of steps away.
LEMMA StepsDiffer ==
    ASSUME PortTypeOK, NEW i \in Index, NEW j \in Index, Steps(i) = Steps(j)
    PROVE  i = j
BY StepsAfter

\* What GetIndex leaves of the buffers, and of what is lost and held.
LEMMA GetIndexLeaves ==
    ASSUME PortTypeOK, PortTypeOK', requests \in 0 .. MaxRequests, NEW t \in Threads, GetIndex(t),
           NextIndex \in Index, rxbufstat[NextIndex] = "EMPTY"
    PROVE  /\ lastidx' = NextIndex /\ requests' = requests + 1
           /\ \A i \in Index : i # NextIndex => rxbufstat'[i] = rxbufstat[i]
           /\ rxbufstat'[NextIndex] = "ALLOC"
           /\ \E g \in HeldFrames' : /\ g.idx = NextIndex /\ g.req = requests + 1
                                     /\ \A h \in HeldFrames' : h \in HeldFrames \/ h = g
           /\ Leaked \subseteq Leaked'
<1>1. /\ lastidx' = NextIndex /\ requests' = requests + 1
      /\ \A i \in Index : i # NextIndex => rxbufstat'[i] = rxbufstat[i]
      /\ rxbufstat'[NextIndex] = "ALLOC"
  BY DEF GetIndex, PortTypeOK
<1>2. PICK com \in Commands(t) : hold' = [hold EXCEPT ![t] = Append(hold[t], NewFrame(com))]
  BY DEF GetIndex, NewFrame
<1> DEFINE g == NewFrame(com)
<1>3. g.idx = NextIndex /\ g.req = requests + 1
  BY DEF NewFrame
<1> HIDE DEF g
<1>4. ASSUME NEW u \in Threads
      PROVE  /\ u = t => \E k \in DOMAIN hold'[u] : hold'[u][k] = g
             /\ \A k \in DOMAIN hold'[u] :
                   hold'[u][k] = g \/ (k \in DOMAIN hold[u] /\ hold[u][k] = hold'[u][k])
  <2>1. hold[t] \in Seq(Frame) /\ hold \in [Threads -> Seq(Frame)]
    BY DEF PortTypeOK
  <2>2. CASE u = t
    <3>1. hold'[u] = Append(hold[t], g) /\ hold[u] = hold[t]
      BY <1>2, <2>1, <2>2 DEF g
    <3>2. Len(hold[t]) + 1 \in DOMAIN hold'[u] /\ hold'[u][Len(hold[t]) + 1] = g
      BY <3>1, <2>1
    <3>3. \A k \in DOMAIN hold'[u] : hold'[u][k] = g \/ (k \in DOMAIN hold[u] /\ hold[u][k] = hold'[u][k])
      BY <3>1, <2>1
    <3> QED BY <3>2, <3>3
  <2>3. CASE u # t
    BY <1>2, <2>1, <2>3
  <2> QED BY <2>2, <2>3
<1>5. g \in HeldFrames' /\ \A h \in HeldFrames' : h \in HeldFrames \/ h = g
  BY <1>4 DEF HeldFrames
<1>6. ASSUME NEW i \in Leaked PROVE i \in Leaked'
  <2>1. i \in Index /\ i \notin Held /\ rxbufstat[i] # "EMPTY" /\ i # NextIndex
    BY DEF Leaked
  <2>2. i \notin Held'
    BY <2>1, <1>3, <1>4 DEF Held, Indexes
  <2> QED BY <2>1, <2>2, <1>1 DEF Leaked
<1> QED BY <1>1, <1>3, <1>5, <1>6

\* One request more, and at most one free buffer less before an index; when none is left
\* before it, the search has passed it and nothing is owed.
LEMMA FarGetIndex ==
    ASSUME PortTypeOK, PortTypeOK', requests \in 0 .. MaxRequests, NEW t \in Threads, GetIndex(t),
           NextIndex \in Index, rxbufstat[NextIndex] = "EMPTY",
           \A j \in Index : rxbufstat[j] = "EMPTY" => Steps(NextIndex) <= Steps(j),
           NEW e \in Frame, Far(e)
    PROVE  Far(e)'
<1> DEFINE l == NextIndex
           S == Ahead(e.idx)
           T == Ahead(e.idx)'
<1>1. /\ lastidx' = l /\ requests' = requests + 1 /\ Leaked \subseteq Leaked'
      /\ \A i \in Index : i # l => rxbufstat'[i] = rxbufstat[i]
  BY GetIndexLeaves
<1>2. Countable /\ Countable'
  BY Sizes, PTL
<1>3. Cardinality(Leaked) <= Cardinality(Leaked')
  BY <1>1, <1>2, FS_Subset DEF Countable
<1>4. e.idx \in Index /\ e.req \in Nat /\ requests \in Nat
      /\ Cardinality(Leaked) \in Nat /\ Cardinality(Leaked') \in Nat
  BY <1>2, PortAssumption DEF Frame, Countable
<1>5. IsFiniteSet(S) /\ Cardinality(S) \in Nat /\ IsFiniteSet(T) /\ Cardinality(T) \in Nat
  <2>1. S \in SUBSET Index /\ T \in SUBSET Index
    BY DEF Ahead
  <2> HIDE DEF S, T
  <2> QED BY <2>1, FiniteIndexes
<1>6. \A i \in Index : Steps(i) \in Nat
  BY StepsAfter
<1>7. Cardinality(S) <= Cardinality(T) + 1 \/ Cardinality(S) = 0
  <2>1. CASE l \in S
    <3>1. Steps(l) < Steps(e.idx)
      BY <2>1 DEF Ahead
    <3>2. ASSUME NEW i \in S, i # l PROVE i \in T
      <4>1. i \in Index /\ rxbufstat[i] = "EMPTY" /\ Steps(i) < Steps(e.idx)
        BY <3>2 DEF Ahead
      <4>2. Steps(l) <= Steps(i) /\ Steps(l) # Steps(i)
        BY <4>1, <3>2, StepsDiffer
      <4>3. Steps(l) < Steps(i) /\ Steps(l) < Steps(e.idx)
        BY <4>1, <4>2, <3>1, <1>6
      <4>4. Steps(i)' = Steps(i) - Steps(l) /\ Steps(e.idx)' = Steps(e.idx) - Steps(l)
        BY <4>1, <4>3, <1>1, <1>4, <1>6, StepsMove
      <4>5. Steps(i)' < Steps(e.idx)'
        BY <4>1, <4>4, <1>4, <1>6
      <4>6. rxbufstat'[i] = "EMPTY"
        BY <4>1, <3>2, <1>1
      <4> QED BY <4>1, <4>5, <4>6 DEF Ahead
    <3>3. S \ {l} \subseteq T
      BY <3>2
    <3> QED BY <3>3, <1>5, OneFewer
  <2>2. CASE l \notin S
    <3>1. ASSUME NEW i \in S PROVE FALSE
      <4>1. i \in Index /\ rxbufstat[i] = "EMPTY" /\ Steps(i) < Steps(e.idx)
        BY DEF Ahead
      <4>2. Steps(l) <= Steps(i)
        BY <4>1
      <4>3. Steps(l) < Steps(e.idx)
        BY <4>1, <4>2, <1>4, <1>6
      <4> QED BY <4>3, <2>2 DEF Ahead
    <3>2. S = {}
      BY <3>1
    <3> HIDE DEF S
    <3> QED BY <3>2, FS_EmptySet
  <2> QED BY <2>1, <2>2
<1>8. \/ requests - e.req + Cardinality(S) >= EC_MAXBUF - Segments - Cardinality(Leaked) - 1
      \/ requests - e.req >= EC_MAXBUF - Segments - Cardinality(Leaked)
  BY DEF Far, Owed
<1> HIDE DEF l, S, T
<1>9. \/ requests' - e.req + Cardinality(T) >= EC_MAXBUF - Segments - Cardinality(Leaked') - 1
      \/ requests' - e.req >= EC_MAXBUF - Segments - Cardinality(Leaked')
  <2> DEFINE r == requests   r1 == requests'   q == e.req   s == Cardinality(S)   d == Cardinality(T)
             n == Cardinality(Leaked)   m == Cardinality(Leaked')
  <2>1. r \in Nat /\ q \in Nat /\ s \in Nat /\ d \in Nat /\ n \in Nat /\ m \in Nat /\ r1 = r + 1
    BY <1>1, <1>4, <1>5
  <2> HIDE DEF r, r1, q, s, d, n, m
  <2>2. (s <= d + 1 \/ s = 0) /\ n <= m
    BY <1>3, <1>7 DEF s, d, n, m
  <2>3. \/ r - q + s >= EC_MAXBUF - Segments - n - 1
        \/ r - q >= EC_MAXBUF - Segments - n
    BY <1>8 DEF r, q, s, n
  <2>4. \/ r1 - q + d >= EC_MAXBUF - Segments - m - 1
        \/ r1 - q >= EC_MAXBUF - Segments - m
    BY <2>1, <2>2, <2>3, PortAssumption
  <2> QED BY <2>4 DEF r1, q, d, m
<1> QED BY <1>9 DEF Far, Owed, T

\* What is free when a thread asks for an index.
LEMMA ManyFree ==
    ASSUME PortTypeOK, Ready, NEW t \in Threads, pc[t] = "alloc"
    PROVE  LET Free == {i \in Index : rxbufstat[i] = "EMPTY"}
           IN  IsFiniteSet(Free) /\ Cardinality(Free) \in Nat /\ Cardinality(Free) >= Owed
<1> DEFINE Free == {i \in Index : rxbufstat[i] = "EMPTY"}
<1>1. Index \subseteq Free \cup (Held \cup Leaked)
  BY DEF Leaked
<1>2. /\ IsFiniteSet(Held) /\ Cardinality(Held) <= Segments
      /\ IsFiniteSet(Leaked) /\ Cardinality(Leaked) \in Nat
      /\ IsFiniteSet(Free) /\ Cardinality(Free) \in Nat
      /\ Cardinality(Index) = EC_MAXBUF
  <2>1. Cardinality(Index) = EC_MAXBUF
    BY FS_Interval, PortAssumption DEF Index
  <2>2. IsFiniteSet(Free) /\ Cardinality(Free) \in Nat
    BY FiniteIndexes
  <2> HIDE DEF Free
  <2> QED BY <2>1, <2>2, FewHeld, Sizes DEF Countable
<1> HIDE DEF Free
<1>3. /\ IsFiniteSet(Held \cup Leaked)
      /\ Cardinality(Held \cup Leaked) = Cardinality(Held) + Cardinality(Leaked) - Cardinality(Held \cap Leaked)
  BY <1>2, FS_Union
<1>4. /\ IsFiniteSet(Free \cup (Held \cup Leaked))
      /\ Cardinality(Free \cup (Held \cup Leaked))
           = Cardinality(Free) + Cardinality(Held \cup Leaked) - Cardinality(Free \cap (Held \cup Leaked))
  BY <1>2, <1>3, FS_Union
<1>5. Cardinality(Index) <= Cardinality(Free \cup (Held \cup Leaked))
  BY <1>1, <1>4, FS_Subset
<1>6. /\ Cardinality(Held) \in Nat /\ Cardinality(Held \cup Leaked) \in Nat
      /\ Cardinality(Held \cap Leaked) \in Nat
      /\ Cardinality(Free \cap (Held \cup Leaked)) \in Nat
  <2>1. IsFiniteSet(Held \cap Leaked) /\ IsFiniteSet(Free \cap (Held \cup Leaked))
    BY <1>2, FS_Subset
  <2> QED BY <1>2, <1>3, <2>1, FS_CardinalityType
<1>7. Cardinality(Free) >= EC_MAXBUF - Segments - Cardinality(Leaked)
  <2> DEFINE f == Cardinality(Free)   h == Cardinality(Held)   n == Cardinality(Leaked)
             a == Cardinality(Held \cup Leaked)   b == Cardinality(Held \cap Leaked)
             c == Cardinality(Free \cap (Held \cup Leaked))
             d == Cardinality(Free \cup (Held \cup Leaked))
  <2>1. /\ f \in Nat /\ h \in Nat /\ n \in Nat /\ a \in Nat /\ b \in Nat /\ c \in Nat
        /\ h <= Segments /\ a = h + n - b /\ d = f + a - c /\ EC_MAXBUF <= d
    BY <1>2, <1>3, <1>4, <1>5, <1>6
  <2> HIDE DEF f, h, n, a, b, c, d
  <2>2. f >= EC_MAXBUF - Segments - n
    BY <2>1, PortAssumption
  <2> QED BY <2>2 DEF f, n
<1> QED BY <1>2, <1>7 DEF Owed, Free

\* The frame with the new index: all that is still free is before it.
LEMMA FarNew ==
    ASSUME PortTypeOK, PortTypeOK', Ready, requests \in 0 .. MaxRequests, NEW t \in Threads, GetIndex(t),
           NextIndex \in Index, rxbufstat[NextIndex] = "EMPTY",
           NEW e \in Frame, e.idx = NextIndex, e.req = requests + 1
    PROVE  Far(e)'
<1> DEFINE l == e.idx
           Free == {i \in Index : rxbufstat[i] = "EMPTY"}
           T == Ahead(e.idx)'
<1>1. /\ lastidx' = l /\ requests' = requests + 1 /\ Leaked \subseteq Leaked'
      /\ \A i \in Index : i # l => rxbufstat'[i] = rxbufstat[i]
  BY GetIndexLeaves
<1>2. Countable /\ Countable'
  BY Sizes, PTL
<1>3. Cardinality(Leaked) <= Cardinality(Leaked')
  BY <1>1, <1>2, FS_Subset DEF Countable
<1>4. IsFiniteSet(Free) /\ Cardinality(Free) \in Nat
      /\ Cardinality(Free) >= EC_MAXBUF - Segments - Cardinality(Leaked)
  BY ManyFree DEF GetIndex, Owed
<1>5. IsFiniteSet(T) /\ Cardinality(T) \in Nat
  <2>1. T \in SUBSET Index
    BY DEF Ahead
  <2> HIDE DEF T
  <2> QED BY <2>1, FiniteIndexes
<1>6. ASSUME NEW i \in Free, i # l PROVE i \in T
  <2>1. i \in Index /\ rxbufstat'[i] = "EMPTY"
    BY <1>1, <1>6
  <2>2. /\ Steps(i)' = IF i > l THEN i - l ELSE i - l + EC_MAXBUF
        /\ Steps(l)' = IF l > l THEN l - l ELSE l - l + EC_MAXBUF
    BY <1>1 DEF Steps
  <2>3. i \in 0 .. EC_MAXBUF - 1 /\ l \in 0 .. EC_MAXBUF - 1 /\ EC_MAXBUF \in Nat
    BY <2>1, PortAssumption DEF Index
  <2> HIDE DEF l
  <2>4. Steps(i)' < Steps(l)'
    BY <1>6, <2>2, <2>3
  <2> QED BY <2>1, <2>4 DEF Ahead, l
<1> HIDE DEF l, Free, T
<1>7. Cardinality(Free) <= Cardinality(T) + 1
  <2>1. Free \ {l} \subseteq T
    BY <1>6
  <2> QED BY <2>1, <1>4, <1>5, OneFewer
<1>8. Cardinality(T) >= EC_MAXBUF - Segments - Cardinality(Leaked') - 1
  <2> DEFINE f == Cardinality(Free)   d == Cardinality(T)
             n == Cardinality(Leaked)   m == Cardinality(Leaked')
  <2>1. /\ f \in Nat /\ d \in Nat /\ n \in Nat /\ m \in Nat
        /\ n <= m /\ f >= EC_MAXBUF - Segments - n /\ f <= d + 1
    BY <1>2, <1>3, <1>4, <1>5, <1>7 DEF Countable
  <2> HIDE DEF f, d, n, m
  <2>2. d >= EC_MAXBUF - Segments - m - 1
    BY <2>1, PortAssumption
  <2> QED BY <2>2 DEF d, m
<1>9. requests' - e.req = 0
  BY <1>1, PortAssumption
<1>10. requests' - e.req + Cardinality(T) >= EC_MAXBUF - Segments - Cardinality(Leaked') - 1
  BY <1>2, <1>5, <1>8, <1>9, PortAssumption DEF Countable
<1> QED BY <1>10 DEF Far, Owed, T

\* A step without a new request, by which a held buffer gets nothing but a frame under way.
LEMMA DistancesKept ==
    ASSUME PortInv, PortInv', Distances, requests' = requests, lastidx' = lastidx, late <= late',
           HeldFrames' \subseteq HeldFrames, InFlight' \subseteq InFlight \cup HeldFrames, NEW x,
           \A i \in Index \ Held : i # x \/ rxbufstat'[i] = "EMPTY" => rxbufstat'[i] = rxbufstat[i],
           \A h \in HeldFrames' : rxbufstat'[h.idx] \in {"RCVD", "COMPLETE"} =>
               \/ rxbufstat[h.idx] \in {"RCVD", "COMPLETE"} /\ rxbuf'[h.idx] = rxbuf[h.idx]
               \/ \E e \in InFlight : e.idx = h.idx /\ rxbuf'[h.idx].req = e.req,
           answer' = answer \/ AnswerApart'
    PROVE  Distances'
<1> USE DEF PortInv
<1>1. /\ \A e \in InFlight \cup HeldFrames : e \in Frame /\ e.idx \in Index /\ e.req \in Nat
      /\ \A i \in Index : rxbuf[i].req \in Nat
      /\ late \in Nat /\ late' \in Nat /\ requests \in Nat
  <2>1. requests \in Nat
    BY PortAssumption
  <2>2. late' \in Nat
    BY PortAssumption DEF PortTypeOK
  <2> QED BY <2>1, <2>2, KnownTypes
<1>2. AllFar'
  <2> SUFFICES ASSUME NEW e \in InFlight \cup HeldFrames PROVE Far(e)'
    BY DEF AllFar
  <2>1. e \in Frame /\ Far(e)
    BY <1>1 DEF Distances, AllFar
  <2> QED BY <1>1, <2>1, FarKept
<1>3. FlightsApart'
  <2> SUFFICES ASSUME NEW e \in InFlight \cup HeldFrames, NEW h \in HeldFrames, h.idx = e.idx
               PROVE  FarApart(h.req, e.req, late')
    BY DEF FlightsApart
  <2>1. CASE e \in InFlight
    <3>1. FarApart(h.req, e.req, late)
      BY <2>1 DEF Distances, FlightsApart
    <3> QED BY <3>1, <1>1, FarMore
  <2>2. CASE e \in HeldFrames
    <3>1. h = e
      BY <2>2, HeldOnce
    <3> QED BY <3>1 DEF FarApart
  <2> QED BY <2>1, <2>2
<1>4. BuffersApart'
  <2> SUFFICES ASSUME NEW h \in HeldFrames', rxbufstat'[h.idx] \in {"RCVD", "COMPLETE"}
               PROVE  FarApart(h.req, rxbuf'[h.idx].req, late')
    BY DEF BuffersApart
  <2>1. h \in HeldFrames /\ h.req \in Nat /\ h.idx \in Index
    BY <1>1
  <2>2. CASE rxbufstat[h.idx] \in {"RCVD", "COMPLETE"} /\ rxbuf'[h.idx] = rxbuf[h.idx]
    <3>1. FarApart(h.req, rxbuf[h.idx].req, late) /\ rxbuf[h.idx].req \in Nat
      BY <1>1, <2>1, <2>2 DEF Distances, BuffersApart
    <3>2. FarApart(h.req, rxbuf[h.idx].req, late')
      BY <3>1, <1>1, <2>1, FarMore
    <3> QED BY <3>2, <2>2
  <2>3. CASE \E e \in InFlight : e.idx = h.idx /\ rxbuf'[h.idx].req = e.req
    <3>1. PICK e \in InFlight : e.idx = h.idx /\ rxbuf'[h.idx].req = e.req
      BY <2>3
    <3>2. FarApart(h.req, e.req, late) /\ e.req \in Nat
      BY <1>1, <2>1, <3>1 DEF Distances, FlightsApart
    <3>3. FarApart(h.req, e.req, late')
      BY <3>2, <1>1, <2>1, FarMore
    <3> QED BY <3>1, <3>3
  <2> QED BY <2>2, <2>3
<1>5. AnswerApart'
  <2>1. CASE answer' = answer
    <3>1. /\ answer.of.req \in Nat /\ answer.by.req \in Nat
          /\ FarApart(answer.of.req, answer.by.req, late)
      BY DEF Distances, AnswerApart
    <3>2. FarApart(answer.of.req, answer.by.req, late')
      BY <3>1, <1>1, FarMore
    <3> QED BY <2>1, <3>1, <3>2 DEF AnswerApart
  <2> QED BY <2>1
<1> QED BY <1>2, <1>3, <1>4, <1>5 DEF Distances

\* A new request: the frames under way with its index are all late, and the search has
\* passed that index.
LEMMA DistancesGetIndex ==
    ASSUME Room, PortInv, PortInv', Distances, NEW t \in Threads, GetIndex(t)
    PROVE  Distances'
<1> USE DEF PortInv
<1>1. \E i \in Index : rxbufstat[i] = "EMPTY"
  BY FreeIndex DEF GetIndex
<1>2. /\ NextIndex \in Index /\ rxbufstat[NextIndex] = "EMPTY"
      /\ \A j \in Index : rxbufstat[j] = "EMPTY" => Steps(NextIndex) <= Steps(j)
  BY <1>1, NextIsFree
<1>3. /\ lastidx' = NextIndex /\ requests' = requests + 1
      /\ \A i \in Index : i # NextIndex => rxbufstat'[i] = rxbufstat[i]
      /\ rxbufstat'[NextIndex] = "ALLOC"
  BY <1>2, GetIndexLeaves
<1>4. PICK g \in HeldFrames' : /\ g.idx = NextIndex /\ g.req = requests + 1
                               /\ \A h \in HeldFrames' : h \in HeldFrames \/ h = g
  BY <1>2, GetIndexLeaves
<1>5. /\ rxbuf' = rxbuf /\ answer' = answer /\ late' = late
      /\ wire' = wire /\ storing' = storing
  BY DEF GetIndex
<1>6. InFlight' = InFlight
  BY <1>5 DEF InFlight
<1>7. /\ \A e \in InFlight \cup HeldFrames : e \in Frame /\ e.idx \in Index /\ e.req \in Nat
      /\ requests \in Nat /\ g \in Frame
  <2>1. g \in Frame
    <3>1. \A u \in Threads : \A k \in DOMAIN hold'[u] : hold'[u][k] \in Frame
      <4>1. \A u \in Threads : hold'[u] \in Seq(Frame)
        BY DEF PortTypeOK
      <4> QED BY <4>1
    <3> QED BY <3>1 DEF HeldFrames
  <2> QED BY <2>1, KnownTypes, PortAssumption
<1>8. AllFar'
  <2> SUFFICES ASSUME NEW e \in InFlight \cup HeldFrames' PROVE Far(e)'
    BY <1>6 DEF AllFar
  <2>1. CASE e \in InFlight \cup HeldFrames
    <3>1. e \in Frame /\ Far(e)
      BY <2>1, <1>7 DEF Distances, AllFar
    <3> QED BY <3>1, <1>2, FarGetIndex
  <2>2. CASE e = g
    <3>1. Far(g)'
      BY <1>2, <1>4, <1>7, FarNew
    <3> QED BY <3>1, <2>2 DEF Far
  <2> QED BY <2>1, <2>2, <1>4
<1>9. FlightsApart'
  <2> SUFFICES ASSUME NEW e \in InFlight, NEW h \in HeldFrames', h.idx = e.idx
               PROVE  FarApart(h.req, e.req, late)
    BY <1>5, <1>6 DEF FlightsApart
  <2>1. CASE h \in HeldFrames
    BY <2>1 DEF Distances, FlightsApart
  <2>2. CASE h = g
    <3>1. e.idx = NextIndex /\ h.req = requests + 1
      BY <2>2, <1>4
    <3>2. \A u \in Threads : \A k \in DOMAIN hold[u] : hold[u][k] # e
      BY <3>1, <1>2, HeldWays, HeldOnce
    <3>3. Cardinality(Leaked) + 1 <= late
      BY <3>2, StrayIsLate
    <3>4. Cardinality(Ahead(e.idx)) = 0
      <4>1. ASSUME NEW j \in Ahead(e.idx) PROVE FALSE
        <5>1. j \in Index /\ rxbufstat[j] = "EMPTY" /\ Steps(j) < Steps(NextIndex)
          BY <3>1 DEF Ahead
        <5>2. Steps(NextIndex) <= Steps(j) /\ Steps(j) \in Nat /\ Steps(NextIndex) \in Nat
          BY <5>1, <1>2, StepsAfter
        <5> QED BY <5>1, <5>2
      <4>2. Ahead(e.idx) = {}
        BY <4>1
      <4> QED BY <4>2, FS_EmptySet
    <3>5. \/ requests - e.req + 0 >= EC_MAXBUF - Segments - Cardinality(Leaked) - 1
          \/ requests - e.req >= EC_MAXBUF - Segments - Cardinality(Leaked)
      <4>1. Far(e)
        BY DEF Distances, AllFar
      <4> QED BY <4>1, <3>4 DEF Far, Owed
    <3>6. /\ requests \in Nat /\ e.req \in Nat /\ late \in Nat /\ Cardinality(Leaked) \in Nat
      BY <1>7, Sizes DEF Countable
    <3>7. late > 0 /\ h.req - e.req >= EC_MAXBUF - Segments + 1 - late
      <4> DEFINE q == e.req   r == requests   n == Cardinality(Leaked)   p == h.req
      <4>1. /\ q \in Nat /\ r \in Nat /\ n \in Nat /\ late \in Nat /\ p = r + 1 /\ n + 1 <= late
            /\ \/ r - q + 0 >= EC_MAXBUF - Segments - n - 1
               \/ r - q >= EC_MAXBUF - Segments - n
        BY <3>1, <3>3, <3>5, <3>6
      <4> HIDE DEF q, r, n, p
      <4>2. late > 0 /\ p - q >= EC_MAXBUF - Segments + 1 - late
        BY <4>1, PortAssumption
      <4> QED BY <4>2 DEF p, q
    <3> QED BY <3>7 DEF FarApart
  <2> QED BY <2>1, <2>2, <1>4
<1>10. BuffersApart'
  <2> SUFFICES ASSUME NEW h \in HeldFrames', rxbufstat'[h.idx] \in {"RCVD", "COMPLETE"}
               PROVE  FarApart(h.req, rxbuf[h.idx].req, late)
    BY <1>5 DEF BuffersApart
  <2>1. h # g
    BY <1>3, <1>4
  <2>2. h \in HeldFrames /\ h.idx \in Index
    BY <2>1, <1>4, <1>7
  <2>3. h.idx # NextIndex
    BY <2>2, <1>2, HeldOnce
  <2>4. rxbufstat[h.idx] \in {"RCVD", "COMPLETE"}
    BY <2>2, <2>3, <1>3
  <2> QED BY <2>2, <2>4 DEF Distances, BuffersApart
<1>11. AnswerApart'
  BY <1>5 DEF Distances, AnswerApart
<1> QED BY <1>8, <1>9, <1>10, <1>11 DEF Distances

\* The steps that keep what is held, except those that send: what they change of the buffers.
LEMMA DistancesSame ==
    ASSUME PortInv, PortInv', Distances, requests' = requests, lastidx' = lastidx, late <= late',
           hold' = hold, InFlight' \subseteq InFlight \cup HeldFrames, answer' = answer, NEW x \in Index,
           \A i \in Index : i # x => rxbufstat'[i] = rxbufstat[i] /\ rxbuf'[i] = rxbuf[i],
           rxbufstat'[x] # "EMPTY" \/ rxbufstat'[x] = rxbufstat[x],
           rxbufstat'[x] \in {"RCVD", "COMPLETE"} =>
               \/ rxbufstat[x] \in {"RCVD", "COMPLETE"} /\ rxbuf'[x] = rxbuf[x]
               \/ \E e \in InFlight : e.idx = x /\ rxbuf'[x].req = e.req
    PROVE  Distances'
<1>1. HeldFrames' = HeldFrames
  BY DEF HeldFrames
<1>2. \A h \in HeldFrames : h.idx \in Index
  BY KnownTypes DEF PortInv
<1>3. \A i \in Index \ Held : i # x \/ rxbufstat'[i] = "EMPTY" => rxbufstat'[i] = rxbufstat[i]
  OBVIOUS
<1>4. ASSUME NEW h \in HeldFrames, rxbufstat'[h.idx] \in {"RCVD", "COMPLETE"}
      PROVE  \/ rxbufstat[h.idx] \in {"RCVD", "COMPLETE"} /\ rxbuf'[h.idx] = rxbuf[h.idx]
             \/ \E e \in InFlight : e.idx = h.idx /\ rxbuf'[h.idx].req = e.req
  <2>1. CASE h.idx = x
    BY <1>4, <2>1
  <2>2. CASE h.idx # x
    BY <1>2, <1>4, <2>2
  <2> QED BY <2>1, <2>2
<1> QED BY <1>1, <1>3, <1>4, DistancesKept

\* A sequence is one of its own elements, and so is what is left of it.
LEMMA OwnElements ==
    ASSUME NEW S, NEW s \in Seq(S)
    PROVE  LET E == {s[k] : k \in DOMAIN s}
           IN  /\ s # <<>> => \A m \in DOMAIN Tail(s) : Tail(s)[m] \in E
               /\ \A n \in DOMAIN s : \A m \in DOMAIN RemoveAt(s, n) : RemoveAt(s, n)[m] \in E
<1> DEFINE E == {s[k] : k \in DOMAIN s}
<1>1. s \in Seq(E)
  <2>1. DOMAIN s = 1 .. Len(s) /\ Len(s) \in Nat /\ \A k \in 1 .. Len(s) : s[k] \in E
    OBVIOUS
  <2>2. s = [k \in 1 .. Len(s) |-> s[k]]
    OBVIOUS
  <2> HIDE DEF E
  <2> QED BY <2>1, <2>2
<1> HIDE DEF E
<1>2. s # <<>> => Tail(s) \in Seq(E)
  BY <1>1
<1>3. s # <<>> => \A m \in DOMAIN Tail(s) : Tail(s)[m] \in E
  BY <1>2
<1>4. \A n \in DOMAIN s : RemoveAt(s, n) \in Seq(E)
  BY <1>1, WithoutOne
<1>5. \A n \in DOMAIN s : \A m \in DOMAIN RemoveAt(s, n) : RemoveAt(s, n)[m] \in E
  BY <1>4
<1> QED BY <1>3, <1>5 DEF E

\* A step that gives an index back.
LEMMA DistancesReleased ==
    ASSUME PortInv, PortInv', Distances, requests' = requests, lastidx' = lastidx, late <= late',
           NEW t \in Threads, pc[t] # "alloc", Released(t),
           rxbuf' = rxbuf, wire' = wire, storing' = storing,
           answer' = answer \/ AnswerApart'
    PROVE  Distances'
<1> USE DEF PortInv
<1> DEFINE x == Current(t).idx
<1>1. /\ x \in Index
      /\ rxbufstat' = [j \in Index |-> IF j = x THEN "EMPTY" ELSE rxbufstat[j]]
      /\ 1 \in DOMAIN hold[t] /\ hold[t][1].idx = x
      /\ DOMAIN hold[t] = 1 .. Len(hold[t]) /\ Len(hold[t]) \in Nat \ {0}
  <2>1. x \in Index /\ rxbufstat' = [j \in Index |-> IF j = x THEN "EMPTY" ELSE rxbufstat[j]]
    BY CurrentType DEF Released, PortTypeOK
  <2>2. /\ 1 \in DOMAIN hold[t] /\ hold[t][1].idx = x
        /\ DOMAIN hold[t] = 1 .. Len(hold[t]) /\ Len(hold[t]) \in Nat \ {0}
    BY CurrentType DEF Current
  <2> QED BY <2>1, <2>2
<1> HIDE DEF x
<1>2. InFlight' = InFlight
  BY DEF InFlight
<1>3. x \in Held
  BY <1>1 DEF Held, Indexes
<1>4. \A u \in Threads : /\ u # t => hold'[u] = hold[u]
                         /\ u = t => /\ DOMAIN hold'[u] = 1 .. Len(hold[t]) - 1
                                     /\ \A k \in DOMAIN hold'[u] : hold'[u][k] = hold[u][k + 1]
  BY ReleasedStep
<1>5. HeldFrames' \subseteq HeldFrames
  <2> SUFFICES ASSUME NEW u \in Threads, NEW k \in DOMAIN hold'[u] PROVE hold'[u][k] \in HeldFrames
    BY DEF HeldFrames
  <2>1. CASE u = t
    <3>1. k + 1 \in DOMAIN hold[u] /\ hold'[u][k] = hold[u][k + 1]
      BY <1>1, <1>4, <2>1
    <3> QED BY <3>1, HeldWays
  <2>2. CASE u # t
    BY <1>4, <2>2, HeldWays
  <2> QED BY <2>1, <2>2
<1>6. \A i \in Index \ Held : i # x \/ rxbufstat'[i] = "EMPTY" => rxbufstat'[i] = rxbufstat[i]
  BY <1>1, <1>3
<1>7. \A h \in HeldFrames' : h.idx \in Index
  BY <1>5, KnownTypes
<1>8. \A h \in HeldFrames' : rxbufstat'[h.idx] \in {"RCVD", "COMPLETE"} =>
         rxbufstat[h.idx] \in {"RCVD", "COMPLETE"} /\ rxbuf'[h.idx] = rxbuf[h.idx]
  BY <1>1, <1>7
<1> QED BY <1>2, <1>5, <1>6, <1>8, DistancesKept

\* Every step keeps the requests of an index apart.
LEMMA DistancesStep ==
    ASSUME Room, PortInv, PortInv', Collected, Distances, [Next]_vars
    PROVE  Distances'
<1> USE DEF PortInv
<1>0. 0 \in Index /\ late \in Nat /\ wire \in Seq(Frame)
  BY PortAssumption DEF Index, PortTypeOK
<1>1. ASSUME NEW t \in Threads, GetIndex(t) PROVE Distances'
  BY <1>1, DistancesGetIndex
<1>2. ASSUME NEW t \in Threads, OutFrame(t) PROVE Distances'
  <2> DEFINE n == Len(hold[t])
             frame == hold[t][n]
             x == frame.idx
  <2>1. n \in DOMAIN hold[t] /\ frame \in Frame /\ x \in Index
    BY <1>2, CurrentType DEF OutFrame
  <2>2. /\ rxbufstat' = [rxbufstat EXCEPT ![x] = "TX"] /\ wire' = Append(wire, frame)
        /\ rxbuf' = rxbuf /\ answer' = answer /\ late' = late /\ hold' = hold
        /\ storing' = storing /\ requests' = requests /\ lastidx' = lastidx
    BY <1>2 DEF OutFrame
  <2>3. frame \in HeldFrames
    BY <2>1, HeldWays
  <2> HIDE DEF n, frame
  <2>4. \A k \in DOMAIN wire' : wire'[k] = frame \/ (k \in DOMAIN wire /\ wire'[k] = wire[k])
    BY <1>0, <2>1, <2>2
  <2>5. InFlight' \subseteq InFlight \cup HeldFrames
    BY <2>2, <2>3, <2>4 DEF InFlight
  <2>6. /\ \A i \in Index : i # x => rxbufstat'[i] = rxbufstat[i] /\ rxbuf'[i] = rxbuf[i]
        /\ rxbufstat'[x] = "TX"
    BY <2>1, <2>2 DEF PortTypeOK
  <2> HIDE DEF x
  <2> QED BY <1>0, <2>1, <2>2, <2>5, <2>6, DistancesSame
<1>3. ASSUME NEW t \in Threads, TakeStored(t) PROVE Distances'
  <2> DEFINE x == Current(t).idx
  <2>1. /\ x \in Index /\ rxbufstat[x] = "RCVD"
        /\ rxbufstat' = [rxbufstat EXCEPT ![x] = "COMPLETE"]
        /\ rxbuf' = rxbuf /\ answer' = answer /\ late' = late /\ hold' = hold
        /\ wire' = wire /\ storing' = storing /\ requests' = requests /\ lastidx' = lastidx
    BY <1>3, CurrentType DEF TakeStored
  <2> HIDE DEF x
  <2>2. InFlight' = InFlight
    BY <2>1 DEF InFlight
  <2>3. /\ \A i \in Index : i # x => rxbufstat'[i] = rxbufstat[i] /\ rxbuf'[i] = rxbuf[i]
        /\ rxbufstat'[x] = "COMPLETE"
    BY <2>1 DEF PortTypeOK
  <2> QED BY <1>0, <2>1, <2>2, <2>3, DistancesSame
<1>4. ASSUME UNCHANGED <<rxbufstat, rxbuf, hold, answer, requests, lastidx>>, late <= late',
             InFlight' \subseteq InFlight
      PROVE  Distances'
  <2>1. /\ \A i \in Index : i # 0 => rxbufstat'[i] = rxbufstat[i] /\ rxbuf'[i] = rxbuf[i]
        /\ rxbufstat'[0] = rxbufstat[0] /\ rxbuf'[0] = rxbuf[0]
    BY <1>4
  <2> QED BY <1>0, <1>4, <2>1, DistancesSame
<1>5. ASSUME NEW t \in Threads, WaitForSocket(t) PROVE Distances'
  <2>1. /\ UNCHANGED <<rxbufstat, rxbuf, hold, answer, requests, lastidx>> /\ late' = late
        /\ wire' = wire /\ storing' = storing
    BY <1>5 DEF WaitForSocket
  <2>2. InFlight' = InFlight
    BY <2>1 DEF InFlight
  <2> QED BY <1>0, <1>4, <2>1, <2>2
<1>6. ASSUME NEW t \in Threads, Receive(t) PROVE Distances'
  <2>1. /\ UNCHANGED <<hold, answer, requests, lastidx>> /\ late' = late /\ storing = <<Nobody>>
    BY <1>6 DEF Receive
  <2>2. CASE UNCHANGED <<rxbufstat, rxbuf, wire, storing>>
    <3>1. InFlight' = InFlight
      BY <2>2 DEF InFlight
    <3> QED BY <1>0, <1>4, <2>1, <2>2, <3>1
  <2>3. CASE wire # <<>> /\ wire' = Tail(wire)
    <3> DEFINE frame == Head(wire)
               x == frame.idx
    <3>1. /\ frame \in InFlight
          /\ \A m \in DOMAIN wire' : wire'[m] \in InFlight
      <4>1. \A m \in DOMAIN wire' : wire'[m] \in {wire[k] : k \in DOMAIN wire}
        BY <1>0, <2>3, OwnElements
      <4>2. frame = wire[1] /\ 1 \in DOMAIN wire
        BY <1>0, <2>3, WithoutHead
      <4> QED BY <4>1, <4>2 DEF InFlight
    <3>2. InFlight' \subseteq InFlight
      <4>1. storing' = storing \/ storing' = <<t, frame>>
        BY <1>6, <2>3 DEF Receive
      <4>2. storing' # <<Nobody>> => storing'[2] = frame
        BY <2>1, <4>1
      <4> QED BY <3>1, <4>2 DEF InFlight
    <3>3. CASE UNCHANGED <<rxbufstat, rxbuf>>
      BY <1>0, <1>4, <2>1, <3>2, <3>3
    <3>4. CASE /\ rxbuf' = [rxbuf EXCEPT ![x] = Request(frame)]
               /\ rxbufstat' = [rxbufstat EXCEPT ![x] = "COMPLETE"]
      <4>1. x \in Index
        BY <3>1, KnownTypes
      <4>2. /\ \A i \in Index : i # x => rxbufstat'[i] = rxbufstat[i] /\ rxbuf'[i] = rxbuf[i]
            /\ rxbufstat'[x] = "COMPLETE" /\ rxbuf'[x].req = frame.req
        BY <3>4, <4>1 DEF PortTypeOK, Request
      <4>3. \E e \in InFlight : e.idx = x /\ rxbuf'[x].req = e.req
        BY <3>1, <4>2
      <4> HIDE DEF x, frame
      <4> QED BY <1>0, <2>1, <3>2, <4>1, <4>2, <4>3, DistancesSame
    <3> QED BY <1>6, <2>3, <3>3, <3>4 DEF Receive
  <2> QED BY <1>6, <2>2, <2>3 DEF Receive
<1>7. ASSUME NEW t \in Threads, Store(t) PROVE Distances'
  <2> DEFINE frame == storing[2]
             x == frame.idx
  <2>1. /\ storing # <<Nobody>> /\ storing' = <<Nobody>> /\ wire' = wire
        /\ rxbuf' = [rxbuf EXCEPT ![x] = Request(frame)]
        /\ rxbufstat' = [rxbufstat EXCEPT ![x] = "RCVD"]
        /\ UNCHANGED <<hold, answer, requests, lastidx>> /\ late' = late
    BY <1>7 DEF Store
  <2>2. frame \in InFlight /\ InFlight' \subseteq InFlight
    BY <2>1 DEF InFlight
  <2>3. x \in Index
    BY <2>2, KnownTypes
  <2>4. /\ \A i \in Index : i # x => rxbufstat'[i] = rxbufstat[i] /\ rxbuf'[i] = rxbuf[i]
        /\ rxbufstat'[x] = "RCVD" /\ rxbuf'[x].req = frame.req
    BY <2>1, <2>3 DEF PortTypeOK, Request
  <2>5. \E e \in InFlight : e.idx = x /\ rxbuf'[x].req = e.req
    BY <2>2, <2>4
  <2> HIDE DEF x, frame
  <2> QED BY <1>0, <2>1, <2>2, <2>3, <2>4, <2>5, DistancesSame
<1>8. ASSUME NEW t \in Threads, Collect(t) PROVE Distances'
  <2>1. /\ Released(t) /\ pc[t] = "read"
        /\ UNCHANGED <<rxbuf, wire, storing, requests, lastidx>> /\ late' = late
        /\ answer'.of.req = Current(t).req /\ answer'.by = rxbuf[Current(t).idx]
    BY <1>8 DEF Collect, Request
  <2>2. Current(t) \in HeldFrames /\ rxbufstat[Current(t).idx] \in {"RCVD", "COMPLETE"}
    <3>1. 1 \in DOMAIN hold[t]
      BY <2>1, CurrentType
    <3> QED BY <3>1, <2>1, HeldWays DEF Collected, Current
  <2>3. Current(t).req \in Nat /\ rxbuf[Current(t).idx].req \in Nat
    BY <2>2, KnownTypes
  <2>4. FarApart(Current(t).req, rxbuf[Current(t).idx].req, late)
    BY <2>2 DEF Distances, BuffersApart
  <2>5. AnswerApart'
    BY <2>1, <2>3, <2>4 DEF AnswerApart
  <2> QED BY <1>0, <2>1, <2>5, DistancesReleased
<1>9. ASSUME NEW t \in Threads, GiveUp(t) PROVE Distances'
  <2>1. /\ Released(t) /\ pc[t] = "tried"
        /\ UNCHANGED <<rxbuf, wire, storing, requests, lastidx, answer>>
        /\ late' = IF Underway(t) THEN late + 1 ELSE late
    BY <1>9 DEF GiveUp, Patience
  <2>2. late <= late'
    BY <1>0, <2>1
  <2> QED BY <2>1, <2>2, DistancesReleased
<1>10. ASSUME Resend PROVE Distances'
  <2>1. /\ UNCHANGED <<rxbufstat, rxbuf, hold, answer, requests, lastidx>>
        /\ wire' = wire /\ storing' = storing
        /\ late' = IF Underway("checker") THEN late + 1 ELSE late
    BY <1>10 DEF Resend, Patience
  <2>2. InFlight' = InFlight /\ late <= late'
    BY <1>0, <2>1 DEF InFlight
  <2> QED BY <1>4, <2>1, <2>2
<1>11. ASSUME Lose PROVE Distances'
  <2>1. /\ UNCHANGED <<rxbufstat, rxbuf, hold, answer, requests, lastidx>>
        /\ late' = late /\ storing' = storing
        /\ \E n \in DOMAIN wire : wire' = RemoveAt(wire, n)
    BY <1>11 DEF Lose
  <2>2. \A m \in DOMAIN wire' : wire'[m] \in {wire[k] : k \in DOMAIN wire}
    BY <1>0, <2>1, OwnElements
  <2>3. InFlight' \subseteq InFlight
    BY <2>1, <2>2 DEF InFlight
  <2> QED BY <1>0, <1>4, <2>1, <2>3
<1>12. ASSUME UNCHANGED vars PROVE Distances'
  <2>1. InFlight' = InFlight
    BY <1>12 DEF InFlight, vars
  <2> QED BY <1>0, <1>4, <1>12, <2>1 DEF vars
<1> QED
  BY <1>1, <1>2, <1>3, <1>5, <1>6, <1>7, <1>8, <1>9, <1>10, <1>11, <1>12 DEF Next

\* What is taken for the answer to a datagram of process data is one, too.
ProcessDataOnly ==
    answer.taken /\ answer.of.com \in {"LRW", "LRD"} => answer.by.com \in {"LRW", "LRD"}

\* The calls of process data compare the command of the answer.
LEMMA ProcessDataStep ==
    ASSUME ProcessDataOnly, [Next]_vars
    PROVE  ProcessDataOnly'
<1>1. ASSUME NEW t \in Threads, Collect(t) PROVE ProcessDataOnly'
  <2> DEFINE of == Request(Current(t))
             by == rxbuf[Current(t).idx]
  <2>1. answer' = [of |-> of, by |-> by, taken |-> Takes(t, of, by)]
    BY <1>1 DEF Collect
  <2> HIDE DEF of, by
  <2>2. CallOf("LRW").compares /\ CallOf("LRD").compares
    <3> DEFINE all == PositionCalls \cup AddressCalls \cup LogicalCalls
    <3>1. \A c \in all : c.com \in {"LRW", "LRD"} => c.compares
      BY DEF PositionCalls, AddressCalls, LogicalCalls, Call
    <3>2. (\E c \in all : c.com = "LRW") /\ (\E c \in all : c.com = "LRD")
      <4>1. /\ Call("LRW", TRUE, TRUE) \in all /\ Call("LRW", TRUE, TRUE).com = "LRW"
            /\ Call("LRD", TRUE, TRUE) \in all /\ Call("LRD", TRUE, TRUE).com = "LRD"
        BY DEF LogicalCalls, Call
      <4> HIDE DEF all
      <4> QED BY <4>1
    <3> HIDE DEF all
    <3>3. \A com : (\E c \in all : c.com = com) => CallOf(com) \in all /\ CallOf(com).com = com
      BY DEF CallOf, all
    <3> QED BY <3>1, <3>2, <3>3
  <2>3. Takes(t, of, by) /\ of.com \in {"LRW", "LRD"} => by.com \in {"LRW", "LRD"}
    BY <2>2 DEF Takes
  <2> QED BY <2>1, <2>3 DEF ProcessDataOnly
<1>2. ASSUME answer' = answer PROVE ProcessDataOnly'
  BY <1>2 DEF ProcessDataOnly
<1>3. ASSUME ~ \E t \in Threads : Collect(t) PROVE answer' = answer
  BY <1>3 DEF Next, vars, Lose, Resend, GetIndex, OutFrame, TakeStored, WaitForSocket, Receive, Store, GiveUp
<1> QED BY <1>1, <1>2, <1>3

\* At the start nothing is under way.
LEMMA DistancesInit == Init => Distances /\ ProcessDataOnly
<1> HAVE Init
<1>1. InFlight = {} /\ HeldFrames = {}
  BY DEF Init, InFlight, HeldFrames, Threads
<1>2. AllFar /\ FlightsApart /\ BuffersApart
  BY <1>1 DEF AllFar, FlightsApart, BuffersApart
<1>3. AnswerApart /\ ProcessDataOnly
  BY DEF Init, AnswerApart, FarApart, NoRequest, ProcessDataOnly
<1> QED BY <1>2, <1>3 DEF Distances

-----------------------------------------------------------------------------
(* The theorems.                                                            *)

\* At the start nothing has been collected.
LEMMA OwnInit == Init => Collected /\ Own
BY DEF Init, Collected, Own, Threads

\* As long as no answer was late, what a thread takes for its answer is its answer.
OwnOnTime == late = 0 => answer.of = answer.by

\* Buffers, frames and statuses have their types whatever the numbers (nicdrv.c, ec_portt).
THEOREM PortTypes == ASSUME Room PROVE Spec => []PortTypeOK
<1>1. PortInv => PortTypeOK
  BY DEF PortInv
<1> QED BY <1>1, PortInvariant, PTL

\* No two answers are awaited in one buffer: the search of ecx_getindex, which may end
\* without a free buffer and then takes one that is in use, always finds one.
THEOREM SharesNoBuffer == ASSUME Room PROVE Spec => []NoSharing
<1>1. PortInv => NoSharing
  BY DEF PortInv
<1> QED BY <1>1, PortInvariant, PTL

\* A buffer that nobody holds is free, except for one for each answer that ecx_inframe has
\* stored after its index was given back.
THEOREM LeaksOnlyToTheLate == ASSUME Room PROVE Spec => []LeaksAreLate
<1>1. PortInv => LeaksAreLate
  BY FewLeaked DEF PortInv
<1> QED BY <1>1, PortInvariant, PTL

\* As long as no answer was late, each thread takes its own, although ecx_inframe tells the
\* frames apart by their indexes only and each thread stores frames of the other.
THEOREM OnTimeEachItsOwn == ASSUME Room PROVE Spec => []OwnOnTime
<1>1. PortInv /\ Collected /\ Own /\ PortInv' /\ [Next]_vars => Collected' /\ Own'
  BY OwnStep
<1>2. Own => OwnOnTime
  BY DEF Own, OwnOnTime
<1> QED BY <1>1, <1>2, OwnInit, PortInvariant, PTL DEF Spec

\* What a thread takes for its answer is its answer, unless an answer was late; and then the
\* two requests are as far apart as the search of ecx_getindex takes to come back to an index.
\* Process data is never taken from the answer to another command.
THEOREM LateAnswersAreFar == ASSUME Room PROVE Spec => []OwnAnswers
<1>1. /\ Collected /\ Own /\ Distances /\ ProcessDataOnly /\ PortInv /\ PortInv' /\ [Next]_vars
           => Collected' /\ Own' /\ Distances' /\ ProcessDataOnly'
  BY OwnStep, DistancesStep, ProcessDataStep
<1>2. Distances /\ ProcessDataOnly => OwnAnswers
  BY DEF Distances, AnswerApart, FarApart, ProcessDataOnly, OwnAnswers
<1> QED BY <1>1, <1>2, OwnInit, DistancesInit, PortInvariant, PTL DEF Spec
=============================================================================
