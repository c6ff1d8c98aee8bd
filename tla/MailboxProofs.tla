---------------------------- MODULE MailboxProofs ----------------------------
(***************************************************************************)
(* The mailbox services for any calls, mailbox length, number of counters  *)
(* and of faults: what a read of an object has read is that object, of one *)
(* board, a file comes in its order, and the list of errors loses none but *)
(* the oldest.  And of the calls of the service data objects that they do  *)
(* not fail undisturbed, and transfer all of the object.                   *)
(*                                                                         *)
(* An answer is of the board that is there, for with a board its mailboxes *)
(* go; so what must be shown of a read in segments is that another board   *)
(* cannot go on with it (ReadGoesOn).  Requests, answers and jobs have the *)
(* fields of their protocol, and of most fields the values do not matter:  *)
(* the invariants speak of those that do.                                  *)
(*                                                                         *)
(* For the last it must be shown where the one answer to a request is, and *)
(* that master and slave agree on the place in the object (SdoInv); and    *)
(* that no counter comes round to the last one taken (CounterInv).         *)
(***************************************************************************)
EXTENDS MailboxServices, SequenceTheorems, TLAPS

-----------------------------------------------------------------------------
(* Sequences of anything.                                                   *)

IsSequence(s) == s \in Seq({s[k] : k \in DOMAIN s})

\* A sequence over some set is one.
LEMMA SequenceOver ==
    ASSUME NEW S, NEW s \in Seq(S)
    PROVE  IsSequence(s)
BY LenProperties DEF IsSequence

\* Its places are numbered from 1.
LEMMA SequencePlaces ==
    ASSUME NEW s, IsSequence(s)
    PROVE  Len(s) \in Nat /\ DOMAIN s = 1 .. Len(s) /\ (s = <<>> <=> Len(s) = 0)
BY LenProperties, EmptySeq DEF IsSequence

\* Two sequences put together have the elements of both.
LEMMA PutTogether ==
    ASSUME NEW s, IsSequence(s), NEW t, IsSequence(t), NEW u, u = s \o t
    PROVE  IsSequence(u) /\ Range(u) = Range(s) \cup Range(t)
<1> DEFINE S == {s[k] : k \in DOMAIN s} \cup {t[k] : k \in DOMAIN t}
<1>1. s \in Seq(S) /\ t \in Seq(S)
  BY SeqMonotonic DEF IsSequence
<1>. HIDE DEF S
<1>2. u \in Seq(S) /\ Range(u) = Range(s) \cup Range(t)
  BY <1>1, ConcatProperties, RangeConcatenation
<1>3. IsSequence(u)
  BY <1>2, SequenceOver
<1> QED BY <1>2, <1>3

\* The rest of a sequence.
LEMMA TheRest ==
    ASSUME NEW s, IsSequence(s), s # <<>>
    PROVE  /\ IsSequence(Tail(s)) /\ Len(Tail(s)) = Len(s) - 1
           /\ 1 \in DOMAIN s /\ Head(s) = s[1]
           /\ \A k \in DOMAIN Tail(s) : k + 1 \in DOMAIN s /\ Tail(s)[k] = s[k + 1]
<1> DEFINE S == {s[k] : k \in DOMAIN s}
<1>1. s \in Seq(S)
  BY DEF IsSequence
<1>. HIDE DEF S
<1>2. Tail(s) \in Seq(S) /\ Len(Tail(s)) = Len(s) - 1
      /\ \A i \in 1 .. Len(Tail(s)) : Tail(s)[i] = s[i + 1]
  BY <1>1, HeadTailProperties
<1>3. /\ Len(s) \in Nat \ {0} /\ DOMAIN s = 1 .. Len(s)
      /\ DOMAIN Tail(s) = 1 .. Len(s) - 1
  BY <1>1, <1>2, LenProperties, EmptySeq
<1>4. Head(s) = s[1]
  BY <1>1, <1>3, HeadTailOfSubSeq, SubSeqFull
<1>5. IsSequence(Tail(s))
  BY <1>2, SequenceOver
<1>6. \A k \in DOMAIN Tail(s) : k + 1 \in DOMAIN s /\ Tail(s)[k] = s[k + 1]
  BY <1>2, <1>3
<1> QED BY <1>2, <1>3, <1>4, <1>5, <1>6

\* A sequence with one more at its end.
LEMMA OneMore ==
    ASSUME NEW s, IsSequence(s), NEW e
    PROVE  /\ IsSequence(Append(s, e)) /\ Append(s, e) # <<>>
           /\ Len(Append(s, e)) = Len(s) + 1
           /\ DOMAIN Append(s, e) = 1 .. Len(s) + 1
           /\ Append(s, e)[Len(s) + 1] = e
           /\ \A k \in DOMAIN s : Append(s, e)[k] = s[k]
<1> DEFINE S == {s[k] : k \in DOMAIN s} \cup {e}
<1>1. s \in Seq(S) /\ e \in S
  BY SeqMonotonic DEF IsSequence
<1>. HIDE DEF S
<1>2. /\ Append(s, e) \in Seq(S) /\ Append(s, e) # <<>>
      /\ Len(Append(s, e)) = Len(s) + 1
      /\ \A i \in 1 .. Len(s) : Append(s, e)[i] = s[i]
      /\ Append(s, e)[Len(s) + 1] = e
  BY <1>1, AppendProperties
<1> QED BY <1>1, <1>2, LenProperties, SequenceOver

\* Two sequences with the same elements are the same.
LEMMA SameSequence ==
    ASSUME NEW s, IsSequence(s), NEW t, IsSequence(t), Len(s) = Len(t),
           \A k \in 1 .. Len(s) : s[k] = t[k]
    PROVE  s = t
<1> DEFINE S == {s[k] : k \in DOMAIN s} \cup {t[k] : k \in DOMAIN t}
<1>1. s \in Seq(S) /\ t \in Seq(S)
  BY SeqMonotonic DEF IsSequence
<1>. HIDE DEF S
<1> QED BY <1>1, SeqEqual

\* A function over 1 .. n is a sequence.
LEMMA FunctionSequence ==
    ASSUME NEW n \in Nat, NEW f, f = [k \in 1 .. n |-> f[k]]
    PROVE  IsSequence(f) /\ Len(f) = n
<1> DEFINE S == {f[k] : k \in DOMAIN f}
<1>1. f \in [1 .. n -> S]
  OBVIOUS
<1>. HIDE DEF S
<1>2. [1 .. n -> S] \in {[1 .. k -> S] : k \in Nat}
  OBVIOUS
<1>3. f \in UNION {[1 .. k -> S] : k \in Nat}
  BY <1>1, <1>2, Zenon
<1>4. f \in Seq(S)
  BY <1>3, SeqDef, Zenon
<1>5. IsSequence(f)
  BY <1>4, SequenceOver
<1>6. Len(f) \in Nat /\ DOMAIN f = 1 .. Len(f) /\ DOMAIN f = 1 .. n
  BY <1>1, <1>4, LenProperties
<1> QED BY <1>5, <1>6

\* Sequences of no, one and two elements.
LEMMA ShortSequences ==
    ASSUME NEW a, NEW b
    PROVE  /\ IsSequence(<<>>) /\ DOMAIN <<>> = {}
           /\ IsSequence(<<a>>) /\ DOMAIN <<a>> = {1} /\ <<a>>[1] = a
           /\ IsSequence(<<a, b>>) /\ DOMAIN <<a, b>> = {1, 2}
           /\ <<a, b>>[1] = a /\ <<a, b>>[2] = b
<1>1. IsSequence(<<>>) /\ DOMAIN <<>> = {}
  <2>1. <<>> \in Seq({}) /\ Len(<<>>) = 0
    BY EmptySeq
  <2>2. DOMAIN <<>> = {}
    OBVIOUS
  <2> QED BY <2>1, <2>2, SequenceOver
<1>2. IsSequence(<<a>>) /\ DOMAIN <<a>> = {1}
  <2>1. <<a>> \in Seq({a}) /\ DOMAIN <<a>> = {1}
    OBVIOUS
  <2> QED BY <2>1, SequenceOver
<1>3. IsSequence(<<a, b>>) /\ DOMAIN <<a, b>> = {1, 2}
  <2>1. <<a, b>> \in Seq({a, b}) /\ DOMAIN <<a, b>> = {1, 2}
    OBVIOUS
  <2> QED BY <2>1, SequenceOver
<1> QED BY <1>1, <1>2, <1>3

-----------------------------------------------------------------------------
(* The list of errors.                                                      *)

\* How many entries there are between the two ends of the ring, and where the k-th one is.
Between(h, t) == IF h >= t THEN h - t ELSE h - t + EC_MAXELIST + 1
Slot(t, k) == IF t + k - 1 <= EC_MAXELIST THEN t + k - 1 ELSE t + k - 1 - (EC_MAXELIST + 1)

\* A list l holds what is in the sequence r, in its order.
Holds(l, r) ==
    /\ l.head \in Places /\ l.tail \in Places
    /\ l = [Error |-> l.Error, head |-> l.head, tail |-> l.tail]
    /\ DOMAIN l.Error = Places
    /\ IsSequence(r) /\ Len(r) = Between(l.head, l.tail)
    /\ \A k \in 1 .. Len(r) : r[k] = l.Error[Slot(l.tail, k)]

ErrorInv == Holds(elist, reported) /\ (IsError => ecaterror)

\* A number below n is its own remainder, also when n is added.
LEMMA Remainder ==
    ASSUME NEW n \in Nat \ {0}, NEW x \in 0 .. n - 1
    PROVE  x % n = x /\ (x + n) % n = x
OBVIOUS

\* The remainders of the ring, without remainders.
LEMMA Ring ==
    ASSUME NEW h \in Places, NEW t \in Places
    PROVE  /\ (h - t + EC_MAXELIST + 1) % (EC_MAXELIST + 1) = Between(h, t)
           /\ Between(h, t) \in 0 .. EC_MAXELIST
           /\ \A k \in 1 .. EC_MAXELIST + 1 :
                 (t + k - 1) % (EC_MAXELIST + 1) = Slot(t, k) /\ Slot(t, k) \in Places
<1> DEFINE n == EC_MAXELIST + 1
<1>1. n \in Nat \ {0} /\ h \in 0 .. n - 1 /\ t \in 0 .. n - 1
  BY ErrorListAssumption DEF Places
<1>. HIDE DEF n
<1>2. \A x \in 0 .. n - 1 : x % n = x /\ (x + n) % n = x
  BY <1>1, Remainder
<1>3. (h - t + n) % n = IF h >= t THEN h - t ELSE h - t + n
  <2>1. CASE h >= t
    BY <2>1, <1>1, <1>2
  <2>2. CASE ~(h >= t)
    <3>1. h - t + n \in 0 .. n - 1
      BY <2>2, <1>1
    <3> QED BY <2>2, <3>1, <1>2
  <2> QED BY <2>1, <2>2
<1>4. ASSUME NEW k \in 1 .. n
      PROVE  (t + k - 1) % n = IF t + k - 1 <= n - 1 THEN t + k - 1 ELSE t + k - 1 - n
  <2>1. CASE t + k - 1 <= n - 1
    <3>1. t + k - 1 \in 0 .. n - 1
      BY <2>1, <1>1
    <3> QED BY <2>1, <3>1, <1>2
  <2>2. CASE ~(t + k - 1 <= n - 1)
    <3>1. t + k - 1 - n \in 0 .. n - 1 /\ t + k - 1 = (t + k - 1 - n) + n
      BY <2>2, <1>1
    <3> QED BY <2>2, <3>1, <1>2
  <2> QED BY <2>1, <2>2
<1> USE DEF n
<1>5. (h - t + EC_MAXELIST + 1) % (EC_MAXELIST + 1) = Between(h, t)
  <2>1. h - t + EC_MAXELIST + 1 = h - t + n
    BY <1>1, ErrorListAssumption DEF Places
  <2> QED BY <2>1, <1>1, <1>3, ErrorListAssumption DEF Between
<1>6. Between(h, t) \in 0 .. EC_MAXELIST
  BY <1>1, ErrorListAssumption DEF Between, Places
<1>7. ASSUME NEW k \in 1 .. EC_MAXELIST + 1
      PROVE  (t + k - 1) % (EC_MAXELIST + 1) = Slot(t, k) /\ Slot(t, k) \in Places
  BY <1>1, <1>4, ErrorListAssumption DEF Slot, Places
<1> QED BY <1>5, <1>6, <1>7

\* What the list holds is what the application finds in it.
LEMMA HoldsListed ==
    ASSUME ErrorInv
    PROVE  ErrorsKept
<1>1. ErrorCount = Len(reported) /\ Len(reported) \in 0 .. EC_MAXELIST
  BY Ring DEF ErrorInv, Holds, ErrorCount
<1>2. \A k \in 1 .. ErrorCount :
         elist.Error[(elist.tail + k - 1) % (EC_MAXELIST + 1)] = reported[k]
  BY <1>1, Ring, ErrorListAssumption DEF ErrorInv, Holds
<1>3. IsSequence(Listed) /\ Len(Listed) = ErrorCount /\ \A k \in 1 .. ErrorCount : Listed[k] = reported[k]
  <2>1. Listed = [k \in 1 .. ErrorCount |-> Listed[k]]
    BY DEF Listed
  <2>2. \A k \in 1 .. ErrorCount : Listed[k] = reported[k]
    BY <1>2 DEF Listed
  <2>3. ErrorCount \in Nat
    BY <1>1
  <2> QED BY <2>1, <2>2, <2>3, FunctionSequence
<1>4. IsSequence(reported)
  BY DEF ErrorInv, Holds
<1>5. Listed = reported
  BY <1>1, <1>3, <1>4, SameSequence
<1> QED BY <1>5 DEF ErrorsKept, ErrorInv

\* The place of the next entry is none of those in use.
LEMMA HeadIsFree ==
    ASSUME NEW h \in Places, NEW t \in Places
    PROVE  \A k \in 1 .. Between(h, t) : Slot(t, k) # h
<1>1. EC_MAXELIST \in Nat \ {0} /\ h \in 0 .. EC_MAXELIST /\ t \in 0 .. EC_MAXELIST
  BY ErrorListAssumption DEF Places
<1> QED BY <1>1 DEF Slot, Between

\* How the places move when an entry is put at the head or taken from the tail.
LEMMA RingMoves ==
    ASSUME NEW h \in Places, NEW t \in Places
    PROVE  /\ After(h) \in Places /\ Slot(t, Between(h, t) + 1) = h
           /\ After(h) = t <=> Between(h, t) = EC_MAXELIST
           /\ After(h) # t => Between(After(h), t) = Between(h, t) + 1
           /\ h # t <=> Between(h, t) > 0
           /\ h # t => Between(h, After(t)) = Between(h, t) - 1
           /\ \A k \in 1 .. EC_MAXELIST : Slot(After(t), k) = Slot(t, k + 1)
           /\ Slot(t, 1) = t
           /\ \A k \in 2 .. EC_MAXELIST + 1 : Slot(t, k) # t
<1>1. EC_MAXELIST \in Nat \ {0} /\ h \in 0 .. EC_MAXELIST /\ t \in 0 .. EC_MAXELIST
  BY ErrorListAssumption DEF Places
<1>2. After(h) \in Places /\ Slot(t, Between(h, t) + 1) = h
  BY <1>1 DEF After, Places, Slot, Between
<1>3. /\ After(h) = t <=> Between(h, t) = EC_MAXELIST
      /\ After(h) # t => Between(After(h), t) = Between(h, t) + 1
      /\ h # t <=> Between(h, t) > 0
      /\ h # t => Between(h, After(t)) = Between(h, t) - 1
  BY <1>1 DEF After, Places, Between
<1>4. /\ \A k \in 1 .. EC_MAXELIST : Slot(After(t), k) = Slot(t, k + 1)
      /\ Slot(t, 1) = t
      /\ \A k \in 2 .. EC_MAXELIST + 1 : Slot(t, k) # t
  BY <1>1 DEF After, Slot
<1> QED BY <1>2, <1>3, <1>4

\* An empty list.
LEMMA EmptyHolds == ErrorInit => ErrorInv
<1> SUFFICES ASSUME ErrorInit PROVE ErrorInv
  OBVIOUS
<1>1. 0 \in Places /\ Between(0, 0) = 0
  BY ErrorListAssumption DEF Places, Between
<1>2. reported = <<>> /\ IsSequence(reported) /\ Len(reported) = 0
  BY ShortSequences, EmptySeq DEF ErrorInit
<1>3. elist.head = 0 /\ elist.tail = 0 /\ elist.Error = [k \in Places |-> "none"]
      /\ elist = [Error |-> elist.Error, head |-> elist.head, tail |-> elist.tail]
  BY DEF ErrorInit
<1>4. ~IsError
  BY <1>3 DEF IsError
<1> QED BY <1>1, <1>2, <1>3, <1>4 DEF ErrorInv, Holds

\* A new entry, with or without the loss of the oldest.
LEMMA PushKeeps ==
    ASSUME ErrorInv, NEW e, PushError(e)
    PROVE  ErrorInv'
<1> DEFINE h == elist.head
           t == elist.tail
           E == elist.Error
           all == Append(reported, e)
           n == Len(reported)
<1>1. /\ h \in Places /\ t \in Places /\ DOMAIN E = Places /\ IsSequence(reported)
      /\ n = Between(h, t) /\ \A k \in 1 .. n : reported[k] = E[Slot(t, k)]
  BY DEF ErrorInv, Holds
<1>2. /\ n \in 0 .. EC_MAXELIST
      /\ \A k \in 1 .. EC_MAXELIST + 1 : Slot(t, k) \in Places
  BY <1>1, Ring
<1>3. /\ elist'.Error = [E EXCEPT ![h] = e] /\ elist'.head = After(h)
      /\ elist'.tail = TailAfter(t, After(h))
      /\ elist' = [Error |-> elist'.Error, head |-> elist'.head, tail |-> elist'.tail]
      /\ ecaterror' = TRUE
      /\ reported' = IF Len(all) > EC_MAXELIST THEN Tail(all) ELSE all
  BY DEF PushError
<1>4. /\ IsSequence(all) /\ all # <<>> /\ Len(all) = n + 1
      /\ all[n + 1] = e /\ \A k \in 1 .. n : all[k] = reported[k]
      /\ DOMAIN all = 1 .. n + 1
  BY <1>1, OneMore, SequencePlaces
<1>5. \A k \in 1 .. n + 1 : all[k] = elist'.Error[Slot(t, k)]
  <2>1. ASSUME NEW k \in 1 .. n PROVE all[k] = elist'.Error[Slot(t, k)]
    <3>1. \A i \in 1 .. Between(h, t) : Slot(t, i) # h
      BY <1>1, HeadIsFree
    <3>2. k \in 1 .. EC_MAXELIST + 1
      BY <1>2, ErrorListAssumption
    <3>3. Slot(t, k) \in Places /\ Slot(t, k) # h
      BY <1>1, <1>2, <3>1, <3>2
    <3> QED BY <3>3, <1>1, <1>3, <1>4
  <2>2. all[n + 1] = elist'.Error[Slot(t, n + 1)]
    BY <1>1, <1>3, <1>4, RingMoves
  <2> QED BY <2>1, <2>2, <1>2
<1>6. After(h) \in Places /\ After(t) \in Places
  BY <1>1, RingMoves
<1>7. Holds(elist', reported')
  <2>1. CASE After(h) = t
    <3>1. n = EC_MAXELIST
      BY <2>1, <1>1, RingMoves
    <3>2. reported' = Tail(all) /\ elist'.tail = After(t)
      BY <2>1, <3>1, <1>2, <1>3, <1>4, ErrorListAssumption DEF TailAfter
    <3>3. /\ IsSequence(reported') /\ Len(reported') = n
          /\ \A k \in DOMAIN reported' : reported'[k] = all[k + 1]
      <4> HIDE DEF all
      <4>1. /\ IsSequence(Tail(all)) /\ Len(Tail(all)) = Len(all) - 1
            /\ \A k \in DOMAIN Tail(all) : Tail(all)[k] = all[k + 1]
        BY <1>4, TheRest
      <4>2. Len(all) - 1 = n
        BY <1>2, <1>4
      <4> QED BY <3>2, <4>1, <4>2
    <3>4. DOMAIN reported' = 1 .. n
      BY <3>3, SequencePlaces
    <3>5. \A k \in 1 .. n : reported'[k] = elist'.Error[Slot(After(t), k)]
      <4>1. ASSUME NEW k \in 1 .. n PROVE reported'[k] = elist'.Error[Slot(After(t), k)]
        <5>1. Slot(After(t), k) = Slot(t, k + 1)
          BY <3>1, <1>1, RingMoves
        <5>2. k + 1 \in 1 .. n + 1
          BY <1>2
        <5> QED BY <5>1, <5>2, <3>3, <3>4, <1>5
      <4> QED BY <4>1
    <3>6. Between(After(h), After(t)) = n
      <4>1. After(t) # t
        BY <1>1, ErrorListAssumption DEF After, Places
      <4>2. Between(t, t) = 0
        BY <1>1, ErrorListAssumption DEF Between, Places
      <4> QED BY <2>1, <3>1, <1>1, ErrorListAssumption DEF Between, After, Places
    <3> QED BY <3>2, <3>3, <3>5, <3>6, <1>1, <1>3, <1>6 DEF Holds
  <2>2. CASE After(h) # t
    <3>1. n # EC_MAXELIST /\ Between(After(h), t) = n + 1
      BY <2>2, <1>1, RingMoves
    <3>2. reported' = all /\ elist'.tail = t
      BY <2>2, <3>1, <1>2, <1>3, <1>4, ErrorListAssumption DEF TailAfter
    <3> QED BY <3>1, <3>2, <1>1, <1>3, <1>4, <1>5, <1>6 DEF Holds
  <2> QED BY <2>1, <2>2
<1> QED BY <1>3, <1>7 DEF ErrorInv

\* The oldest entry is taken out; when there is none, the flag is cleared.
LEMMA PopKeeps ==
    ASSUME ErrorInv, PopError
    PROVE  ErrorInv'
<1>1. CASE IsError
  <2> DEFINE h == elist.head
             t == elist.tail
             E == elist.Error
             n == Len(reported)
  <2>1. /\ h \in Places /\ t \in Places /\ DOMAIN E = Places /\ IsSequence(reported)
        /\ n = Between(h, t) /\ \A k \in 1 .. n : reported[k] = E[Slot(t, k)]
        /\ elist = [Error |-> E, head |-> h, tail |-> t]
    BY DEF ErrorInv, Holds
  <2>2. /\ n \in 1 .. EC_MAXELIST
        /\ \A k \in 1 .. EC_MAXELIST + 1 : Slot(t, k) \in Places
    <3>1. Between(h, t) > 0
      BY <1>1, <2>1, RingMoves DEF IsError
    <3> QED BY <2>1, <3>1, Ring, ErrorListAssumption
  <2>3. /\ elist'.Error = [E EXCEPT ![t] = "none"] /\ elist'.head = h /\ elist'.tail = After(t)
        /\ elist' = [Error |-> elist'.Error, head |-> elist'.head, tail |-> elist'.tail]
        /\ reported' = Tail(reported) /\ ecaterror' = ecaterror /\ ecaterror
    BY <1>1, <2>1 DEF PopError
  <2>4. /\ IsSequence(reported') /\ Len(reported') = n - 1
        /\ \A k \in DOMAIN reported' : reported'[k] = reported[k + 1]
    BY <2>1, <2>2, <2>3, TheRest, SequencePlaces
  <2>5. DOMAIN reported' = 1 .. n - 1
    BY <2>4, SequencePlaces
  <2>6. ASSUME NEW k \in 1 .. n - 1 PROVE reported'[k] = elist'.Error[Slot(After(t), k)]
    <3>1. k \in 1 .. EC_MAXELIST /\ k + 1 \in 1 .. n /\ k + 1 \in 2 .. EC_MAXELIST + 1
      BY <2>2, ErrorListAssumption
    <3>2. Slot(After(t), k) = Slot(t, k + 1) /\ Slot(t, k + 1) \in Places /\ Slot(t, k + 1) # t
      BY <3>1, <2>1, <2>2, RingMoves
    <3> QED BY <3>1, <3>2, <2>1, <2>3, <2>4, <2>5
  <2>7. After(t) \in Places /\ Between(h, After(t)) = n - 1
    BY <1>1, <2>1, RingMoves DEF IsError
  <2>8. Holds(elist', reported')
    BY <2>1, <2>3, <2>4, <2>6, <2>7 DEF Holds
  <2> QED BY <2>3, <2>8 DEF ErrorInv
<1>2. CASE ~IsError
  <2>1. elist' = elist /\ reported' = reported
    BY <1>2 DEF PopError
  <2> QED BY <1>2, <2>1 DEF ErrorInv, IsError
<1> QED BY <1>1, <1>2

\* Nothing reported.
LEMMA NoErrorKeeps ==
    ASSUME ErrorInv, UNCHANGED errorVars
    PROVE  ErrorInv'
BY DEF ErrorInv, errorVars, IsError

-----------------------------------------------------------------------------
(* What the jobs do after an answer, or without one, whatever the protocol. *)

JobFields(j) == {"call", "n", "result"} \subseteq DOMAIN j

\* The next step o of a job j: the call stays what it is, and ends with a result or goes on
\* without one.  Who waits for a frame of the slave sends nothing, and a PDO is not answered.
GoesOn(j, o) ==
    /\ o.next \in {"send", "receive", "empty", "drain", "ended"}
    /\ JobFields(o.job) /\ o.job.call = j.call /\ o.job.n = j.n
    /\ o.next = "ended" => o.job.result \in Results \ {"open"}
    /\ o.next # "ended" => o.job.result = j.result
    /\ o.next \in {"send", "empty", "drain"} => j.call.op # "eoe_recv"
    /\ o.next \in {"receive", "empty"} => j.call.op # "rxpdo"

\* The ways to go on.
LEMMA WaysOn ==
    ASSUME NEW j, JobFields(j)
    PROVE  /\ j.call.op # "rxpdo" => GoesOn(j, ToReceive(j))
           /\ \A r \in Results \ {"open"} : GoesOn(j, ToEnd(j, r))
           /\ j.call.op # "eoe_recv" => GoesOn(j, ToSend(j)) /\ GoesOn(j, ToDrain(j))
           /\ j.call.op \notin {"eoe_recv", "rxpdo"} => GoesOn(j, ToEmpty(j))
BY DEF JobFields, GoesOn, ToReceive, ToEnd, ToSend, ToEmpty, ToDrain

\* A job with other local variables is the same job.
LEMMA SameJob ==
    ASSUME NEW j, JobFields(j), NEW k, JobFields(k), k.call = j.call, k.n = j.n,
           k.result = j.result, NEW o, GoesOn(k, o)
    PROVE  GoesOn(j, o)
BY DEF GoesOn

\* A call of the service data objects.
LEMMA SdoGoesOn ==
    ASSUME NEW j, JobFields(j), j.call.op \in Sdo, NEW m
    PROVE  /\ GoesOn(j, SdoAnswered(j, m)) /\ GoesOn(j, SdoLost(j)) /\ GoesOn(j, ToReceive(j))
           /\ JobFields(SdoPrepared(j)) /\ SdoPrepared(j).call = j.call
           /\ SdoPrepared(j).n = j.n /\ SdoPrepared(j).result = j.result
<1>1. ASSUME NEW k, JobFields(k), k.call = j.call, k.n = j.n, k.result = j.result
      PROVE  GoesOn(j, NextPart(k))
  BY <1>1 DEF NextPart, ToSend, GoesOn, JobFields, Sdo
<1>2. ASSUME NEW k, JobFields(k), k.call = j.call, k.n = j.n, k.result = j.result,
             NEW r \in Results \ {"open"}
      PROVE  GoesOn(j, ToEnd(k, r))
  BY <1>2, WaysOn, SameJob
<1> DEFINE kept == IF j.call.op = "read" THEN [j EXCEPT !.pieces = Append(@, m.piece)] ELSE j
<1>3. JobFields(kept) /\ kept.call = j.call /\ kept.n = j.n /\ kept.result = j.result
  BY DEF JobFields
<1>4. {"abort", "unexpected", "small", "ok", "lost"} \subseteq Results \ {"open"}
  BY DEF Results
<1>5. GoesOn(j, SdoAnswered(j, m))
  <2> HIDE DEF kept
  <2>1. SdoAnswered(j, m) \in {ToEnd(j, "abort"), ToEnd(j, "unexpected"), ToEnd(j, "small"),
                               NextPart(kept), ToEnd(kept, "ok")}
    BY DEF SdoAnswered, kept
  <2> QED BY <2>1, <1>1, <1>2, <1>3, <1>4
<1>6. GoesOn(j, SdoLost(j))
  BY <1>1, <1>2, <1>4 DEF SdoLost
<1> QED BY <1>5, <1>6, WaysOn DEF SdoPrepared, JobFields, Sdo

\* One of the other services of CANopen over EtherCAT.
LEMMA InfoGoesOn ==
    ASSUME NEW j, JobFields(j), j.call.op \in Info, NEW m
    PROVE  /\ j.call.op # "rxpdo" => GoesOn(j, InfoAnswered(j, m))
           /\ GoesOn(j, InfoLost(j)) /\ GoesOn(j, InfoSent(j))
<1>1. \A k : JobFields(k) /\ k.call = j.call /\ k.n = j.n /\ k.result = j.result =>
         /\ j.call.op # "rxpdo" => GoesOn(j, ToReceive(k))
         /\ GoesOn(j, ToDrain(k))
         /\ \A r \in Results \ {"open"} : GoesOn(j, ToEnd(k, r))
  BY DEF JobFields, GoesOn, ToReceive, ToEnd, ToDrain, Info
<1>2. Failure(j, m) \in {"abort", "unexpected"}
  BY DEF Failure
<1>3. {"abort", "unexpected", "small", "ok", "lost"} \subseteq Results \ {"open"}
  BY DEF Results
<1>4. \A r \in Results \ {"open"} : \A k :
         JobFields(k) /\ k.call = j.call /\ k.n = j.n /\ k.result = j.result
           => GoesOn(j, NextEntry(k, r))
  <2> TAKE r \in Results \ {"open"}
  <2> TAKE k
  <2> HAVE JobFields(k) /\ k.call = j.call /\ k.n = j.n /\ k.result = j.result
  <2> DEFINE next == [k EXCEPT !.sub = @ + 1]
  <2>1. JobFields(next) /\ next.call = k.call /\ next.n = k.n /\ next.result = k.result
    BY DEF JobFields
  <2> QED BY <1>1, <2>1 DEF NextEntry
<1>5. \A v : LET k == [j EXCEPT !.list = v] IN
         JobFields(k) /\ k.call = j.call /\ k.n = j.n /\ k.result = j.result
  BY DEF JobFields
<1>6. j.call.op # "rxpdo" => GoesOn(j, ListAnswered(j, m))
  <2> DEFINE words == Words(j, m)
             n == Lesser(Len(words), j.call.room - Len(j.list))
             read == [j EXCEPT !.list = @ \o SubSeq(words, 1, n), !.first = FALSE, !.x = @ + 1]
  <2>1. JobFields(read) /\ read.call = j.call /\ read.n = j.n /\ read.result = j.result
    BY DEF JobFields
  <2>2. ListAnswered(j, m) \in {ToReceive(read), ToEnd(read, "ok"), ToEnd(j, Failure(j, m))}
    BY DEF ListAnswered
  <2> HIDE DEF read
  <2> QED BY <1>1, <1>2, <1>3, <2>1, <2>2
<1>7. GoesOn(j, DescriptionAnswered(j, m))
  BY <1>1, <1>2, <1>3, <1>5 DEF DescriptionAnswered
<1>8. GoesOn(j, EntryAnswered(j, m))
  BY <1>2, <1>3, <1>4, <1>5 DEF EntryAnswered
<1>9. GoesOn(j, PdoAnswered(j, m))
  BY <1>1, <1>2, <1>3, <1>5 DEF PdoAnswered
<1>10. j.call.op # "rxpdo" => GoesOn(j, InfoAnswered(j, m))
  BY <1>6, <1>7, <1>8, <1>9 DEF InfoAnswered, Info
<1> QED BY <1>1, <1>3, <1>4, <1>10 DEF InfoLost, InfoSent

\* Access to a file.
LEMMA FoeGoesOn ==
    ASSUME NEW j, JobFields(j), j.call.op \in Foe, NEW m
    PROVE  GoesOn(j, FoeAnswered(j, m)) /\ GoesOn(j, FoeSent(j)) /\ GoesOn(j, ToEnd(j, "lost"))
<1>1. \A k : JobFields(k) /\ k.call = j.call /\ k.n = j.n /\ k.result = j.result =>
         /\ GoesOn(j, ToReceive(k)) /\ GoesOn(j, ToSend(k))
         /\ \A r \in Results \ {"open"} : GoesOn(j, ToEnd(k, r))
  BY DEF JobFields, GoesOn, ToReceive, ToEnd, ToSend, Foe
<1>2. {"unexpected", "small", "refused", "packetnumber", "ok", "lost"} \subseteq Results \ {"open"}
  BY DEF Results
<1>3. GoesOn(j, ReadAnswered(j, m))
  <2> DEFINE kept == [j EXCEPT !.sends = "foe_ack", !.packet = m.packet, !.got = @ + m.len,
                               !.pieces = Append(@, m.piece), !.more = (m.len = FoeMax)]
  <2>1. JobFields(kept) /\ kept.call = j.call /\ kept.n = j.n /\ kept.result = j.result
    BY DEF JobFields
  <2>2. ReadAnswered(j, m) \in {ToSend(kept), ToEnd(j, "small"), ToEnd(j, "refused"), ToEnd(j, "unexpected")}
    BY DEF ReadAnswered
  <2> HIDE DEF kept
  <2> QED BY <1>1, <1>2, <2>1, <2>2
<1>4. \A k : JobFields(k) /\ k.call = j.call /\ k.n = j.n /\ k.result = j.result
               => GoesOn(j, NextPacket(k))
  <2> TAKE k
  <2> HAVE JobFields(k) /\ k.call = j.call /\ k.n = j.n /\ k.result = j.result
  <2> DEFINE len == Lesser(k.left, FoeMax)
             next == [k EXCEPT !.sends = "foe_data", !.packet = @ + 1, !.left = @ - len, !.seg = len,
                               !.final = FinalDue(k.left - len, len)]
  <2>1. JobFields(next) /\ next.call = k.call /\ next.n = k.n /\ next.result = k.result
    BY DEF JobFields
  <2>2. NextPacket(k) \in {ToSend(next), ToEnd(k, "ok")}
    BY DEF NextPacket
  <2> HIDE DEF next
  <2> QED BY <1>1, <1>2, <2>1, <2>2
<1>5. GoesOn(j, WriteAnswered(j, m))
  <2> DEFINE k == [j EXCEPT !.heard = m.kind]
             back == [k EXCEPT !.left = @ + k.seg, !.packet = @ - 1]
  <2>1. JobFields(k) /\ k.call = j.call /\ k.n = j.n /\ k.result = j.result
    BY DEF JobFields
  <2>2. JobFields(back) /\ back.call = j.call /\ back.n = j.n /\ back.result = j.result
    <3> HIDE DEF k
    <3> QED BY <2>1 DEF JobFields
  <2>3. WriteAnswered(j, m) \in {NextPacket(k), NextPacket(back), ToEnd(k, "packetnumber"),
                                 ToEnd(k, "ok"), ToEnd(k, "refused"), ToEnd(k, "unexpected")}
    BY DEF WriteAnswered
  <2> HIDE DEF k, back
  <2> QED BY <1>1, <1>2, <1>4, <2>1, <2>2, <2>3
<1> QED BY <1>1, <1>2, <1>3, <1>5 DEF FoeAnswered, FoeSent

\* A servo drive.
LEMMA SoeGoesOn ==
    ASSUME NEW j, JobFields(j), j.call.op \in Soe, NEW m
    PROVE  /\ GoesOn(j, SoeAnswered(j, m)) /\ GoesOn(j, SoeSent(j)) /\ GoesOn(j, SoeLost(j))
           /\ JobFields(SoePrepared(j)) /\ SoePrepared(j).call = j.call
           /\ SoePrepared(j).n = j.n /\ SoePrepared(j).result = j.result
<1>1. \A k : JobFields(k) /\ k.call = j.call /\ k.n = j.n /\ k.result = j.result =>
         /\ GoesOn(j, ToReceive(k)) /\ GoesOn(j, ToSend(k)) /\ GoesOn(j, ToEmpty(k))
         /\ \A r \in Results \ {"open"} : GoesOn(j, ToEnd(k, r))
  BY DEF JobFields, GoesOn, ToReceive, ToEnd, ToSend, ToEmpty, Soe
<1>2. {"unexpected", "abort", "ok", "lost"} \subseteq Results \ {"open"}
  BY DEF Results
<1>3. GoesOn(j, SoeReadAnswered(j, m))
  <2> DEFINE kept == Cut(j, m)
             read == [j EXCEPT !.pieces = IF kept.to < kept.from THEN @ ELSE Append(@, kept),
                               !.total = Lesser(@ + m.len, j.call.room)]
  <2>1. JobFields(read) /\ read.call = j.call /\ read.n = j.n /\ read.result = j.result
    BY DEF JobFields
  <2>2. SoeReadAnswered(j, m) \in {ToReceive(read), ToEnd(read, "ok"), ToEnd(j, "abort"), ToEnd(j, "unexpected")}
    BY DEF SoeReadAnswered
  <2> HIDE DEF read
  <2> QED BY <1>1, <1>2, <2>1, <2>2
<1>4. GoesOn(j, SoeWriteAnswered(j, m))
  BY <1>1, <1>2 DEF SoeWriteAnswered
<1>5. /\ JobFields(SoePrepared(j)) /\ SoePrepared(j).call = j.call
      /\ SoePrepared(j).n = j.n /\ SoePrepared(j).result = j.result
  BY DEF SoePrepared, JobFields
<1> QED BY <1>1, <1>2, <1>3, <1>4, <1>5 DEF SoeAnswered, SoeSent, SoeLost

\* Ethernet.
LEMMA EoeGoesOn ==
    ASSUME NEW j, JobFields(j), j.call.op \in Eoe, NEW m
    PROVE  /\ GoesOn(j, ParamsAnswered(j, m)) /\ GoesOn(j, RecvAnswered(j, m))
           /\ j.call.op # "eoe_recv" => GoesOn(j, EoeSent(j))
           /\ GoesOn(j, ToEnd(j, "lost"))
<1>1. \A k : JobFields(k) /\ k.call = j.call /\ k.n = j.n /\ k.result = j.result =>
         /\ GoesOn(j, ToReceive(k))
         /\ j.call.op # "eoe_recv" => GoesOn(j, ToSend(k))
         /\ \A r \in Results \ {"open"} : GoesOn(j, ToEnd(k, r))
  BY DEF JobFields, GoesOn, ToReceive, ToEnd, ToSend, Eoe
<1>2. {"ok", "mailbox", "unexpected", "invalid", "lost"} \subseteq Results \ {"open"}
  BY DEF Results
<1>3. GoesOn(j, ParamsAnswered(j, m))
  <2> DEFINE read == [j EXCEPT !.params = Unpacked(m.flags, m.bytes)]
  <2>1. JobFields(read) /\ read.call = j.call /\ read.n = j.n /\ read.result = j.result
    BY DEF JobFields
  <2>2. ParamsAnswered(j, m) \in {ToEnd(j, "ok"), ToEnd(j, "unexpected"), ToEnd(read, "ok"), ToEnd(read, "mailbox")}
    BY DEF ParamsAnswered
  <2> HIDE DEF read
  <2> QED BY <1>1, <1>2, <2>1, <2>2
<1>4. GoesOn(j, RecvAnswered(j, m))
  <2> DEFINE taken == Joined(j, m, j.call.room)
             closed == Closed(taken, m)
  <2>1. JobFields(taken) /\ taken.call = j.call /\ taken.n = j.n /\ taken.result = j.result
    BY DEF JobFields, Joined
  <2>2. JobFields(closed) /\ closed.call = j.call /\ closed.n = j.n /\ closed.result = j.result
    <3> HIDE DEF taken
    <3> QED BY <2>1 DEF JobFields, Closed
  <2>3. RecvAnswered(j, m) \in {ToEnd(j, "unexpected"), ToEnd(j, "invalid"), ToEnd(closed, "ok"), ToReceive(taken)}
    BY DEF RecvAnswered
  <2> HIDE DEF taken, closed
  <2> QED BY <1>1, <1>2, <2>1, <2>2, <2>3
<1>5. j.call.op # "eoe_recv" => GoesOn(j, EoeSent(j))
  <2> DEFINE next == [j EXCEPT !.offset = @ + FragmentLength(j), !.fragno = @ + 1]
  <2>1. JobFields(next) /\ next.call = j.call /\ next.n = j.n /\ next.result = j.result
    BY DEF JobFields
  <2>2. EoeSent(j) \in {ToReceive(j), ToEnd(j, "ok"), ToSend(next)}
    BY DEF EoeSent
  <2> HIDE DEF next
  <2> QED BY <1>1, <1>2, <2>1, <2>2
<1> QED BY <1>1, <1>2, <1>3, <1>4, <1>5

\* The services are apart, and a job begins open.
LEMMA Begins ==
    ASSUME NEW c \in Calls, NEW n, NEW j \in Begin(c, n)
    PROVE  JobFields(j) /\ j.call = c /\ j.n = n /\ j.result = "open"
BY DEF Begin, SdoBegin, InfoBegin, FoeBegin, SoeBegin, EoeBegin, JobFields

\* The call under way, whatever its service.
LEMMA CallGoesOn ==
    ASSUME JobFields(job), job.call \in Calls
    PROVE  /\ Op # "rxpdo" => \A m : GoesOn(job, Answered(m))
           /\ GoesOn(job, Unanswered)
           /\ Op # "eoe_recv" => GoesOn(job, Sent)
           /\ JobFields(Prepared) /\ Prepared.call = job.call
           /\ Prepared.n = job.n /\ Prepared.result = job.result
<1>1. Op = job.call.op
  BY DEF Op
<1>2. CASE Op \in Sdo
  <2>1. /\ \A m : Answered(m) = SdoAnswered(job, m)
        /\ Unanswered = SdoLost(job) /\ Sent = ToReceive(job) /\ Prepared = SdoPrepared(job)
    BY <1>2 DEF Answered, Unanswered, Sent, Prepared, Sdo, Info, Foe, Soe
  <2> QED BY <1>1, <1>2, <2>1, SdoGoesOn
<1>3. CASE Op \in Info
  <2>1. /\ \A m : Answered(m) = InfoAnswered(job, m)
        /\ Unanswered = InfoLost(job) /\ Sent = InfoSent(job) /\ Prepared = job
    BY <1>3 DEF Answered, Unanswered, Sent, Prepared, Sdo, Info, Foe, Soe
  <2> QED BY <1>1, <1>3, <2>1, InfoGoesOn
<1>4. CASE Op \in Foe
  <2>1. /\ \A m : Answered(m) = FoeAnswered(job, m)
        /\ Unanswered = ToEnd(job, "lost") /\ Sent = FoeSent(job) /\ Prepared = job
    BY <1>4 DEF Answered, Unanswered, Sent, Prepared, Sdo, Info, Foe, Soe
  <2> QED BY <1>1, <1>4, <2>1, FoeGoesOn
<1>5. CASE Op \in Soe
  <2>1. /\ \A m : Answered(m) = SoeAnswered(job, m)
        /\ Unanswered = SoeLost(job) /\ Sent = SoeSent(job) /\ Prepared = SoePrepared(job)
    BY <1>5 DEF Answered, Unanswered, Sent, Prepared, Sdo, Info, Foe, Soe
  <2> QED BY <1>1, <1>5, <2>1, SoeGoesOn
<1>6. CASE Op \in Eoe
  <2>1. /\ \A m : Answered(m) = IF Op = "eoe_recv" THEN RecvAnswered(job, m) ELSE ParamsAnswered(job, m)
        /\ Unanswered = ToEnd(job, "lost") /\ Sent = EoeSent(job) /\ Prepared = job
    BY <1>6 DEF Answered, Unanswered, Sent, Prepared, Sdo, Info, Foe, Soe, Eoe
  <2> QED BY <1>1, <1>6, <2>1, EoeGoesOn
<1> QED BY <1>1, <1>2, <1>3, <1>4, <1>5, <1>6, ServicesAssumption

-----------------------------------------------------------------------------
(* Requests and answers.                                                    *)

\* The requests whose data a slave may store, and those whose answer depends on the size.
Storing == {"write", "rxpdo", "foe_data", "soe_write", "eoe_set", "eoe_data"}
RequestOK(r, n) ==
    /\ r.kind \in Storing => r.n \in 0 .. n
    /\ r.kind \in {"odlist", "soe_read"} => r.index \in Indexes

\* What an answer of board b to an SDO read has is of that board and of the object it names,
\* and a packet of a file has the bytes of its number.
AnswerOK(m, b) ==
    /\ m.kind \in {"read", "write"} =>
         m.piece.board = b /\ (m.part = "first" => m.piece.index = m.index)
    /\ m.kind = "foe_data" => m.piece.from = (m.packet - 1) * FoeMax + 1

SegmentAnswer(m) == m.kind = "read" /\ m.part = "segment"
FirstRead(r) == r.kind = "read" /\ r.part # "segment"

\* The request of the call under way; that of an SDO says which part it is of.
LEMMA RequestGood ==
    ASSUME JobFields(job), job.call \in Calls, job.n \in Nat, Op # "eoe_recv"
    PROVE  /\ RequestOK(Request(Prepared), job.n)
           /\ Op = "read" => Request(Prepared).kind = "read" /\ Request(Prepared).part = job.part
<1>1. Op = job.call.op /\ job.call.index \in Indexes /\ Op \in Sdo \cup Info \cup Foe \cup Soe \cup Eoe
  BY ServicesAssumption DEF Op, Indexes
<1>2. job.n \in 0 .. job.n
  OBVIOUS
<1> DEFINE R == Request(Prepared)
<1>3. CASE Op \in Sdo
  <2>1. R = SdoRequest(job)
    BY <1>3 DEF Request, Sdo, Info, Foe, Soe
  <2> QED BY <1>1, <1>2, <1>3, <2>1 DEF SdoRequest, RequestOK, Storing, Sdo
<1>4. CASE Op \in Info
  <2>1. R = InfoRequest(job)
    BY <1>4 DEF Request, Prepared, Sdo, Info, Foe, Soe
  <2> QED BY <1>1, <1>2, <1>4, <2>1 DEF InfoRequest, RequestOK, Storing, Info
<1>5. CASE Op \in Foe
  <2>1. R = FoeRequest(job)
    BY <1>5 DEF Request, Prepared, Sdo, Info, Foe, Soe
  <2>2. R.n = job.n /\ R.index = job.call.index
    BY <2>1 DEF FoeRequest
  <2> QED BY <1>1, <1>2, <1>5, <2>2 DEF RequestOK, Foe
<1>6. CASE Op \in Soe
  <2> DEFINE k == SoePrepared(job)
  <2>1. R = SoeRequest(k)
    BY <1>6 DEF Request, Prepared, Sdo, Info, Foe, Soe
  <2>2. k.call = job.call /\ k.n = job.n
    BY <1>1, <1>6, SoeGoesOn
  <2> HIDE DEF k
  <2> QED BY <1>1, <1>2, <1>6, <2>1, <2>2 DEF SoeRequest, RequestOK, Storing, Soe
<1>7. CASE Op \in Eoe
  <2>1. R = EoeRequest(job)
    BY <1>7 DEF Request, Prepared, Sdo, Info, Foe, Soe, Eoe
  <2> QED BY <1>1, <1>2, <1>7, <2>1 DEF EoeRequest, Fragment, RequestOK, Storing, Eoe
<1> QED BY <1>1, <1>3, <1>4, <1>5, <1>6, <1>7

\* What a slave does with a request r: good answers, data of a call made so far, and a read
\* in segments goes on only if it was begun.
OutcomeOK(o, r, n) ==
    /\ IsSequence(o.answers) /\ \A k \in DOMAIN o.answers : AnswerOK(o.answers[k], board)
    /\ o.store \in [Indexes -> 0 .. n]
    /\ o.server.op = "read" \/ (\E k \in DOMAIN o.answers : SegmentAnswer(o.answers[k]))
         => server.op = "read" \/ FirstRead(r)

\* One answer, or none.
LEMMA OneAnswer ==
    ASSUME NEW o, NEW r, NEW n, o.store \in [Indexes -> 0 .. n],
           o.server.op = "read" => server.op = "read" \/ FirstRead(r),
           \/ o.answers = <<>>
           \/ \E a : /\ o.answers = <<a>> /\ AnswerOK(a, board)
                     /\ SegmentAnswer(a) => server.op = "read" \/ FirstRead(r)
    PROVE  OutcomeOK(o, r, n)
<1>1. CASE o.answers = <<>>
  <2>1. IsSequence(o.answers) /\ DOMAIN o.answers = {}
    BY <1>1, ShortSequences
  <2> QED BY <2>1 DEF OutcomeOK
<1>2. ASSUME NEW a, o.answers = <<a>>, AnswerOK(a, board),
             SegmentAnswer(a) => server.op = "read" \/ FirstRead(r)
      PROVE  OutcomeOK(o, r, n)
  <2>1. IsSequence(o.answers) /\ DOMAIN o.answers = {1} /\ o.answers[1] = a
    BY <1>2, ShortSequences
  <2> QED BY <1>2, <2>1 DEF OutcomeOK
<1> QED BY <1>1, <1>2

\* Answers that are not of SDOs or files.
Other(m) == m.kind \notin {"read", "write", "foe_data"}

\* Whatever the request, such answers are good.
LEMMA OtherAnswers ==
    ASSUME NEW o, NEW r, NEW n, o.store \in [Indexes -> 0 .. n],
           o.server = server \/ o.server.op # "read",
           IsSequence(o.answers), \A k \in DOMAIN o.answers : Other(o.answers[k])
    PROVE  OutcomeOK(o, r, n)
BY DEF OutcomeOK, Other, AnswerOK, SegmentAnswer

\* The data of one more call.
LEMMA StoredTyped ==
    ASSUME NEW n, store \in [Indexes -> 0 .. n], NEW m \in 0 .. n, NEW i
    PROVE  Stored(i, m) \in [Indexes -> 0 .. n]
BY DEF Stored

\* Service data objects: a segment is served only in a transfer that was begun.
LEMMA SdoServed ==
    ASSUME NEW n, store \in [Indexes -> 0 .. n], NEW r, RequestOK(r, n), r.kind \in Sdo,
           NEW o \in ServeSdo(r)
    PROVE  OutcomeOK(o, r, n)
<1>1. CASE r.part = "segment" /\ ~InTurn(r)
  <2>1. o = Served(<<Abort>>, NoTransfer, store)
    BY <1>1 DEF ServeSdo
  <2>2. /\ o.answers = <<Abort>> /\ o.server.op = "none" /\ o.store = store
        /\ AnswerOK(Abort, board) /\ ~SegmentAnswer(Abort)
    BY <2>1 DEF Served, Abort, NoTransfer, AnswerOK, SegmentAnswer
  <2> QED BY <2>2, OneAnswer
<1>2. CASE ~(r.part = "segment" /\ ~InTurn(r)) /\ r.kind = "read"
  <2>1. o = ServeRead(r)
    BY <1>2 DEF ServeSdo
  <2>2. server.op = "read" \/ r.part # "segment"
    BY <1>2 DEF InTurn
  <2> DEFINE i == IF r.part = "first" THEN r.index ELSE server.index
             from == IF r.part = "first" THEN 1 ELSE server.pos + 1
             max == IF r.part = "first" THEN (IF ObjectSize(i) <= 4 THEN 4 ELSE SdoMax) ELSE SdoMax + 7
             to == Lesser(from + max - 1, ObjectSize(i))
             a == ReadAnswer(r.part, i, from, to)
  <2>3. /\ o.answers = <<a>> /\ o.store = store
        /\ o.server.op \in {"none", "read"}
    BY <2>1 DEF ServeRead, Served, NoTransfer
  <2>4. AnswerOK(a, board) /\ a.part = r.part
    BY DEF ReadAnswer, AnswerOK, Piece
  <2> HIDE DEF a
  <2>5. CASE r.part = "segment"
    BY <2>2, <2>3, <2>4, <2>5, OneAnswer
  <2>6. CASE r.part # "segment"
    BY <2>3, <2>4, <2>6, <1>2, OneAnswer DEF SegmentAnswer, FirstRead
  <2> QED BY <2>5, <2>6
<1>3. CASE ~(r.part = "segment" /\ ~InTurn(r)) /\ r.kind # "read"
  <2>1. o = ServeWrite(r) /\ r.kind = "write"
    BY <1>3 DEF ServeSdo, Sdo
  <2>2. /\ o.store \in {store, Stored(r.index, r.n)}
        /\ o.server.op # "read"
        /\ o.answers = <<WriteAnswer(r)>> \/ o.answers = <<Abort>>
    BY <2>1 DEF ServeWrite, Served, NoTransfer
  <2>3. o.store \in [Indexes -> 0 .. n]
    <3>1. r.n \in 0 .. n
      BY <2>1 DEF RequestOK, Storing
    <3>2. Stored(r.index, r.n) \in [Indexes -> 0 .. n]
      BY <3>1, StoredTyped
    <3> QED BY <2>2, <3>2
  <2>4. /\ AnswerOK(WriteAnswer(r), board) /\ ~SegmentAnswer(WriteAnswer(r))
        /\ AnswerOK(Abort, board) /\ ~SegmentAnswer(Abort)
    BY DEF WriteAnswer, Abort, AnswerOK, Piece, SegmentAnswer
  <2> QED BY <2>2, <2>3, <2>4, OneAnswer
<1> QED BY <1>1, <1>2, <1>3

\* The size of an object is a number.
LEMMA SizeIsNumber ==
    ASSUME NEW i \in Indexes
    PROVE  ObjectSize(i) \in Nat
BY MailboxAssumption DEF ObjectSize, Indexes

\* And so is the number of messages it takes.
LEMMA Quotient ==
    ASSUME NEW n \in Nat, NEW d \in Nat \ {0}
    PROVE  n \div d \in Nat
OBVIOUS

\* Lists and descriptions of objects, and PDOs by mailbox.
LEMMA InfoServed ==
    ASSUME NEW n, store \in [Indexes -> 0 .. n], NEW r, RequestOK(r, n), r.kind \in Info,
           NEW o \in ServeInfo(r)
    PROVE  OutcomeOK(o, r, n)
<1>1. CASE o = Refused(<<[kind |-> "info_error"]>>)
  <2> DEFINE a == [kind |-> "info_error"]
  <2>1. o.answers = <<a>> /\ o.server = server /\ o.store = store
    BY <1>1 DEF Refused
  <2>2. AnswerOK(a, board) /\ ~SegmentAnswer(a)
    BY DEF AnswerOK, SegmentAnswer
  <2> HIDE DEF a
  <2> QED BY <2>1, <2>2, OneAnswer
<1>2. CASE r.kind = "odlist" /\ o = Served(ListAnswers(r.index), server, store)
  <2> DEFINE as == ListAnswers(r.index)
  <2>1. o.answers = as /\ o.server = server /\ o.store = store
    BY <1>2 DEF Served
  <2>2. ObjectSize(r.index) \div ListMax + 1 \in Nat
    <3>1. ListMax \in Nat \ {0}
      BY MailboxAssumption, ServicesAssumption DEF ListMax
    <3>2. ObjectSize(r.index) \in Nat
      BY <1>2, SizeIsNumber DEF RequestOK
    <3> QED BY <3>1, <3>2, Quotient
  <2>3. /\ as = [k \in 1 .. ObjectSize(r.index) \div ListMax + 1 |-> as[k]]
        /\ \A k \in DOMAIN as : as[k].kind = "odlist"
    BY DEF ListAnswers
  <2>4. IsSequence(as)
    BY <2>2, <2>3, FunctionSequence
  <2> HIDE DEF as
  <2> QED BY <2>1, <2>3, <2>4, OtherAnswers DEF Other
<1>3. CASE r.kind \in {"odesc", "oe"} /\ o = Served(<<[kind |-> r.kind, word |-> Word(r.index, r.sub)]>>, server, store)
  <2> DEFINE a == [kind |-> r.kind, word |-> Word(r.index, r.sub)]
  <2>1. o.answers = <<a>> /\ o.server = server /\ o.store = store
    BY <1>3 DEF Served
  <2>2. AnswerOK(a, board) /\ ~SegmentAnswer(a)
    BY <1>3 DEF AnswerOK, SegmentAnswer
  <2> HIDE DEF a
  <2> QED BY <2>1, <2>2, OneAnswer
<1>4. CASE o = Served(<<[kind |-> "txpdo", len |-> ObjectSize(r.index), word |-> Word(r.index, 0)]>>, server, store)
  <2> DEFINE a == [kind |-> "txpdo", len |-> ObjectSize(r.index), word |-> Word(r.index, 0)]
  <2>1. o.answers = <<a>> /\ o.server = server /\ o.store = store
    BY <1>4 DEF Served
  <2>2. AnswerOK(a, board) /\ ~SegmentAnswer(a)
    BY DEF AnswerOK, SegmentAnswer
  <2> HIDE DEF a
  <2> QED BY <2>1, <2>2, OneAnswer
<1>5. CASE r.kind = "rxpdo" /\ o = Served(<<>>, server, IF r.len = ObjectSize(r.index) THEN Stored(r.index, r.n) ELSE store)
  <2>1. o.answers = <<>> /\ o.server = server /\ o.store \in {store, Stored(r.index, r.n)}
    BY <1>5 DEF Served
  <2>2. Stored(r.index, r.n) \in [Indexes -> 0 .. n]
    <3>1. r.n \in 0 .. n
      BY <1>5 DEF RequestOK, Storing
    <3> QED BY <3>1, StoredTyped
  <2> QED BY <2>1, <2>2, OneAnswer
<1>6. r.kind \in {"odlist", "odesc", "oe", "rxpdo", "txpdo"}
  BY DEF Info
<1> QED BY <1>1, <1>2, <1>3, <1>4, <1>5, <1>6 DEF ServeInfo

\* Files: a packet has the bytes of its number.
LEMMA FoeServed ==
    ASSUME NEW n, store \in [Indexes -> 0 .. n], NEW r, RequestOK(r, n),
           r.kind \in Foe \cup {"foe_ack", "foe_data"}, NEW o \in ServeFoe(r)
    PROVE  OutcomeOK(o, r, n)
<1>1. ASSUME NEW k, NEW i, o \in SendPacket(k, i)
      PROVE  OutcomeOK(o, r, n)
  <2> DEFINE a == Packet(k, i, (k - 1) * FoeMax + 1)
  <2>1. o.answers = <<a>> /\ o.server.op = "foe_read" /\ o.store = store
    BY <1>1 DEF SendPacket, Served, Reading
  <2>2. AnswerOK(a, board) /\ ~SegmentAnswer(a)
    BY DEF Packet, Piece, AnswerOK, SegmentAnswer
  <2> HIDE DEF a
  <2> QED BY <2>1, <2>2, OneAnswer
<1>2. ASSUME NEW as, as = <<>> \/ as = <<FoeError>> \/ as = <<FoeBusy>> \/ (\E k : as = <<Ack(k)>>),
             NEW s, s = server \/ s.op # "read", NEW st \in [Indexes -> 0 .. n],
             o = Served(as, s, st) \/ o = Delayed(as, s)
      PROVE  OutcomeOK(o, r, n)
  <2>1. o.answers = as /\ o.server = s /\ o.store \in [Indexes -> 0 .. n]
    <3>1. CASE o = Served(as, s, st)
      BY <3>1 DEF Served
    <3>2. CASE o = Delayed(as, s)
      BY <3>2 DEF Delayed
    <3> QED BY <1>2, <3>1, <3>2
  <2>2. /\ \A k : AnswerOK(Ack(k), board) /\ ~SegmentAnswer(Ack(k))
        /\ AnswerOK(FoeError, board) /\ ~SegmentAnswer(FoeError)
        /\ AnswerOK(FoeBusy, board) /\ ~SegmentAnswer(FoeBusy)
    BY DEF Ack, FoeError, FoeBusy, AnswerOK, SegmentAnswer
  <2> QED BY <1>2, <2>1, <2>2, OneAnswer
<1>3. NoTransfer.op # "read" /\ \A k, i, got : Writing(k, i, got).op # "read"
  BY DEF NoTransfer, Writing
<1>4. CASE r.kind = "foe_read"
  <2>1. o \in SendPacket(1, r.index)
    BY <1>4 DEF ServeFoe
  <2> QED BY <2>1, <1>1
<1>5. CASE r.kind = "foe_ack"
  <2>1. \/ o = Served(<<FoeError>>, NoTransfer, store) \/ o = Served(<<>>, NoTransfer, store)
        \/ o \in SendPacket(r.packet + 1, server.index)
    BY <1>5 DEF ServeFoe, ServeAck
  <2> QED BY <2>1, <1>1, <1>2, <1>3
<1>6. CASE r.kind = "foe_write"
  <2> DEFINE s == Writing(0, r.index, 0)
  <2>1. o = Served(<<Ack(0)>>, s, store) \/ o = Delayed(<<FoeBusy, Ack(0)>>, s)
    BY <1>6 DEF ServeFoe
  <2>2. CASE o = Delayed(<<FoeBusy, Ack(0)>>, s)
    <3>1. o.answers = <<FoeBusy, Ack(0)>> /\ o.server.op # "read" /\ o.store = store
      BY <2>2 DEF Delayed, Writing
    <3>2. Other(FoeBusy) /\ Other(Ack(0))
      BY DEF Other, FoeBusy, Ack
    <3>3. IsSequence(o.answers) /\ \A k \in DOMAIN o.answers : Other(o.answers[k])
      <4>1. /\ IsSequence(<<FoeBusy, Ack(0)>>) /\ DOMAIN <<FoeBusy, Ack(0)>> = {1, 2}
            /\ <<FoeBusy, Ack(0)>>[1] = FoeBusy /\ <<FoeBusy, Ack(0)>>[2] = Ack(0)
        BY ShortSequences
      <4> QED BY <3>1, <3>2, <4>1
    <3> QED BY <3>1, <3>3, OtherAnswers
  <2> QED BY <2>1, <2>2, <1>2, <1>3
<1>7. CASE r.kind = "foe_data"
  <2> DEFINE got == server.got + r.len
             st == IF got = r.size THEN Stored(r.index, r.n) ELSE store
  <2>1. \/ o = Served(<<FoeError>>, NoTransfer, store)
        \/ o = Served(<<Ack(r.packet)>>, Writing(r.packet, r.index, got), store)
        \/ o = Served(<<Ack(r.packet)>>, NoTransfer, st)
        \/ o = Delayed(<<FoeBusy>>, server)
    BY <1>7 DEF ServeFoe, ServeData
  <2>2. st \in [Indexes -> 0 .. n]
    <3>1. r.n \in 0 .. n
      BY <1>7 DEF RequestOK, Storing
    <3> QED BY <3>1, StoredTyped
  <2> HIDE DEF got, st
  <2> QED BY <2>1, <2>2, <1>2, <1>3
<1> QED BY <1>4, <1>5, <1>6, <1>7 DEF Foe

\* Parameters of a drive.
LEMMA SoeServed ==
    ASSUME NEW n, store \in [Indexes -> 0 .. n], NEW r, RequestOK(r, n),
           r.kind \in Soe \cup {"soe_part"}, NEW o \in ServeSoe(r)
    PROVE  OutcomeOK(o, r, n)
<1>1. ASSUME NEW as, as = <<>> \/ as = <<SoeError("soe_write")>> \/ as = <<[kind |-> "soe_written"]>>,
             NEW s, s.op # "read", NEW st \in [Indexes -> 0 .. n], o = Served(as, s, st)
      PROVE  OutcomeOK(o, r, n)
  <2>1. o.answers = as /\ o.server = s /\ o.store \in [Indexes -> 0 .. n]
    BY <1>1 DEF Served
  <2>2. /\ AnswerOK(SoeError("soe_write"), board) /\ ~SegmentAnswer(SoeError("soe_write"))
        /\ AnswerOK([kind |-> "soe_written"], board) /\ ~SegmentAnswer([kind |-> "soe_written"])
    BY DEF SoeError, AnswerOK, SegmentAnswer
  <2> QED BY <1>1, <2>1, <2>2, OneAnswer
<1>2. NoTransfer.op # "read"
  BY DEF NoTransfer
<1>3. CASE r.kind = "soe_read"
  <2> DEFINE as == AllData(r.index)
             count == (ObjectSize(r.index) + SoeMax - 1) \div SoeMax
  <2>1. o.answers = as /\ o.server = NoTransfer /\ o.store = store
    BY <1>3 DEF ServeSoe, Served
  <2>2. count \in Nat
    <3>1. SoeMax \in Nat \ {0}
      BY MailboxAssumption, ServicesAssumption DEF SoeMax
    <3>2. ObjectSize(r.index) + SoeMax - 1 \in Nat
      BY <1>3, <3>1, SizeIsNumber DEF RequestOK
    <3> QED BY <3>1, <3>2, Quotient
  <2>3. as = [k \in 1 .. count |-> as[k]] /\ \A k \in DOMAIN as : as[k].kind = "soe_data"
    BY DEF AllData, DriveData
  <2>4. IsSequence(as)
    <3> HIDE DEF count, as
    <3> QED BY <2>2, <2>3, FunctionSequence
  <2> HIDE DEF as
  <2> QED BY <1>2, <2>1, <2>3, <2>4, OtherAnswers DEF Other
<1>4. CASE r.kind = "soe_part"
  <2> DEFINE s == [op |-> "soe_write", left |-> r.left, got |-> Got + r.len]
  <2>1. o = Served(<<>>, s, store) \/ o = Served(<<SoeError("soe_write")>>, NoTransfer, store)
    BY <1>4 DEF ServeSoe, ServePart
  <2>2. s.op # "read"
    OBVIOUS
  <2> HIDE DEF s
  <2> QED BY <2>1, <2>2, <1>1, <1>2
<1>5. CASE r.kind = "soe_write"
  <2>1. \/ o = Served(<<[kind |-> "soe_written"]>>, NoTransfer, Stored(r.index, r.n))
        \/ o = Served(<<SoeError("soe_write")>>, NoTransfer, store)
    BY <1>5 DEF ServeSoe, ServeLast
  <2>2. Stored(r.index, r.n) \in [Indexes -> 0 .. n]
    <3>1. r.n \in 0 .. n
      BY <1>5 DEF RequestOK, Storing
    <3> QED BY <3>1, StoredTyped
  <2> QED BY <2>1, <2>2, <1>1, <1>2
<1> QED BY <1>3, <1>4, <1>5 DEF Soe

\* Ethernet settings and frames.
LEMMA EoeServed ==
    ASSUME NEW n, store \in [Indexes -> 0 .. n], NEW r, RequestOK(r, n), NEW o \in ServeEoe(r)
    PROVE  OutcomeOK(o, r, n)
<1>1. ASSUME r.kind \in Storing
      PROVE  Stored(r.index, r.n) \in [Indexes -> 0 .. n]
  BY <1>1, StoredTyped DEF RequestOK
<1>2. CASE r.kind = "eoe_data"
  <2>1. /\ o.answers = <<>> /\ o.server.op # "read"
        /\ o.store \in {store, Stored(r.index, r.n)}
    BY <1>2 DEF ServeEoe, ServeFragment, Served, NoTransfer
  <2>2. Stored(r.index, r.n) \in [Indexes -> 0 .. n]
    BY <1>1, <1>2 DEF Storing
  <2> QED BY <2>1, <2>2, OneAnswer
<1>3. CASE r.kind = "eoe_set"
  <2> DEFINE a == [kind |-> "eoe_set"]
  <2>1. o.answers = <<a>> /\ o.server = server /\ o.store \in {store, Stored(r.index, r.n)}
    BY <1>3 DEF ServeEoe, ServeParams, Served
  <2>2. Stored(r.index, r.n) \in [Indexes -> 0 .. n]
    BY <1>1, <1>3 DEF Storing
  <2>3. AnswerOK(a, board) /\ ~SegmentAnswer(a)
    BY DEF AnswerOK, SegmentAnswer
  <2> HIDE DEF a
  <2> QED BY <2>1, <2>2, <2>3, OneAnswer
<1>4. CASE r.kind \notin {"eoe_data", "eoe_set"}
  <2>1. \E fs, bytes :
           LET as == <<[kind |-> "eoe_get", flags |-> fs, bytes |-> bytes]>>
           IN  o = Served(as, server, store) \/ o = Refused(as)
    <3>1. o \in ServeParams(r)
      BY <1>4 DEF ServeEoe
    <3> QED BY <1>4, <3>1, Zenon DEF ServeParams
  <2>2. PICK fs, bytes :
           LET as == <<[kind |-> "eoe_get", flags |-> fs, bytes |-> bytes]>>
           IN  o = Served(as, server, store) \/ o = Refused(as)
    BY <2>1
  <2> DEFINE a == [kind |-> "eoe_get", flags |-> fs, bytes |-> bytes]
  <2>3. o.answers = <<a>> /\ o.server = server /\ o.store = store
    BY <2>2 DEF Served, Refused
  <2>4. AnswerOK(a, board) /\ ~SegmentAnswer(a)
    BY DEF AnswerOK, SegmentAnswer
  <2> HIDE DEF a
  <2> QED BY <2>3, <2>4, OneAnswer
<1> QED BY <1>2, <1>3, <1>4

\* Whatever the slave is asked, also if it does not know the service.
LEMMA ServeGood ==
    ASSUME NEW n, store \in [Indexes -> 0 .. n], NEW r, RequestOK(r, n),
           NEW o \in Serve(r) \cup IF server = NoTransfer THEN {Refused(<<MailboxError>>)} ELSE {}
    PROVE  OutcomeOK(o, r, n)
<1>1. CASE o = Refused(<<MailboxError>>)
  <2>1. o.answers = <<MailboxError>> /\ o.server = server /\ o.store = store
    BY <1>1 DEF Refused
  <2>2. AnswerOK(MailboxError, board) /\ ~SegmentAnswer(MailboxError)
    BY DEF MailboxError, AnswerOK, SegmentAnswer
  <2> QED BY <2>1, <2>2, OneAnswer
<1>2. CASE o \in Serve(r)
  <2>1. CASE r.kind \in Sdo
    BY <1>2, <2>1, SdoServed DEF Serve, Sdo, Info, Foe, Soe
  <2>2. CASE r.kind \in Info
    BY <1>2, <2>2, InfoServed DEF Serve, Sdo, Info, Foe, Soe
  <2>3. CASE r.kind \in Foe \cup {"foe_ack", "foe_data"}
    BY <1>2, <2>3, FoeServed DEF Serve, Sdo, Info, Foe, Soe
  <2>4. CASE r.kind \in Soe \cup {"soe_part"}
    BY <1>2, <2>4, SoeServed DEF Serve, Sdo, Info, Foe, Soe
  <2>5. CASE r.kind \notin Sdo \cup Info \cup Foe \cup {"foe_ack", "foe_data"} \cup Soe \cup {"soe_part"}
    <3>1. Serve(r) = ServeEoe(r)
      BY <2>5 DEF Serve, Sdo, Info, Foe, Soe
    <3> QED BY <1>2, <3>1, EoeServed
  <2> QED BY <2>1, <2>2, <2>3, <2>4, <2>5
<1> QED BY <1>1, <1>2

\* A frame that a slave sends.
LEMMA FragmentsGood ==
    ASSUME NEW i \in Indexes, NEW frameno, NEW stamped \in BOOLEAN
    PROVE  LET as == FragmentsOf(i, frameno, stamped)
           IN  IsSequence(as) /\ \A k \in DOMAIN as : as[k].kind = "eoe_data"
<1> DEFINE as == FragmentsOf(i, frameno, stamped)
           total == ObjectSize(i) + (IF stamped THEN Stamp ELSE 0)
           width == (EoeMax \div Block) * Block
           count == IF total <= EoeMax THEN 1 ELSE (total - EoeMax + width - 1) \div width + 1
<1>1. total \in Nat /\ EoeMax \in Nat /\ Block \in Nat \ {0} /\ EoeMax >= Block
  BY SizeIsNumber, MailboxAssumption, EthernetAssumption DEF EoeMax, Stamp
<1>2. width \in Nat \ {0}
  <2> HIDE DEF total
  <2>1. EoeMax \div Block \in Nat \ {0}
    BY <1>1
  <2> DEFINE q == EoeMax \div Block
  <2> HIDE DEF q
  <2>2. q * Block \in Nat \ {0}
    BY <1>1, <2>1 DEF q
  <2> QED BY <2>2 DEF q
<1>3. count \in Nat
  <2> HIDE DEF total, width
  <2>1. CASE total <= EoeMax
    BY <2>1
  <2>2. CASE ~(total <= EoeMax)
    <3>1. total - EoeMax + width - 1 \in Nat
      BY <2>2, <1>1, <1>2
    <3>2. (total - EoeMax + width - 1) \div width \in Nat
      BY <3>1, <1>2, Quotient
    <3> QED BY <2>2, <3>2
  <2> QED BY <2>1, <2>2
<1>4. as = [k \in 1 .. count |-> as[k]] /\ \A k \in DOMAIN as : as[k].kind = "eoe_data"
  BY DEF FragmentsOf
<1>5. IsSequence(as)
  <2> HIDE DEF count, as
  <2> QED BY <1>3, <1>4, FunctionSequence
<1> QED BY <1>4, <1>5

-----------------------------------------------------------------------------
(* The invariant.                                                           *)

\* The call under way: open until it ends; what it can still wait for or send.
JobInv ==
    /\ JobFields(job) /\ job.call \in Calls /\ job.n \in 0 .. MaxCalls /\ job.result \in Results
    /\ pc \in {"idle", "send", "sent", "empty", "receive", "again", "drain", "lost", "ended"}
    /\ pc = "idle" => job.pieces = <<>>
    /\ pc = "ended" => job.result # "open"
    /\ pc \notin {"idle", "ended"} => job.result = "open"
    /\ pc \in {"send", "sent", "empty", "drain"} => Op # "eoe_recv"
    /\ pc \in {"receive", "again", "empty"} => Op # "rxpdo"

\* The counters, what is stored and what was noted of the call.
CountInv ==
    /\ mbx_cnt \in 0 .. MaxCnt /\ lastcnt \in 0 .. MaxCnt
    /\ store \in [Indexes -> 0 .. job.n]
    /\ disturbed \in BOOLEAN /\ stale \in BOOLEAN /\ unsent \in 0 .. MaxCnt

\* The messages under way, and the one that may be sent or read again.
MessageOK(m, n) == m.cnt \in 0 .. MaxCnt /\ RequestOK(m.request, n)
MailInv ==
    /\ mbx_in = <<>> \/ (mbx_in = <<mbx_in[1]>> /\ MessageOK(mbx_in[1], job.n))
    /\ mbx_out = <<>> \/ (mbx_out = <<mbx_out[1]>> /\ AnswerOK(mbx_out[1], board))
    /\ IsSequence(answers) /\ \A k \in DOMAIN answers : AnswerOK(answers[k], board)
    /\ pc = "sent" => MessageOK(last, job.n)
    /\ pc = "again" => Other(last)

\* A segment may still come in answer to a read: the slave is in a read, or an answer with a
\* segment is under way, or the first request of one.
ReadGoesOn ==
    \/ server.op = "read"
    \/ mbx_out # <<>> /\ SegmentAnswer(mbx_out[1])
    \/ \E k \in DOMAIN answers : SegmentAnswer(answers[k])
    \/ mbx_in # <<>> /\ FirstRead(mbx_in[1].request)

\* The pieces that an SDO read has: the first of this object, all of one board, which is the
\* one that is there as long as a segment may come.
PiecesOf(j, b) == \A k \in DOMAIN j.pieces : j.pieces[k].board = b
ReadPart(j) ==
    /\ {"part", "pieces", "toggle"} \subseteq DOMAIN j
    /\ IsSequence(j.pieces)
    /\ j.part \in {"first", "segment"}
    /\ j.result = "open" => (j.part = "first" <=> j.pieces = <<>>)
    /\ j.result = "ok" => j.pieces # <<>>
    /\ j.pieces # <<>> => j.pieces[1].index = j.call.index /\ PiecesOf(j, j.pieces[1].board)
ReadInv ==
    pc # "idle" /\ Op = "read" =>
        /\ ReadPart(job)
        /\ job.result = "open" /\ ReadGoesOn => PiecesOf(job, board)
        /\ pc = "sent" => last.request.kind = "read" /\ last.request.part = job.part

\* The packets that a read of a file has are those of its numbers.
FilePart(j) ==
    /\ {"packet", "pieces"} \subseteq DOMAIN j
    /\ IsSequence(j.pieces) /\ j.packet = Len(j.pieces)
    /\ \A k \in DOMAIN j.pieces : j.pieces[k].from = (k - 1) * FoeMax + 1
FileInv == pc # "idle" /\ Op = "foe_read" => FilePart(job)

MailboxInv == ErrorInv /\ JobInv /\ CountInv /\ MailInv /\ ReadInv /\ FileInv

\* It is enough.
LEMMA InvSafe == MailboxInv => SdoSafe
<1> SUFFICES ASSUME MailboxInv PROVE SdoSafe
  OBVIOUS
<1>1. ErrorsKept
  BY HoldsListed DEF MailboxInv
<1>2. ServicesTypeOK
  <2>1. \A m \in {mbx_in, mbx_out} : Len(m) <= 1
    <3>1. Len(<<>>) = 0 /\ \A x : Len(<<x>>) = 1
      OBVIOUS
    <3>2. mbx_in = <<>> \/ mbx_in = <<mbx_in[1]>>
      BY DEF MailboxInv, MailInv
    <3>3. mbx_out = <<>> \/ mbx_out = <<mbx_out[1]>>
      BY DEF MailboxInv, MailInv
    <3> QED BY <3>1, <3>2, <3>3
  <2> QED BY <2>1 DEF MailboxInv, JobInv, CountInv, ServicesTypeOK
<1>3. RightObject
  <2>1. ASSUME Ended("ok"), Op = "read"
        PROVE  /\ job.pieces[1].index = Index
               /\ \A k \in DOMAIN job.pieces : job.pieces[k].board = job.pieces[1].board
    BY <2>1 DEF Ended, Index, MailboxInv, ReadInv, ReadPart, PiecesOf
  <2>2. ASSUME Op = "foe_read", NEW k \in DOMAIN job.pieces
        PROVE  job.pieces[k].from = (k - 1) * FoeMax + 1
    <3>1. CASE pc = "idle"
      BY <2>2, <3>1, ShortSequences DEF MailboxInv, JobInv
    <3>2. CASE pc # "idle"
      BY <2>2, <3>2 DEF MailboxInv, FileInv, FilePart
    <3> QED BY <3>1, <3>2
  <2> QED BY <2>1, <2>2 DEF RightObject
<1> QED BY <1>1, <1>2, <1>3 DEF SdoSafe

\* The state in which the mailbox begins.
LEMMA InitInv == Init => MailboxInv
<1> SUFFICES ASSUME Init PROVE MailboxInv
  OBVIOUS
<1> USE DEF Init, MailboxInit
<1>1. ErrorInv
  BY EmptyHolds
<1>2. JobInv
  <2>1. \E c \in Calls : job = SdoBegin(c, 0)
    BY ServicesAssumption
  <2> QED BY <2>1, ServicesAssumption DEF JobInv, JobFields, SdoBegin, Results
<1>3. CountInv
  <2>1. job.n = 0
    BY DEF SdoBegin
  <2>2. store \in [Indexes -> 0 .. job.n]
    <3>1. store = [i \in Indexes |-> 0]
      BY Zenon
    <3>2. 0 \in 0 .. job.n
      BY <2>1
    <3> QED BY <3>1, <3>2, Zenon
  <2>3. mbx_cnt \in 0 .. MaxCnt /\ lastcnt \in 0 .. MaxCnt /\ unsent \in 0 .. MaxCnt
    BY MailboxAssumption
  <2> QED BY <2>2, <2>3 DEF CountInv
<1>4. MailInv
  BY ShortSequences DEF MailInv
<1>5. ReadInv /\ FileInv
  BY DEF ReadInv, FileInv
<1> QED BY <1>1, <1>2, <1>3, <1>4, <1>5 DEF MailboxInv

-----------------------------------------------------------------------------
(* The steps, one part of the invariant after the other.                    *)

\* Errors are put into the list one at a time.
LEMMA NextErrors ==
    ASSUME MailboxInv, Next
    PROVE  ErrorInv'
<1>1. ErrorInv
  BY DEF MailboxInv
<1>2. \A errors : Push(errors) => ErrorInv'
  BY <1>1, PushKeeps, NoErrorKeeps DEF Push
<1>3. NoReport => ErrorInv'
  BY <1>1, NoErrorKeeps DEF NoReport
<1>4. \A c : Emptied(c) => ErrorInv'
  BY <1>2, <1>3 DEF Emptied, Handle
<1>5. CASE Start
  BY <1>4, <1>5 DEF Start
<1>6. CASE Receive
  BY <1>2, <1>6 DEF Receive, Handle
<1>7. CASE Master /\ ~Receive
  BY <1>2, <1>3, <1>4, <1>7 DEF Master, StartEntry, Send, Confirm, AwaitEmpty, TimeOut, Lost
<1>8. CASE ReadErrors
  BY <1>1, <1>8, PopKeeps DEF ReadErrors
<1>9. CASE Slave
  BY <1>3, <1>9 DEF Slave, Take, SendFrame
<1> QED BY <1>5, <1>6, <1>7, <1>8, <1>9 DEF Next

\* A call begins, goes on as its service says, or waits.
LEMMA NextJob ==
    ASSUME MailboxInv, Next
    PROVE  JobInv'
<1>1. JobInv /\ job.n \in Nat /\ MaxCalls \in Nat
  BY ServicesAssumption DEF MailboxInv, JobInv
<1>2. ASSUME UNCHANGED job, pc' = "idle" <=> pc = "idle", pc' = "ended" <=> pc = "ended",
             pc' \in {"idle", "send", "sent", "empty", "receive", "again", "drain", "lost", "ended"},
             pc' \in {"send", "sent", "empty", "drain"} => pc \in {"send", "sent", "empty", "drain"},
             pc' \in {"receive", "again", "empty"} => pc \in {"receive", "again", "empty"}
      PROVE  JobInv'
  BY <1>1, <1>2 DEF JobInv, Op
<1>3. ASSUME NEW o, GoesOn(job, o), Go(o), pc \notin {"idle", "ended"}
      PROVE  JobInv'
  BY <1>1, <1>3 DEF JobInv, Op, Go, GoesOn
<1>4. UNCHANGED <<job, pc>> => JobInv'
  BY <1>1 DEF JobInv, Op
<1>5. /\ Op # "rxpdo" => \A m : GoesOn(job, Answered(m))
      /\ GoesOn(job, Unanswered)
      /\ Op # "eoe_recv" => GoesOn(job, Sent)
      /\ JobFields(Prepared) /\ Prepared.call = job.call
      /\ Prepared.n = job.n /\ Prepared.result = job.result
  BY <1>1, CallGoesOn DEF JobInv
<1>6. CASE Start
  <2>1. PICK c \in IF pc = "idle" THEN Calls ELSE Follows[job.call] :
           job' \in Begin(c, job.n + 1) /\ pc' = IF c.op = "eoe_recv" THEN "receive" ELSE "send"
    BY <1>6 DEF Start
  <2>2. c \in Calls
    BY <1>1, ServicesAssumption DEF JobInv
  <2>3. JobFields(job') /\ job'.call = c /\ job'.n = job.n + 1 /\ job'.result = "open"
    BY <2>1, <2>2, Begins
  <2>4. job.n + 1 \in 0 .. MaxCalls
    BY <1>1, <1>6 DEF Start
  <2> QED BY <2>1, <2>2, <2>3, <2>4 DEF JobInv, Op, Results
<1>7. CASE StartEntry
  BY <1>7, <1>2 DEF StartEntry
<1>8. ASSUME NEW taken, Send(taken)
      PROVE  JobInv'
  BY <1>1, <1>5, <1>8 DEF Send, SendMessage, JobInv, Op
<1>9. CASE Confirm
  BY <1>1, <1>3, <1>5, <1>9 DEF Confirm, JobInv
<1>10. CASE AwaitEmpty
  BY <1>2, <1>10 DEF AwaitEmpty
<1>11. CASE Receive
  <2> DEFINE m == mbx_out[1]
  <2>1. pc \in {"receive", "again"} /\ Op # "rxpdo"
    BY <1>1, <1>11 DEF Receive, ReadOut, JobInv
  <2>2. \/ UNCHANGED job /\ pc' = "again"
        \/ Go(Answered(m))
    BY <1>11 DEF Receive
  <2>3. CASE UNCHANGED job /\ pc' = "again"
    BY <2>1, <2>3, <1>2
  <2>4. CASE Go(Answered(m))
    BY <2>1, <2>4, <1>3, <1>5
  <2> QED BY <2>2, <2>3, <2>4
<1>12. CASE TimeOut
  BY <1>2, <1>12 DEF TimeOut, GiveUp
<1>13. CASE Lost
  BY <1>3, <1>5, <1>13 DEF Lost
<1>14. CASE (SendAgain \/ Unconfirmed \/ ReadAgain) /\ UNCHANGED job /\ NoReport
  BY <1>2, <1>4, <1>14 DEF SendAgain, Unconfirmed, ReadAgain
<1>15. CASE ReadErrors
  BY <1>4, <1>15 DEF ReadErrors, mailboxVars
<1>16. CASE Slave
  BY <1>4, <1>16 DEF Slave, Take, SendFrame, SendEthernet, Put, Report, Exchange
<1> QED BY <1>6, <1>7, <1>8, <1>9, <1>10, <1>11, <1>12, <1>13, <1>14, <1>15, <1>16 DEF Next, Master

\* The counters, what is stored and what was noted.
LEMMA NextCounts ==
    ASSUME MailboxInv, Next
    PROVE  CountInv'
<1>1. /\ CountInv /\ MailInv /\ job.n \in Nat /\ JobFields(job) /\ job.call \in Calls
      /\ MaxCnt \in Nat \ {0}
  BY MailboxAssumption DEF MailboxInv, JobInv
<1>2. \/ job'.n = job.n
      \/ job'.n = job.n + 1
  <2>1. CASE Start
    <3>1. PICK c \in IF pc = "idle" THEN Calls ELSE Follows[job.call] : job' \in Begin(c, job.n + 1)
      BY <2>1 DEF Start
    <3> QED BY <1>1, <3>1, Begins, ServicesAssumption
  <2>2. /\ \A m : Op # "rxpdo" => Answered(m).job.n = job.n
        /\ Unanswered.job.n = job.n /\ (Op # "eoe_recv" => Sent.job.n = job.n) /\ Prepared.n = job.n
    BY <1>1, CallGoesOn DEF GoesOn
  <2>3. /\ pc = "sent" => Op # "eoe_recv"
        /\ pc \in {"receive", "again"} => Op # "rxpdo"
    BY DEF MailboxInv, JobInv
  <2>4. CASE Master
    BY <2>2, <2>3, <2>4 DEF Master, StartEntry, Send, Confirm, AwaitEmpty, Receive, ReadOut, TimeOut, Lost, Go
  <2>5. CASE ReadErrors \/ Slave
    BY <2>5 DEF ReadErrors, Slave, Take, SendFrame
  <2> QED BY <2>1, <2>4, <2>5 DEF Next
<1>3. store \in [Indexes -> 0 .. job'.n] /\ (store' = store => store' \in [Indexes -> 0 .. job'.n])
  <2>1. 0 .. job.n \subseteq 0 .. job'.n
    BY <1>1, <1>2
  <2> QED BY <1>1, <2>1 DEF CountInv
<1>4. UNCHANGED store \/ Take
  BY DEF Next, Start, Emptied, Drain, Master, StartEntry, Send, SendMessage, Confirm, AwaitEmpty,
         Receive, ReadOut, TimeOut, GiveUp, Lost, SendAgain, Unconfirmed, ReadAgain, ReadErrors,
         Slave, SendFrame, SendEthernet, Put, Report, Exchange, slaveVars, mailboxVars
<1>5. ASSUME Take PROVE store' \in [Indexes -> 0 .. job'.n] /\ lastcnt' \in 0 .. MaxCnt
  <2>1. job' = job /\ mbx_in # <<>> /\ lastcnt' = mbx_in[1].cnt
    BY <1>5 DEF Take
  <2>2. MessageOK(mbx_in[1], job.n)
    BY <1>1, <2>1 DEF MailInv
  <2>3. UNCHANGED store \/ \E o : OutcomeOK(o, mbx_in[1].request, job.n) /\ store' = o.store
    BY <1>1, <1>5, <2>2, ServeGood DEF Take, MessageOK, CountInv
  <2> QED BY <1>3, <2>1, <2>2, <2>3 DEF OutcomeOK, MessageOK
<1>6. store' \in [Indexes -> 0 .. job'.n]
  BY <1>3, <1>4, <1>5
<1>7. mbx_cnt' \in 0 .. MaxCnt /\ lastcnt' \in 0 .. MaxCnt /\ unsent' \in 0 .. MaxCnt
  <2>1. NextCnt \in 0 .. MaxCnt /\ Lesser(unsent + 1, MaxCnt) \in 0 .. MaxCnt
    BY <1>1 DEF CountInv, NextCnt, Lesser
  <2>2. mbx_cnt' \in {mbx_cnt, NextCnt} /\ unsent' \in {unsent, 0, Lesser(unsent + 1, MaxCnt)}
    BY DEF Next, Start, Emptied, Drain, Master, StartEntry, Send, SendMessage, Confirm, AwaitEmpty,
           Receive, ReadOut, TimeOut, GiveUp, Lost, SendAgain, Unconfirmed, ReadAgain, ReadErrors,
           Slave, Take, SendFrame, SendEthernet, Put, Report, Exchange, slaveVars, ghostVars, mailboxVars
  <2>3. Take \/ lastcnt' \in {lastcnt, 0}
    BY DEF Next, Start, Emptied, Drain, Master, StartEntry, Send, SendMessage, Confirm, AwaitEmpty,
           Receive, ReadOut, TimeOut, GiveUp, Lost, SendAgain, Unconfirmed, ReadAgain, ReadErrors,
           Slave, SendFrame, SendEthernet, Put, Report, Exchange, slaveVars, mailboxVars
  <2> QED BY <1>1, <1>5, <2>1, <2>2, <2>3 DEF CountInv
<1>8. disturbed' \in BOOLEAN /\ stale' \in BOOLEAN
  <2>1. disturbed \in BOOLEAN /\ stale \in BOOLEAN
    BY <1>1 DEF CountInv
  <2> QED BY <2>1, Zenon
        DEF Next, Start, Emptied, Drain, Master, StartEntry, Send, SendMessage, Confirm, AwaitEmpty,
            Receive, ReadOut, TimeOut, GiveUp, Lost, SendAgain, Unconfirmed, ReadAgain, ReadErrors,
            Slave, Take, SendFrame, SendEthernet, Put, Report, Exchange, slaveVars, ghostVars, mailboxVars
<1> QED BY <1>6, <1>7, <1>8 DEF CountInv

\* Later requests may name later calls.
LEMMA MessageLater ==
    ASSUME NEW m, NEW n \in Nat, NEW k \in Nat, MessageOK(m, n), n <= k
    PROVE  MessageOK(m, k)
BY DEF MessageOK, RequestOK

\* What a step puts into the mailboxes and among the answers that are due.
LEMMA NextMailboxes ==
    ASSUME MailboxInv, Next
    PROVE  /\ \/ UNCHANGED mbx_in \/ mbx_in' = <<>>
              \/ \E taken : Send(taken) /\ mbx_in' = <<last'>> /\ pc' = "sent"
              \/ SendAgain /\ mbx_in' = <<last>>
           /\ \/ UNCHANGED mbx_out \/ mbx_out' = <<>>
              \/ Put
              \/ ReadAgain /\ mbx_out' = <<last>>
           /\ \/ UNCHANGED answers \/ answers' = <<>>
              \/ Put
              \/ \E as : /\ answers' = answers \o as
                         /\ IsSequence(as) /\ \A k \in DOMAIN as : Other(as[k])
              \/ Take /\ \E o : /\ OutcomeOK(o, mbx_in[1].request, job.n)
                                /\ answers' = answers \o o.answers /\ server' = o.server
<1>1. ASSUME Report
      PROVE  \E as : /\ answers' = answers \o as
                     /\ IsSequence(as) /\ \A k \in DOMAIN as : Other(as[k])
  <2> DEFINE as == <<Emergency>>
  <2>1. IsSequence(as) /\ DOMAIN as = {1} /\ as[1] = Emergency
    BY ShortSequences
  <2>2. Other(Emergency)
    BY DEF Other, Emergency
  <2>3. answers' = answers \o as
    <3>1. IsSequence(answers)
      BY DEF MailboxInv, MailInv
    <3>2. answers' = Append(answers, Emergency)
      BY <1>1 DEF Report
    <3> QED BY <3>1, <3>2, AppendIsConcat, SeqMonotonic DEF IsSequence
  <2> HIDE DEF as
  <2> QED BY <2>1, <2>2, <2>3
<1>2. ASSUME SendFrame
      PROVE  \E as : /\ answers' = answers \o as
                     /\ IsSequence(as) /\ \A k \in DOMAIN as : Other(as[k])
  <2>1. PICK c \in Calls, stamped \in BOOLEAN : SendEthernet(c.index, stamped)
    BY <1>2 DEF SendFrame
  <2> DEFINE as == FragmentsOf(c.index, faults', stamped)
  <2>2. IsSequence(as) /\ \A k \in DOMAIN as : as[k].kind = "eoe_data"
    BY FragmentsGood DEF Indexes
  <2>3. answers' = answers \o as
    BY <2>1 DEF SendEthernet
  <2> HIDE DEF as
  <2> QED BY <2>2, <2>3 DEF Other
<1>3. ASSUME Take
      PROVE  /\ mbx_in' = <<>> /\ UNCHANGED mbx_out
             /\ \/ UNCHANGED answers
                \/ \E o : /\ OutcomeOK(o, mbx_in[1].request, job.n)
                          /\ answers' = answers \o o.answers /\ server' = o.server
  <2>1. store \in [Indexes -> 0 .. job.n] /\ RequestOK(mbx_in[1].request, job.n)
    BY <1>3 DEF Take, MailboxInv, CountInv, MailInv, MessageOK
  <2>2. CASE mbx_in[1].cnt = lastcnt
    BY <1>3, <2>2 DEF Take
  <2>3. CASE mbx_in[1].cnt # lastcnt
    <3>1. PICK o \in Serve(mbx_in[1].request)
                        \cup IF server = NoTransfer THEN {Refused(<<MailboxError>>)} ELSE {} :
             answers' = answers \o o.answers /\ server' = o.server
      BY <1>3, <2>3 DEF Take
    <3>2. OutcomeOK(o, mbx_in[1].request, job.n)
      BY <2>1, <3>1, ServeGood
    <3> QED BY <1>3, <3>1, <3>2 DEF Take
  <2> QED BY <2>2, <2>3
<1>4. ASSUME NEW taken, Send(taken)
      PROVE  /\ UNCHANGED <<mbx_out, answers>>
             /\ UNCHANGED mbx_in \/ (mbx_in' = <<last'>> /\ pc' = "sent")
  BY <1>4 DEF Send, SendMessage
<1>5. CASE Start \/ StartEntry
  BY <1>5 DEF Start, StartEntry, Emptied, Drain
<1>6. CASE \E taken \in BOOLEAN : Send(taken)
  BY <1>4, <1>6
<1>7. CASE Confirm \/ AwaitEmpty \/ Receive \/ TimeOut \/ Lost \/ ReadErrors
  BY <1>7 DEF Confirm, AwaitEmpty, Receive, ReadOut, TimeOut, GiveUp, Lost, ReadErrors, slaveVars, mailboxVars
<1>8. CASE SendAgain \/ Unconfirmed \/ ReadAgain
  BY <1>8 DEF SendAgain, Unconfirmed, ReadAgain, slaveVars
<1>9. CASE Take
  BY <1>3, <1>9
<1>10. CASE SendFrame
  BY <1>2, <1>10 DEF SendFrame, SendEthernet
<1>11. CASE Put \/ Exchange
  BY <1>11 DEF Put, Exchange
<1>12. CASE Report
  BY <1>1, <1>12 DEF Report
<1> QED BY <1>5, <1>6, <1>7, <1>8, <1>9, <1>10, <1>11, <1>12 DEF Next, Master, Slave

\* The board is exchanged together with what is in its mailboxes.
LEMMA BoardKept ==
    ASSUME Next
    PROVE  UNCHANGED board \/ (mbx_in' = <<>> /\ mbx_out' = <<>> /\ answers' = <<>> /\ server' = NoTransfer
                               /\ UNCHANGED <<job, pc, last>>)
BY DEF Next, Start, Emptied, Drain, Master, StartEntry, Send, SendMessage, Confirm, AwaitEmpty,
       Receive, ReadOut, TimeOut, GiveUp, Lost, SendAgain, Unconfirmed, ReadAgain, ReadErrors,
       Slave, Take, SendFrame, SendEthernet, Put, Report, Exchange, slaveVars, mailboxVars

\* The number of the call never goes back.
LEMMA CallsCounted ==
    ASSUME MailboxInv, Next
    PROVE  job.n \in Nat /\ job'.n \in Nat /\ job.n <= job'.n
<1>1. /\ job.n \in Nat /\ JobFields(job) /\ job.call \in Calls
      /\ pc = "sent" => Op # "eoe_recv"
      /\ pc \in {"receive", "again"} => Op # "rxpdo"
  BY DEF MailboxInv, JobInv
<1>2. CASE Start
  <2>1. PICK c \in IF pc = "idle" THEN Calls ELSE Follows[job.call] : job' \in Begin(c, job.n + 1)
    BY <1>2 DEF Start
  <2>2. job'.n = job.n + 1
    BY <1>1, <2>1, Begins, ServicesAssumption
  <2> QED BY <1>1, <2>2
<1>3. CASE Master
  <2>1. /\ \A m : Op # "rxpdo" => Answered(m).job.n = job.n
        /\ Unanswered.job.n = job.n /\ (Op # "eoe_recv" => Sent.job.n = job.n) /\ Prepared.n = job.n
    BY <1>1, CallGoesOn DEF GoesOn
  <2>2. job'.n = job.n
    BY <1>1, <1>3, <2>1
       DEF Master, StartEntry, Send, Confirm, AwaitEmpty, Receive, ReadOut, TimeOut, Lost, Go
  <2> QED BY <1>1, <2>2
<1>4. CASE ReadErrors \/ Slave
  BY <1>1, <1>4 DEF ReadErrors, Slave, Take, SendFrame
<1> QED BY <1>2, <1>3, <1>4 DEF Next

\* A request that waits for its confirmation was sent now, or waited already.
LEMMA SentNow ==
    ASSUME MailboxInv, Next, pc' = "sent"
    PROVE  (pc = "sent" /\ UNCHANGED <<last, job>>) \/ \E taken : Send(taken)
<1>1. /\ JobFields(job) /\ job.call \in Calls
      /\ pc = "sent" => Op # "eoe_recv"
      /\ pc \in {"receive", "again"} => Op # "rxpdo"
  BY DEF MailboxInv, JobInv
<1>2. /\ \A m : Op # "rxpdo" => Answered(m).next # "sent"
      /\ Unanswered.next # "sent" /\ (Op # "eoe_recv" => Sent.next # "sent")
  BY <1>1, CallGoesOn DEF GoesOn
<1> QED
  BY <1>1, <1>2
     DEF Next, Start, Master, StartEntry, Confirm, AwaitEmpty,
         Receive, ReadOut, TimeOut, GiveUp, Lost, Go, SendAgain, Unconfirmed, ReadAgain, ReadErrors,
         Slave, Take, SendFrame, SendEthernet, Put, Report, Exchange, mailboxVars

\* The messages under way stay good, and so does the one that may be sent or read again.
LEMMA NextMail ==
    ASSUME MailboxInv, Next
    PROVE  MailInv'
<1>1. /\ MailInv /\ JobFields(job) /\ job.call \in Calls /\ job.n \in Nat
      /\ pc \in {"send", "sent"} => Op # "eoe_recv"
  BY DEF MailboxInv, JobInv
<1>2. \A m : MessageOK(m, job.n) => MessageOK(m, job'.n)
  BY CallsCounted, MessageLater
<1>3. ASSUME NEW taken, Send(taken), pc' = "sent"
      PROVE  MessageOK(last', job'.n)
  <2>1. /\ last' = [cnt |-> NextCnt, request |-> Request(Prepared)] /\ Op # "eoe_recv"
    BY <1>1, <1>3 DEF Send, SendMessage
  <2>2. NextCnt \in 0 .. MaxCnt
    BY MailboxAssumption DEF MailboxInv, CountInv, NextCnt
  <2>3. RequestOK(Request(Prepared), job.n)
    BY <1>1, <2>1, RequestGood
  <2> QED BY <1>2, <2>1, <2>2, <2>3 DEF MessageOK
<1>4. mbx_in' = <<>> \/ (mbx_in' = <<mbx_in'[1]>> /\ MessageOK(mbx_in'[1], job'.n))
  <2>1. \A x : <<x>>[1] = x
    OBVIOUS
  <2>2. SendAgain => pc = "sent"
    BY DEF SendAgain
  <2> QED BY <1>1, <1>2, <1>3, <2>1, <2>2, NextMailboxes DEF MailInv
<1>5. mbx_out' = <<>> \/ (mbx_out' = <<mbx_out'[1]>> /\ AnswerOK(mbx_out'[1], board'))
  <2>1. \A x : <<x>>[1] = x
    OBVIOUS
  <2>2. \A m, b : Other(m) => AnswerOK(m, b)
    BY DEF Other, AnswerOK
  <2>3. ASSUME Put PROVE mbx_out' = <<answers[1]>> /\ AnswerOK(answers[1], board)
    <3>1. answers # <<>> /\ mbx_out' = <<Head(answers)>>
      BY <2>3 DEF Put
    <3>2. Head(answers) = answers[1] /\ 1 \in DOMAIN answers
      BY <1>1, <3>1, TheRest DEF MailInv
    <3> QED BY <1>1, <3>1, <3>2 DEF MailInv
  <2>4. ReadAgain => pc = "again"
    BY DEF ReadAgain
  <2>5. UNCHANGED board \/ mbx_out' = <<>>
    BY BoardKept
  <2> QED BY <1>1, <2>1, <2>2, <2>3, <2>4, <2>5, NextMailboxes DEF MailInv
<1>6. IsSequence(answers') /\ \A k \in DOMAIN answers' : AnswerOK(answers'[k], board')
  <2>1. CASE answers' = <<>>
    BY <2>1, ShortSequences
  <2>2. CASE UNCHANGED board /\ UNCHANGED answers
    BY <1>1, <2>2 DEF MailInv
  <2>3. CASE UNCHANGED board /\ Put
    <3>1. answers # <<>> /\ answers' = Tail(answers)
      BY <2>3 DEF Put
    <3>2. /\ IsSequence(answers')
          /\ \A k \in DOMAIN answers' : k + 1 \in DOMAIN answers /\ answers'[k] = answers[k + 1]
      BY <1>1, <3>1, TheRest DEF MailInv
    <3> QED BY <1>1, <2>3, <3>2 DEF MailInv
  <2>4. ASSUME UNCHANGED board, NEW as, answers' = answers \o as, IsSequence(as),
               \A k \in DOMAIN as : AnswerOK(as[k], board)
        PROVE  IsSequence(answers') /\ \A k \in DOMAIN answers' : AnswerOK(answers'[k], board')
    <3>1. IsSequence(answers) /\ IsSequence(as) /\ answers' = answers \o as
      BY <1>1, <2>4 DEF MailInv
    <3>2. IsSequence(answers')
      BY <3>1, PutTogether
    <3>3. Range(answers') = Range(answers) \cup Range(as)
      BY <3>1, PutTogether
    <3>4. \A m \in Range(answers) \cup Range(as) : AnswerOK(m, board)
      BY <1>1, <2>4 DEF MailInv, Range
    <3> QED BY <2>4, <3>2, <3>3, <3>4 DEF Range
  <2>5. \A m, b : Other(m) => AnswerOK(m, b)
    BY DEF Other, AnswerOK
  <2>6. UNCHANGED board \/ answers' = <<>>
    BY BoardKept
  <2> QED BY <2>1, <2>2, <2>3, <2>4, <2>5, <2>6, NextMailboxes DEF OutcomeOK
<1>7. ASSUME pc' = "sent" PROVE MessageOK(last', job'.n)
  BY <1>1, <1>2, <1>3, <1>7, SentNow DEF MailInv
<1>8. ASSUME pc' = "again" PROVE Other(last')
  <2>1. (pc = "again" /\ UNCHANGED last) \/ (Receive /\ UNCHANGED job)
    <3>1. /\ \A m : Op # "rxpdo" => Answered(m).next # "again"
          /\ Unanswered.next # "again" /\ (Op # "eoe_recv" => Sent.next # "again")
      BY <1>1, CallGoesOn DEF GoesOn
    <3>2. pc \in {"receive", "again"} => Op # "rxpdo"
      BY DEF MailboxInv, JobInv
    <3> QED
      BY <1>1, <1>8, <3>1, <3>2
         DEF Next, Start, Master, StartEntry, Send, SendMessage, Confirm, AwaitEmpty,
             Receive, ReadOut, TimeOut, GiveUp, Lost, Go, SendAgain, Unconfirmed, ReadAgain, ReadErrors,
             Slave, Take, SendFrame, SendEthernet, Put, Report, Exchange, mailboxVars
  <2>2. ASSUME Receive PROVE Other(last')
    <3> DEFINE m == mbx_out[1]
    <3>1. IsReport(m) \/ IsFrame(m, job.call)
      <4>1. Op # "rxpdo" => Answered(m).next # "again"
        BY <1>1, CallGoesOn DEF GoesOn
      <4>2. Op # "rxpdo"
        BY <2>2 DEF Receive, ReadOut, MailboxInv, JobInv
      <4> QED BY <1>8, <2>2, <4>1, <4>2 DEF Receive, Go
    <3>2. last' = m
      BY <2>2, <3>1 DEF Receive, ReadOut
    <3> QED BY <3>1, <3>2 DEF IsReport, IsFrame, Other
  <2> QED BY <1>1, <2>1, <2>2 DEF MailInv
<1> QED BY <1>4, <1>5, <1>6, <1>7, <1>8 DEF MailInv

\* A packet that is taken is the next one.
LEMMA FileStep ==
    ASSUME NEW j, JobFields(j), FilePart(j), NEW m, m.kind = "foe_data" => AnswerOK(m, board)
    PROVE  FilePart(ReadAnswered(j, m).job)
<1> DEFINE kept == [j EXCEPT !.sends = "foe_ack", !.packet = m.packet, !.got = @ + m.len,
                             !.pieces = Append(@, m.piece), !.more = (m.len = FoeMax)]
<1>1. \A r : FilePart(ToEnd(j, r).job)
  BY DEF FilePart, ToEnd
<1>2. ASSUME m.kind = "foe_data", IsNext(j, m) PROVE FilePart(ToSend(kept).job)
  <2>1. /\ {"packet", "pieces"} \subseteq DOMAIN kept
        /\ kept.pieces = Append(j.pieces, m.piece) /\ kept.packet = m.packet
    BY DEF FilePart
  <2>2. IsSequence(j.pieces) /\ j.packet = Len(j.pieces) /\ Len(j.pieces) \in Nat
    BY SequencePlaces DEF FilePart
  <2>3. /\ IsSequence(kept.pieces) /\ Len(kept.pieces) = Len(j.pieces) + 1
        /\ DOMAIN kept.pieces = 1 .. Len(j.pieces) + 1
        /\ kept.pieces[Len(j.pieces) + 1] = m.piece
        /\ \A k \in DOMAIN j.pieces : kept.pieces[k] = j.pieces[k]
    BY <2>1, <2>2, OneMore
  <2>4. m.packet = Len(j.pieces) + 1 /\ m.piece.from = (m.packet - 1) * FoeMax + 1
    BY <1>2, <2>2 DEF IsNext, AnswerOK
  <2>5. DOMAIN j.pieces = 1 .. Len(j.pieces)
    BY <2>2, SequencePlaces
  <2> HIDE DEF kept
  <2>6. \A k \in DOMAIN kept.pieces : kept.pieces[k].from = (k - 1) * FoeMax + 1
    <3>1. ASSUME NEW k \in 1 .. Len(j.pieces) PROVE kept.pieces[k].from = (k - 1) * FoeMax + 1
      BY <2>3, <2>5 DEF FilePart
    <3>2. ASSUME NEW k, k = Len(j.pieces) + 1 PROVE kept.pieces[k].from = (k - 1) * FoeMax + 1
      BY <2>3, <2>4, <3>2
    <3>3. \A k \in DOMAIN kept.pieces : k \in 1 .. Len(j.pieces) \/ k = Len(j.pieces) + 1
      BY <2>2, <2>3
    <3> QED BY <3>1, <3>2, <3>3
  <2> QED BY <2>1, <2>2, <2>3, <2>4, <2>6 DEF FilePart, ToSend
<1> HIDE DEF kept
<1>3. ReadAnswered(j, m) \in {ToEnd(j, r) : r \in {"small", "refused", "unexpected"}}
        \/ (m.kind = "foe_data" /\ IsNext(j, m) /\ ReadAnswered(j, m) = ToSend(kept))
  BY DEF ReadAnswered, kept
<1> QED BY <1>1, <1>2, <1>3

\* The packets of a file, step by step.
LEMMA NextFile ==
    ASSUME MailboxInv, Next
    PROVE  FileInv'
<1> SUFFICES ASSUME pc' # "idle", Op' = "foe_read" PROVE FilePart(job')
  BY DEF FileInv, FilePart
<1>1. /\ JobInv /\ JobFields(job) /\ job.call \in Calls /\ MailInv
      /\ (pc # "idle" /\ Op = "foe_read" => FilePart(job))
  BY DEF MailboxInv, JobInv, FileInv
<1>2. CASE Start
  <2>1. PICK c \in IF pc = "idle" THEN Calls ELSE Follows[job.call] : job' \in Begin(c, job.n + 1)
    BY <1>2 DEF Start
  <2>2. c \in Calls /\ job'.call = c
    BY <1>1, <2>1, Begins, ServicesAssumption
  <2>3. job' = FoeBegin(c, job.n + 1)
    <3>1. c.op = "foe_read"
      BY <2>2 DEF Op
    <3> QED BY <2>1, <3>1 DEF Begin, Sdo, Info, Foe, Soe
  <2>4. job'.packet = 0 /\ job'.pieces = <<>> /\ {"packet", "pieces"} \subseteq DOMAIN job'
    BY <2>3 DEF FoeBegin
  <2>5. IsSequence(<<>>) /\ DOMAIN <<>> = {} /\ Len(<<>>) = 0
    BY ShortSequences, EmptySeq
  <2> QED BY <2>4, <2>5 DEF FilePart
<1>3. ASSUME UNCHANGED job, pc # "idle" PROVE FilePart(job')
  BY <1>1, <1>3 DEF Op
<1>4. UNCHANGED <<job, pc>> => FilePart(job')
  BY <1>1 DEF Op
<1>5. ASSUME NEW o, GoesOn(job, o), Go(o), pc # "idle", Op = "foe_read" => FilePart(o.job)
      PROVE  FilePart(job')
  BY <1>5 DEF Go, GoesOn, Op
<1>6. \A r : Op = "foe_read" /\ pc # "idle" => FilePart(ToEnd(job, r).job) /\ FilePart(ToReceive(job).job)
  BY <1>1 DEF FilePart, ToEnd, ToReceive
<1>7. /\ Op # "rxpdo" => \A m : GoesOn(job, Answered(m))
      /\ GoesOn(job, Unanswered)
      /\ Op # "eoe_recv" => GoesOn(job, Sent)
  BY <1>1, CallGoesOn
<1>8. CASE Confirm
  <2>1. pc = "sent" /\ Op # "eoe_recv" /\ Go(Sent)
    BY <1>1, <1>8 DEF Confirm, JobInv
  <2>2. Op = "foe_read" => Sent \in {ToEnd(job, "ok"), ToReceive(job)}
    BY DEF Sent, FoeSent, Sdo, Info, Foe, Soe
  <2> QED BY <1>5, <1>6, <1>7, <2>1, <2>2
<1>9. CASE Lost
  <2>1. pc = "lost" /\ Go(Unanswered)
    BY <1>9 DEF Lost
  <2>2. Op = "foe_read" => Unanswered = ToEnd(job, "lost")
    BY DEF Unanswered, Sdo, Info, Soe
  <2> QED BY <1>5, <1>6, <1>7, <2>1, <2>2
<1>10. CASE Receive
  <2> DEFINE m == mbx_out[1]
  <2>1. pc \in {"receive", "again"} /\ Op # "rxpdo" /\ mbx_out # <<>>
    BY <1>1, <1>10 DEF Receive, ReadOut, JobInv
  <2>2. UNCHANGED job \/ Go(Answered(m))
    BY <1>10 DEF Receive
  <2>3. ASSUME Op = "foe_read" PROVE FilePart(Answered(m).job)
    <3>1. Answered(m) = ReadAnswered(job, m)
      BY <1>1, <2>3 DEF Answered, FoeAnswered, Op, Sdo, Info, Foe, Soe
    <3>2. AnswerOK(m, board)
      BY <1>1, <2>1 DEF MailInv
    <3> HIDE DEF m
    <3> QED BY <1>1, <2>1, <2>3, <3>1, <3>2, FileStep
  <2> HIDE DEF m
  <2> QED BY <1>3, <1>5, <1>7, <2>1, <2>2, <2>3
<1>11. ASSUME NEW taken, Send(taken) PROVE FilePart(job')
  <2>1. pc = "send" /\ job' = Prepared /\ Prepared.call = job.call
    BY <1>1, <1>11, CallGoesOn DEF Send, SendMessage
  <2>2. Op = "foe_read" => Prepared = job
    BY DEF Prepared, Sdo, Soe
  <2> QED BY <1>1, <2>1, <2>2 DEF Op
<1>12. CASE \/ StartEntry \/ AwaitEmpty \/ TimeOut
            \/ (SendAgain \/ Unconfirmed \/ ReadAgain) /\ UNCHANGED job /\ NoReport
  BY <1>3, <1>12 DEF StartEntry, AwaitEmpty, TimeOut, GiveUp, SendAgain, Unconfirmed, ReadAgain
<1>13. CASE ReadErrors
  BY <1>4, <1>13 DEF ReadErrors, mailboxVars
<1>14. CASE Slave
  BY <1>4, <1>14 DEF Slave, Take, SendFrame, SendEthernet, Put, Report, Exchange
<1> QED BY <1>2, <1>8, <1>9, <1>10, <1>11, <1>12, <1>13, <1>14 DEF Next, Master

\* What comes for an SDO read: a piece of the object it reads, and of the board whose pieces
\* it has; or nothing.
LEMMA ReadStep ==
    ASSUME NEW j, JobFields(j), j.call.op = "read", j.result = "open", ReadPart(j),
           NEW m, AnswerOK(m, board), SegmentAnswer(m) => PiecesOf(j, board)
    PROVE  LET o == SdoAnswered(j, m)
           IN  ReadPart(o.job) /\ (o.job.result = "open" => PiecesOf(o.job, board))
<1> DEFINE kept == [j EXCEPT !.pieces = Append(@, m.piece)]
<1>1. ASSUME NEW r \in {"abort", "unexpected", "small"} PROVE ReadPart(ToEnd(j, r).job)
  BY <1>1 DEF ReadPart, PiecesOf, ToEnd, JobFields
<1>2. ASSUME Fits(j, m)
      PROVE  /\ IsSequence(kept.pieces) /\ kept.pieces # <<>> /\ PiecesOf(kept, board)
             /\ kept.pieces[1].board = board /\ kept.pieces[1].index = j.call.index
  <2>1. kept.pieces = Append(j.pieces, m.piece) /\ IsSequence(j.pieces)
    BY DEF ReadPart
  <2>2. Len(j.pieces) \in Nat /\ DOMAIN j.pieces = 1 .. Len(j.pieces)
    BY <2>1, SequencePlaces
  <2>3. /\ IsSequence(kept.pieces) /\ Len(kept.pieces) = Len(j.pieces) + 1
        /\ DOMAIN kept.pieces = 1 .. Len(j.pieces) + 1
        /\ kept.pieces[Len(j.pieces) + 1] = m.piece
        /\ \A k \in DOMAIN j.pieces : kept.pieces[k] = j.pieces[k]
    BY <2>1, OneMore
  <2>4. m.piece.board = board
    BY <1>2 DEF Fits, AnswerOK
  <2>5. kept.pieces # <<>>
    BY <2>2, <2>3, ShortSequences
  <2>6. CASE j.part = "first"
    <3>1. j.pieces = <<>> /\ Len(j.pieces) = 0
      BY <2>6 DEF ReadPart
    <3>2. m.piece.index = j.call.index
      BY <1>2, <2>6 DEF Fits, AnswerOK
    <3>3. DOMAIN kept.pieces = 1 .. 1 /\ kept.pieces[1] = m.piece
      BY <2>3, <3>1
    <3> HIDE DEF kept
    <3>4. PiecesOf(kept, board)
      BY <2>4, <3>3 DEF PiecesOf
    <3> QED BY <2>3, <2>4, <2>5, <3>2, <3>3, <3>4
  <2>7. CASE j.part # "first"
    <3>1. SegmentAnswer(m)
      BY <1>2, <2>7 DEF Fits, SegmentAnswer
    <3>2. j.pieces # <<>> /\ j.pieces[1].index = j.call.index /\ PiecesOf(j, board)
      BY <2>7, <3>1 DEF ReadPart
    <3>3. 1 \in DOMAIN j.pieces
      BY <2>1, <3>2, TheRest
    <3> HIDE DEF kept
    <3>4. PiecesOf(kept, board)
      <4>1. \A k \in DOMAIN kept.pieces : k \in DOMAIN j.pieces \/ k = Len(j.pieces) + 1
        BY <2>2, <2>3
      <4> QED BY <2>3, <2>4, <3>2, <4>1 DEF PiecesOf
    <3>5. kept.pieces[1] = j.pieces[1] /\ j.pieces[1].board = board
      BY <2>3, <3>2, <3>3 DEF PiecesOf
    <3> QED BY <2>3, <2>5, <3>2, <3>4, <3>5
  <2> QED BY <2>6, <2>7
<1>3. /\ {"part", "pieces", "toggle", "result", "call"} \subseteq DOMAIN kept
      /\ kept.call = j.call /\ kept.result = "open"
  BY DEF ReadPart, JobFields
<1>4. SdoAnswered(j, m) \in {ToEnd(j, r) : r \in {"abort", "unexpected", "small"}}
        \/ (Fits(j, m) /\ SdoAnswered(j, m) \in {NextPart(kept), ToEnd(kept, "ok")})
  <2> HIDE DEF kept
  <2> QED BY DEF SdoAnswered, kept
<1>5. ASSUME Fits(j, m)
      PROVE  /\ ReadPart(NextPart(kept).job) /\ PiecesOf(NextPart(kept).job, board)
             /\ ReadPart(ToEnd(kept, "ok").job)
  <2> HIDE DEF kept
  <2>1. /\ NextPart(kept).job.pieces = kept.pieces /\ NextPart(kept).job.part = "segment"
        /\ NextPart(kept).job.result = "open" /\ NextPart(kept).job.call = j.call
        /\ {"part", "pieces", "toggle"} \subseteq DOMAIN NextPart(kept).job
    BY <1>3 DEF NextPart, ToSend
  <2>2. /\ ToEnd(kept, "ok").job.pieces = kept.pieces /\ ToEnd(kept, "ok").job.part = kept.part
        /\ ToEnd(kept, "ok").job.result = "ok" /\ ToEnd(kept, "ok").job.call = j.call
        /\ {"part", "pieces", "toggle"} \subseteq DOMAIN ToEnd(kept, "ok").job
    BY <1>3 DEF ToEnd
  <2>3. kept.part \in {"first", "segment"}
    BY DEF kept, ReadPart
  <2> QED BY <1>2, <1>5, <2>1, <2>2, <2>3 DEF ReadPart, PiecesOf
<1>6. \A r \in {"abort", "unexpected", "small"} : ToEnd(j, r).job.result # "open"
  BY DEF ToEnd, JobFields
<1>7. ToEnd(kept, "ok").job.result = "ok"
  BY <1>3 DEF ToEnd
<1> HIDE DEF kept
<1> QED BY <1>1, <1>4, <1>5, <1>6, <1>7

\* No answer leaves it the pieces that it has.
LEMMA ReadLost ==
    ASSUME NEW j, JobFields(j), j.call.op = "read", j.result = "open", ReadPart(j)
    PROVE  LET o == SdoLost(j)
           IN  ReadPart(o.job) /\ o.job.pieces = j.pieces
BY DEF SdoLost, KeepsOn, NextPart, ToSend, ToEnd, ReadPart, PiecesOf, JobFields

\* The transfer that the slave is in.
LEMMA NextServer ==
    ASSUME MailboxInv, Next
    PROVE  \/ UNCHANGED server \/ server' = NoTransfer
           \/ mbx_in # <<>> /\ \E o : OutcomeOK(o, mbx_in[1].request, job.n) /\ server' = o.server
<1>1. CASE Take
  <2>1. store \in [Indexes -> 0 .. job.n] /\ RequestOK(mbx_in[1].request, job.n) /\ mbx_in # <<>>
    BY <1>1 DEF Take, MailboxInv, CountInv, MailInv, MessageOK
  <2> QED BY <1>1, <2>1, ServeGood DEF Take
<1>2. Take \/ UNCHANGED server \/ server' = NoTransfer
  BY DEF Next, Start, Emptied, Drain, Master, StartEntry, Send, SendMessage, Confirm, AwaitEmpty,
         Receive, ReadOut, TimeOut, GiveUp, Lost, SendAgain, Unconfirmed, ReadAgain, ReadErrors,
         Slave, SendFrame, SendEthernet, Put, Report, Exchange, slaveVars, mailboxVars
<1> QED BY <1>1, <1>2

\* A segment may come later because it might already before, or because the first request of
\* a read has been sent; the board is the same then.
LEMMA StillGoesOn ==
    ASSUME MailboxInv, Next, ReadGoesOn'
    PROVE  /\ UNCHANGED board
           /\ \/ ReadGoesOn
              \/ \E taken : Send(taken) /\ pc' = "sent" /\ FirstRead(last'.request)
              \/ SendAgain /\ FirstRead(last.request)
<1>1. MailInv
  BY DEF MailboxInv
<1>2. UNCHANGED board
  <2>1. DOMAIN <<>> = {} /\ NoTransfer.op # "read"
    BY ShortSequences DEF NoTransfer
  <2> QED BY <2>1, BoardKept DEF ReadGoesOn
<1>3. \A o : OutcomeOK(o, mbx_in[1].request, job.n) /\ mbx_in # <<>>
               /\ (o.server.op = "read" \/ \E k \in DOMAIN o.answers : SegmentAnswer(o.answers[k]))
             => ReadGoesOn
  BY DEF OutcomeOK, ReadGoesOn
<1>4. CASE server'.op = "read"
  <2>1. NoTransfer.op # "read"
    BY DEF NoTransfer
  <2> QED BY <1>2, <1>3, <1>4, <2>1, NextServer DEF ReadGoesOn
<1>5. CASE mbx_out' # <<>> /\ SegmentAnswer(mbx_out'[1])
  <2>1. ASSUME Put PROVE ReadGoesOn
    <3>1. answers # <<>> /\ mbx_out' = <<Head(answers)>>
      BY <2>1 DEF Put
    <3>2. Head(answers) = answers[1] /\ 1 \in DOMAIN answers
      BY <1>1, <3>1, TheRest DEF MailInv
    <3> QED BY <1>5, <3>1, <3>2 DEF ReadGoesOn
  <2>2. ASSUME ReadAgain, mbx_out' = <<last>> PROVE FALSE
    <3>1. Other(last)
      BY <1>1, <2>2 DEF ReadAgain, MailInv
    <3>2. mbx_out'[1] = last
      BY <2>2
    <3> QED BY <1>5, <3>1, <3>2 DEF Other, SegmentAnswer
  <2>3. UNCHANGED mbx_out => ReadGoesOn
    BY <1>5 DEF ReadGoesOn
  <2> QED BY <1>2, <1>5, <2>1, <2>2, <2>3, NextMailboxes
<1>6. CASE \E k \in DOMAIN answers' : SegmentAnswer(answers'[k])
  <2>1. \E a \in Range(answers') : SegmentAnswer(a)
    BY <1>6 DEF Range
  <2>2. answers' # <<>>
    BY <1>6, ShortSequences
  <2>3. (\E a \in Range(answers) : SegmentAnswer(a)) => ReadGoesOn
    BY DEF Range, ReadGoesOn
  <2>4. ASSUME NEW as, answers' = answers \o as, IsSequence(as),
               (\E k \in DOMAIN as : SegmentAnswer(as[k])) => ReadGoesOn
        PROVE  ReadGoesOn
    <3>1. Range(answers') = Range(answers) \cup Range(as)
      BY <1>1, <2>4, PutTogether DEF MailInv
    <3>2. (\E a \in Range(as) : SegmentAnswer(a)) => ReadGoesOn
      BY <2>4 DEF Range
    <3> QED BY <2>1, <2>3, <3>1, <3>2
  <2>5. ASSUME Put PROVE ReadGoesOn
    <3>1. answers # <<>> /\ answers' = Tail(answers)
      BY <2>5 DEF Put
    <3>2. \A k \in DOMAIN answers' : k + 1 \in DOMAIN answers /\ answers'[k] = answers[k + 1]
      BY <1>1, <3>1, TheRest DEF MailInv
    <3> QED BY <1>6, <3>2 DEF ReadGoesOn
  <2>6. UNCHANGED answers => ReadGoesOn
    BY <1>6 DEF ReadGoesOn
  <2>7. \A a : Other(a) => ~SegmentAnswer(a)
    BY DEF Other, SegmentAnswer
  <2>8. Take => mbx_in # <<>>
    BY DEF Take
  <2> QED BY <1>2, <1>3, <2>2, <2>4, <2>5, <2>6, <2>7, <2>8, NextMailboxes DEF OutcomeOK
<1>7. CASE mbx_in' # <<>> /\ FirstRead(mbx_in'[1].request)
  <2>1. \A x : <<x>>[1] = x
    OBVIOUS
  <2>2. UNCHANGED mbx_in => ReadGoesOn
    BY <1>7 DEF ReadGoesOn
  <2> QED BY <1>2, <1>7, <2>1, <2>2, NextMailboxes
<1> QED BY <1>4, <1>5, <1>6, <1>7 DEF ReadGoesOn

\* As long as a segment may come, the board is the one whose pieces the read has.
LEMMA PiecesKept ==
    ASSUME MailboxInv, Next, pc # "idle", Op = "read", job.result = "open", ReadGoesOn'
    PROVE  UNCHANGED board /\ PiecesOf(job, board)
<1>1. /\ ReadPart(job) /\ (ReadGoesOn => PiecesOf(job, board))
      /\ pc = "sent" => last.request.part = job.part
  BY DEF MailboxInv, ReadInv
<1>2. job.part # "segment" => PiecesOf(job, board)
  <2>1. job.part # "segment" => job.pieces = <<>>
    BY <1>1 DEF ReadPart
  <2> QED BY <2>1, ShortSequences DEF PiecesOf
<1>3. ASSUME NEW taken, Send(taken), pc' = "sent", FirstRead(last'.request) PROVE job.part # "segment"
  <2>1. last' = [cnt |-> NextCnt, request |-> Request(Prepared)]
    BY <1>3 DEF Send, SendMessage
  <2>2. Request(Prepared).part = job.part
    BY RequestGood DEF MailboxInv, JobInv
  <2> QED BY <1>3, <2>1, <2>2 DEF FirstRead
<1>4. SendAgain /\ FirstRead(last.request) => job.part # "segment"
  BY <1>1 DEF SendAgain, FirstRead
<1> QED BY <1>1, <1>2, <1>3, <1>4, StillGoesOn

\* The pieces of an SDO read, step by step.
LEMMA NextRead ==
    ASSUME MailboxInv, Next
    PROVE  ReadInv'
<1> SUFFICES ASSUME pc' # "idle", Op' = "read"
             PROVE  /\ ReadPart(job')
                    /\ job'.result = "open" /\ ReadGoesOn' => PiecesOf(job', board')
                    /\ pc' = "sent" => last'.request.kind = "read" /\ last'.request.part = job'.part
  BY DEF ReadInv, ReadPart, PiecesOf
<1>1. /\ JobInv /\ JobFields(job) /\ job.call \in Calls /\ job.n \in Nat /\ MailInv
      /\ pc \notin {"idle", "ended"} => job.result = "open"
  BY DEF MailboxInv, JobInv
<1>2. pc # "idle" /\ Op = "read" =>
        /\ ReadPart(job)
        /\ job.result = "open" /\ ReadGoesOn' => PiecesOf(job, board')
        /\ pc = "sent" => last.request.kind = "read" /\ last.request.part = job.part
  BY PiecesKept DEF MailboxInv, ReadInv
<1>3. Op = "read" => Prepared = job
  BY DEF Op, Prepared, SdoPrepared, Sdo, Soe
<1>4. ASSUME pc' = "sent" PROVE last'.request.kind = "read" /\ last'.request.part = job'.part
  <2>1. CASE pc = "sent" /\ UNCHANGED <<last, job>>
    BY <1>2, <2>1 DEF Op
  <2>2. ASSUME NEW taken, Send(taken)
        PROVE  last'.request.kind = "read" /\ last'.request.part = job'.part
    <3>1. /\ last' = [cnt |-> NextCnt, request |-> Request(Prepared)]
          /\ job' = Prepared /\ Prepared.call = job.call
      BY <1>1, <1>4, <2>2, CallGoesOn DEF Send, SendMessage
    <3>2. Op = "read"
      BY <3>1 DEF Op
    <3> QED BY <1>1, <1>3, <3>1, <3>2, RequestGood
  <2> QED BY <1>4, <2>1, <2>2, SentNow
<1>5. CASE Start
  <2>1. PICK c \in IF pc = "idle" THEN Calls ELSE Follows[job.call] : job' \in Begin(c, job.n + 1)
    BY <1>5 DEF Start
  <2>2. c \in Calls /\ job'.call = c
    BY <1>1, <2>1, Begins, ServicesAssumption
  <2>3. job' = SdoBegin(c, job.n + 1)
    <3>1. c.op = "read"
      BY <2>2 DEF Op
    <3> QED BY <2>1, <3>1 DEF Begin, Sdo, Info, Foe, Soe
  <2>4. /\ {"part", "pieces", "toggle"} \subseteq DOMAIN job'
        /\ job'.part = "first" /\ job'.pieces = <<>> /\ job'.result = "open"
    BY <2>3 DEF SdoBegin
  <2>5. IsSequence(<<>>) /\ DOMAIN <<>> = {}
    BY ShortSequences
  <2> QED BY <1>4, <2>4, <2>5 DEF ReadPart, PiecesOf
<1>6. ASSUME UNCHANGED job, pc # "idle"
      PROVE  ReadPart(job') /\ (job'.result = "open" /\ ReadGoesOn' => PiecesOf(job', board'))
  BY <1>2, <1>6 DEF Op
<1>7. ASSUME NEW o, GoesOn(job, o), Go(o), pc \notin {"idle", "ended"},
             Op = "read" => /\ ReadPart(o.job)
                            /\ o.job.result = "open" /\ ReadGoesOn' => PiecesOf(o.job, board')
      PROVE  ReadPart(job') /\ (job'.result = "open" /\ ReadGoesOn' => PiecesOf(job', board'))
  BY <1>7 DEF Go, GoesOn, Op
<1>8. /\ Op # "rxpdo" => \A m : GoesOn(job, Answered(m))
      /\ GoesOn(job, Unanswered)
  BY <1>1, CallGoesOn
<1>9. CASE Confirm
  <2>1. pc = "sent" /\ Op # "eoe_recv" /\ Go(Sent)
    BY <1>1, <1>9 DEF Confirm, JobInv
  <2>2. GoesOn(job, Sent)
    BY <1>1, <2>1, CallGoesOn
  <2>3. Op = "read" => Sent.job = job
    BY DEF Sent, ToReceive, Sdo, Info, Foe, Soe
  <2> QED BY <1>2, <1>4, <1>7, <2>1, <2>2, <2>3
<1>10. CASE Lost
  <2>1. pc = "lost" /\ Go(Unanswered)
    BY <1>10 DEF Lost
  <2>2. ASSUME Op = "read" PROVE ReadPart(Unanswered.job) /\ Unanswered.job.pieces = job.pieces
    <3>1. Unanswered = SdoLost(job)
      BY <2>2 DEF Unanswered, Sdo, Info, Soe
    <3> QED BY <1>1, <1>2, <2>1, <2>2, <3>1, ReadLost DEF Op
  <2>3. Op = "read" => (ReadGoesOn' => PiecesOf(Unanswered.job, board'))
    BY <1>1, <1>2, <2>1, <2>2 DEF PiecesOf
  <2> QED BY <1>4, <1>7, <1>8, <2>1, <2>2, <2>3
<1>11. CASE Receive
  <2> DEFINE m == mbx_out[1]
  <2>1. pc \in {"receive", "again"} /\ Op # "rxpdo" /\ mbx_out # <<>> /\ UNCHANGED board
    BY <1>1, <1>11 DEF Receive, ReadOut, JobInv
  <2>2. UNCHANGED job \/ Go(Answered(m))
    BY <1>11 DEF Receive
  <2>3. ASSUME Op = "read"
        PROVE  /\ ReadPart(Answered(m).job)
               /\ Answered(m).job.result = "open" => PiecesOf(Answered(m).job, board)
    <3>1. Answered(m) = SdoAnswered(job, m)
      BY <2>3 DEF Answered, Sdo, Info, Foe, Soe
    <3>2. AnswerOK(m, board)
      BY <1>1, <2>1 DEF MailInv
    <3>3. SegmentAnswer(m) => PiecesOf(job, board)
      BY <1>1, <2>1, <2>3 DEF MailboxInv, ReadInv, ReadGoesOn
    <3> HIDE DEF m
    <3> QED BY <1>1, <1>2, <2>1, <2>3, <3>1, <3>2, <3>3, ReadStep DEF Op
  <2> HIDE DEF m
  <2> QED BY <1>4, <1>6, <1>7, <1>8, <2>1, <2>2, <2>3
<1>12. ASSUME NEW taken, Send(taken)
       PROVE  ReadPart(job') /\ (job'.result = "open" /\ ReadGoesOn' => PiecesOf(job', board'))
  <2>1. pc = "send" /\ job' = Prepared /\ Prepared.call = job.call
    BY <1>1, <1>12, CallGoesOn DEF Send, SendMessage
  <2> QED BY <1>2, <1>3, <2>1 DEF Op
<1>13. CASE \/ StartEntry \/ AwaitEmpty \/ TimeOut
            \/ (SendAgain \/ Unconfirmed \/ ReadAgain) /\ UNCHANGED job /\ NoReport
  BY <1>4, <1>6, <1>13 DEF StartEntry, AwaitEmpty, TimeOut, GiveUp, SendAgain, Unconfirmed, ReadAgain
<1>14. CASE ReadErrors \/ Slave
  <2>1. UNCHANGED <<job, pc>>
    BY <1>14 DEF ReadErrors, mailboxVars, Slave, Take, SendFrame, SendEthernet, Put, Report, Exchange
  <2> QED BY <1>4, <1>6, <2>1
<1> QED BY <1>4, <1>5, <1>9, <1>10, <1>11, <1>12, <1>13, <1>14 DEF Next, Master

\* Every step of the mailbox.
LEMMA NextInv ==
    MailboxInv /\ [Next]_vars => MailboxInv'
<1> SUFFICES ASSUME MailboxInv, [Next]_vars PROVE MailboxInv'
  OBVIOUS
<1>1. CASE Next
  BY <1>1, NextErrors, NextJob, NextCounts, NextMail, NextRead, NextFile DEF MailboxInv
<1>2. CASE UNCHANGED vars
  <2> USE <1>2 DEF vars, mailboxVars, slaveVars, ghostVars
  <2>1. ErrorInv'
    BY NoErrorKeeps DEF MailboxInv
  <2>2. JobInv' /\ CountInv'
    BY DEF MailboxInv, JobInv, CountInv, Op
  <2>3. MailInv'
    BY DEF MailboxInv, MailInv
  <2>4. ReadInv' /\ FileInv'
    BY DEF MailboxInv, ReadInv, FileInv, Op, ReadGoesOn
  <2> QED BY <2>1, <2>2, <2>3, <2>4 DEF MailboxInv
<1> QED BY <1>1, <1>2

\* Whatever calls are made one after the other, of whatever sizes, and whatever gets lost,
\* comes too late or is repeated: an SDO read that succeeds has read the object it asked for,
\* and its pieces are of one board, also if boards are exchanged under it; the packets of a
\* file are in their order; the list of errors has lost none but the oldest; and the counters
\* and every job are in their ranges.
THEOREM ReadsOneObject == Spec => []SdoSafe
<1>1. Init => MailboxInv
  BY InitInv
<1>2. MailboxInv /\ [Next]_vars => MailboxInv'
  BY NextInv
<1>3. MailboxInv => SdoSafe
  BY InvSafe
<1> QED BY <1>1, <1>2, <1>3, PTL DEF Spec
-----------------------------------------------------------------------------
(* The calls of the service data objects, which SlaveDevice::init makes: master and slave   *)
(* keep in step, unless something from outside comes between them.                          *)

\* The counters.  The requests sent after counter c and before it comes round are MaxCnt, so a
\* request not taken has another counter than the last one taken, unless as many in a row did
\* not reach the slave (Wrapped).
Ahead(c) == IF c > mbx_cnt THEN c - mbx_cnt ELSE c - mbx_cnt + MaxCnt
Old(c) == c = 0 \/ Ahead(c) + unsent >= MaxCnt
CounterInv ==
    /\ IF mbx_in = <<>> THEN Old(lastcnt) ELSE Old(mbx_in[1].cnt)
    /\ pc = "sent" => last.cnt = mbx_cnt /\ mbx_cnt # 0 /\ unsent = 0
    /\ mbx_in # <<>> => mbx_in[1].cnt # 0

\* The messages that are still to come from the slave: in its mailbox, and behind it.
Due == (IF mbx_out = <<>> THEN {} ELSE {0}) \cup DOMAIN answers
Message(k) == IF k = 0 THEN mbx_out[1] ELSE answers[k]

\* What is no answer to an SDO; an undisturbed call passes it over.
Passed(m) == m.kind = "emergency" \/ IsFrame(m, job.call)
Junk(m) == m.kind \notin Sdo /\ (~disturbed => Passed(m))

\* The last byte that a read has, and the toggle bit of the next segment.
Have(j) == IF j.pieces = <<>> THEN 0 ELSE j.pieces[Len(j.pieces)].to
NextToggle(j) == IF j.part = "first" THEN 0 ELSE 1 - j.toggle
\* What it has is the beginning of its object.
Begun(j) == Have(j) \in Nat /\ AreBytes(j.pieces, j.call.index, Have(j))

\* A transfer that the slave has begun is this one, as far as it has come.
Transfer(op, pos, toggle) == [op |-> op, index |-> Index, pos |-> pos, toggle |-> toggle]
Linked ==
    Op = "read" /\ job.part = "segment" /\ server.op = "read" =>
        server.index = Index /\ server.pos = Have(job) /\ Begun(job)
\* If nothing came between, it expects the next segment.
InStep(pos) == ~disturbed /\ job.part = "segment" => server = Transfer(Op, pos, job.toggle)

\* The request under way, and the slave that is about to take it.
IsCurrent(m) ==
    LET r == m.request
    IN  /\ m.cnt = mbx_cnt
        /\ r.kind = Op /\ r.part = job.part /\ r.index = Index /\ r.toggle = job.toggle
        /\ r.n = job.n /\ r.size = Size
        /\ Op = "write" => r.to = job.written /\ r.from \in Nat /\ (job.part = "first" => r.from = 1)
Expects(r) == InStep(IF Op = "read" THEN Have(job) ELSE r.from - 1)

\* The answer to it, and what the slave is in and has stored then.
IsAnswer(m) ==
    /\ m.kind = Op /\ m.part = job.part /\ (m.part = "first" => m.index = Index)
    /\ Op = "read" =>
         /\ job.part = "segment" => Begun(job)
         /\ m.size = Size
         /\ m.piece.index = Index /\ m.piece.from = Have(job) + 1 /\ m.piece.to \in Nat
         /\ m.more = (m.piece.to < Size)
         /\ IF m.more THEN server = Transfer("read", m.piece.to, NextToggle(job))
            ELSE m.piece.to = Size
    /\ Op = "write" =>
         /\ job.written = Size => store[Index] = job.n
         /\ ~disturbed /\ job.written < Size =>
               server = Transfer("write", job.written, NextToggle(job))

Repeated == mbx_in # <<>> => mbx_in[1].cnt = lastcnt
NoAnswer == \A k \in Due : Junk(Message(k))
OneAnswerDue == \E k \in Due : IsAnswer(Message(k)) /\ \A i \in Due \ {k} : Junk(Message(i))

\* The places of a call: the next request is to be sent, or not answered; an answer is
\* waited for, and is under way unless the call was disturbed; the call has ended.
Sending == NoAnswer /\ Repeated /\ Linked
Waiting ==
    /\ mbx_in # <<>> => IsCurrent(mbx_in[1])
    /\ \/ /\ NoAnswer /\ Linked
          /\ ~disturbed => mbx_in # <<>> /\ mbx_in[1].cnt # lastcnt /\ Expects(mbx_in[1].request)
       \/ OneAnswerDue /\ lastcnt = mbx_cnt
Finished ==
    /\ job.result \in {"ok", "small"} => Repeated
    /\ job.result = "ok" => IF Op = "read" THEN AreBytes(job.pieces, Index, Size)
                                           ELSE store[Index] = job.n
    /\ ~disturbed => job.result = IF Op = "read" /\ Size > Room THEN "small" ELSE "ok"

\* The local variables of a call, and its request, whatever came between.
SdoJob(j) ==
    /\ j = [call |-> j.call, n |-> j.n, result |-> j.result, part |-> j.part,
            toggle |-> j.toggle, pieces |-> j.pieces, written |-> j.written]
    /\ j.part \in {"first", "segment"}
    /\ j.written \in 0 .. j.call.size
SdoForm ==
    Op \in Sdo /\ pc # "idle" =>
        /\ SdoJob(job)
        /\ pc \notin {"empty", "drain"}
        /\ pc = "send" /\ job.part = "first" => job.written = 0
        /\ pc = "sent" => IsCurrent(last)

\* A read that goes on has room for its object.
HasRoom == ~disturbed /\ Op = "read" /\ job.part = "segment" => Size <= Room
\* How far it has come.
Reached == IF Op = "read" THEN Have(job) ELSE job.written
SdoPlace ==
    /\ pc = "send" => Sending /\ InStep(Reached)
    /\ pc = "lost" => Sending /\ disturbed
    /\ pc \in {"sent", "receive", "again"} => Waiting
    /\ pc = "again" => Junk(last)
    /\ pc = "ended" => Finished
    /\ pc # "ended" => HasRoom
SdoInv == Op \in Sdo /\ ~stale /\ pc # "idle" => SdoPlace

\* The counter of a request that is sent is the last again only after as many that were not.
LEMMA NextIsNew ==
    ASSUME MaxCnt \in Nat \ {0}, mbx_cnt \in 0 .. MaxCnt, unsent \in 0 .. MaxCnt,
           NEW c \in 0 .. MaxCnt, Old(c)
    PROVE  /\ NextCnt \in 1 .. MaxCnt
           /\ ~Wrapped => NextCnt # c
BY DEF Old, Ahead, NextCnt, Wrapped

\* A counter that was old stays so when others are used up.
LEMMA OldStays ==
    ASSUME MaxCnt \in Nat \ {0}, mbx_cnt \in 0 .. MaxCnt, unsent \in 0 .. MaxCnt,
           NEW c \in 0 .. MaxCnt, Old(c), mbx_cnt' = NextCnt, unsent' = Lesser(unsent + 1, MaxCnt)
    PROVE  Old(c)'
BY DEF Old, Ahead, NextCnt, Lesser

\* The counters, step by step.
LEMMA NextCounter ==
    ASSUME MailboxInv, CounterInv, Next
    PROVE  CounterInv'
<1>1. /\ MaxCnt \in Nat \ {0} /\ mbx_cnt \in 0 .. MaxCnt /\ unsent \in 0 .. MaxCnt
      /\ lastcnt \in 0 .. MaxCnt /\ (mbx_in # <<>> => mbx_in[1].cnt \in 0 .. MaxCnt)
  BY MailboxAssumption DEF MailboxInv, CountInv, MailInv, MessageOK
<1>2. ASSUME UNCHANGED <<mbx_in, lastcnt, mbx_cnt, unsent>>, pc' = "sent" => pc = "sent" /\ last' = last
      PROVE  CounterInv'
  BY <1>2 DEF CounterInv, Old, Ahead
<1>3. CASE Start
  <2>1. UNCHANGED <<mbx_in, lastcnt, mbx_cnt, unsent>> /\ pc' # "sent"
    BY <1>3 DEF Start, Emptied, Drain
  <2> QED BY <2>1, <1>2
<1>4. CASE StartEntry
  <2>1. UNCHANGED <<mbx_in, lastcnt, mbx_cnt, unsent>> /\ pc' # "sent"
    BY <1>4 DEF StartEntry, Emptied, Drain
  <2> QED BY <2>1, <1>2
<1>5. CASE Send(TRUE)
  <2>1. /\ mbx_cnt' = NextCnt /\ unsent' = 0 /\ mbx_in' = <<last'>> /\ last'.cnt = NextCnt
        /\ mbx_in'[1] = last'
    BY <1>5 DEF Send, SendMessage
  <2>2. NextCnt \in 1 .. MaxCnt
    BY <1>1 DEF NextCnt
  <2>3. mbx_in' # <<>>
    BY <2>1
  <2> QED BY <1>1, <2>1, <2>2, <2>3 DEF CounterInv, Old, Ahead
<1>6. CASE Send(FALSE)
  <2>1. /\ mbx_cnt' = NextCnt /\ unsent' = Lesser(unsent + 1, MaxCnt) /\ pc' # "sent"
        /\ UNCHANGED <<mbx_in, lastcnt>>
    BY <1>6 DEF Send, SendMessage
  <2>2. \A c \in 0 .. MaxCnt : Old(c) => Old(c)'
    BY <1>1, <2>1, OldStays
  <2> QED BY <1>1, <2>1, <2>2 DEF CounterInv, Old, Ahead
<1>7. CASE Confirm
  <2>1. pc = "sent" /\ Op # "eoe_recv"
    BY <1>7 DEF Confirm, MailboxInv, JobInv
  <2>2. GoesOn(job, Sent)
    BY <2>1, CallGoesOn DEF MailboxInv, JobInv
  <2>3. pc' # "sent"
    BY <1>7, <2>2 DEF Confirm, Go, GoesOn
  <2>4. UNCHANGED <<mbx_in, lastcnt, mbx_cnt, unsent>>
    BY <1>7 DEF Confirm, slaveVars, ghostVars
  <2> QED BY <2>3, <2>4, <1>2
<1>8. CASE AwaitEmpty
  BY <1>2, <1>8 DEF AwaitEmpty, slaveVars
<1>9. CASE Receive
  <2>1. pc \in {"receive", "again"} /\ UNCHANGED <<mbx_in, lastcnt, mbx_cnt, unsent>>
    BY <1>9 DEF Receive, ReadOut, ghostVars
  <2>2. pc' # "sent"
    <3>1. GoesOn(job, Answered(mbx_out[1]))
      BY <2>1, CallGoesOn DEF MailboxInv, JobInv
    <3> QED BY <1>9, <3>1 DEF Receive, Go, GoesOn
  <2> QED BY <2>1, <2>2, <1>2
<1>10. CASE TimeOut
  BY <1>2, <1>10 DEF TimeOut, GiveUp, slaveVars
<1>11. CASE Lost
  <2>1. GoesOn(job, Unanswered)
    BY CallGoesOn DEF MailboxInv, JobInv
  <2>2. pc' # "sent"
    BY <1>11, <2>1 DEF Lost, Go, GoesOn
  <2>3. UNCHANGED <<mbx_in, lastcnt, mbx_cnt, unsent>>
    BY <1>11 DEF Lost, slaveVars, ghostVars
  <2> QED BY <2>2, <2>3, <1>2
<1>12. CASE SendAgain
  <2>1. /\ mbx_in' = <<last>> /\ mbx_in'[1] = last /\ mbx_in' # <<>> /\ pc = "sent"
        /\ UNCHANGED <<lastcnt, mbx_cnt, unsent, pc, last>>
    BY <1>12 DEF SendAgain
  <2> QED BY <1>1, <2>1 DEF CounterInv, Old, Ahead
<1>13. CASE Unconfirmed
  BY <1>2, <1>13 DEF Unconfirmed, slaveVars
<1>14. CASE ReadAgain
  BY <1>2, <1>14 DEF ReadAgain, ghostVars
<1>15. CASE ReadErrors
  BY <1>2, <1>15 DEF ReadErrors, mailboxVars, slaveVars, ghostVars
<1>16. CASE Take
  <2>1. /\ mbx_in # <<>> /\ mbx_in' = <<>> /\ lastcnt' = mbx_in[1].cnt
        /\ UNCHANGED <<mbx_cnt, unsent, pc, last>>
    BY <1>16 DEF Take
  <2> QED BY <2>1 DEF CounterInv, Old, Ahead
<1>17. CASE SendFrame
  BY <1>2, <1>17 DEF SendFrame, SendEthernet
<1>18. CASE Put
  BY <1>2, <1>18 DEF Put, ghostVars
<1>19. CASE Report
  BY <1>2, <1>19 DEF Report
<1>20. CASE Exchange
  <2>1. mbx_in' = <<>> /\ lastcnt' = 0 /\ UNCHANGED <<mbx_cnt, unsent, pc, last>>
    BY <1>20 DEF Exchange
  <2> QED BY <2>1 DEF CounterInv, Old
<1> QED BY <1>3, <1>4, <1>5, <1>6, <1>7, <1>8, <1>9, <1>10, <1>11, <1>12, <1>13, <1>14, <1>15,
           <1>16, <1>17, <1>18, <1>19, <1>20 DEF Next, Master, Slave

\* What is put behind the answers that are due, or into the mailbox, or taken out of it.
LEMMA PutMoves ==
    ASSUME IsSequence(answers), Put
    PROVE  /\ \A k \in Due' : k + 1 \in Due /\ Message(k)' = Message(k + 1)
           /\ \A k \in Due : k - 1 \in Due' /\ Message(k - 1)' = Message(k)
           /\ Due \subseteq Int /\ Due' \subseteq Int
<1>1. /\ mbx_out = <<>> /\ answers # <<>> /\ mbx_out' = <<Head(answers)>> /\ answers' = Tail(answers)
  BY DEF Put
<1>2. /\ IsSequence(answers') /\ Len(answers') = Len(answers) - 1 /\ Head(answers) = answers[1]
      /\ \A k \in DOMAIN answers' : k + 1 \in DOMAIN answers /\ answers'[k] = answers[k + 1]
  BY <1>1, TheRest
<1>3. /\ Len(answers) \in Nat /\ DOMAIN answers = 1 .. Len(answers)
      /\ DOMAIN answers' = 1 .. Len(answers) - 1
  <2>1. Len(answers) \in Nat /\ DOMAIN answers = 1 .. Len(answers)
    BY SequencePlaces
  <2>2. DOMAIN answers' = 1 .. Len(answers')
    BY <1>2, SequencePlaces
  <2> QED BY <1>2, <2>1, <2>2
<1>4. Len(answers) > 0
  BY <1>1, <1>3, SequencePlaces
<1>5. Due = 1 .. Len(answers) /\ Due' = 0 .. Len(answers) - 1
  <2>1. mbx_out' # <<>>
    BY <1>1
  <2> QED BY <1>1, <1>3, <1>4, <2>1 DEF Due
<1>6. mbx_out'[1] = answers[1]
  BY <1>1, <1>2
<1>7. ASSUME NEW k \in Due' PROVE k + 1 \in Due /\ Message(k)' = Message(k + 1)
  <2>1. CASE k = 0
    BY <1>4, <1>5, <1>6, <2>1 DEF Message
  <2>2. CASE k # 0
    <3>1. k \in DOMAIN answers'
      BY <1>3, <1>5, <1>7, <2>2
    <3>2. k + 1 # 0
      BY <1>5, <1>7
    <3> QED BY <1>2, <1>3, <1>5, <2>2, <3>1, <3>2 DEF Message
  <2> QED BY <2>1, <2>2
<1>8. ASSUME NEW k \in Due PROVE k - 1 \in Due' /\ Message(k - 1)' = Message(k)
  <2>1. k - 1 \in Due' /\ (k - 1) + 1 = k
    BY <1>5, <1>8
  <2>2. Message(k - 1)' = Message((k - 1) + 1)
    BY <1>7, <2>1
  <2> QED BY <2>1, <2>2
<1> QED BY <1>5, <1>7, <1>8

\* The places of two sequences put together.
Behind(s, t, u) ==
    /\ Len(s) \in Nat /\ Len(t) \in Nat
    /\ DOMAIN s = 1 .. Len(s) /\ DOMAIN t = 1 .. Len(t) /\ DOMAIN u = 1 .. Len(s) + Len(t)
    /\ \A k \in 1 .. Len(s) : u[k] = s[k]
    /\ \A k \in 1 .. Len(t) : u[Len(s) + k] = t[k]
\* They are those of the two, one behind the other.
LEMMA BothPlaces ==
    ASSUME NEW s, IsSequence(s), NEW t, IsSequence(t), NEW u, u = s \o t
    PROVE  Behind(s, t, u)
<1> DEFINE S == {s[k] : k \in DOMAIN s} \cup {t[k] : k \in DOMAIN t}
           a == Len(s)
           b == Len(t)
<1>1. s \in Seq(S) /\ t \in Seq(S)
  BY SeqMonotonic DEF IsSequence
<1>. HIDE DEF S
<1>2. /\ u \in Seq(S) /\ Len(u) = a + b
      /\ \A k \in 1 .. a + b : u[k] = IF k <= a THEN s[k] ELSE t[k - a]
  BY <1>1, ConcatProperties
<1>3. a \in Nat /\ b \in Nat /\ DOMAIN s = 1 .. a /\ DOMAIN t = 1 .. b /\ DOMAIN u = 1 .. a + b
  BY <1>1, <1>2, LenProperties
<1> HIDE DEF a, b
<1>4. \A k \in 1 .. a : u[k] = s[k]
  BY <1>2, <1>3
<1>5. ASSUME NEW k \in 1 .. b PROVE u[a + k] = t[k]
  <2>1. a + k \in 1 .. a + b /\ ~(a + k <= a) /\ (a + k) - a = k
    BY <1>3
  <2> QED BY <1>2, <2>1
<1> QED BY <1>3, <1>4, <1>5 DEF a, b, Behind

\* Some answers more.
LEMMA MoreMoves ==
    ASSUME IsSequence(answers), UNCHANGED mbx_out, NEW as, IsSequence(as), answers' = answers \o as
    PROVE  /\ Due \subseteq Due' /\ \A k \in Due : Message(k)' = Message(k)
           /\ \A k \in Due' \ Due : \E i \in DOMAIN as : Message(k)' = as[i]
           /\ \A i \in DOMAIN as : \E k \in Due' \ Due : Message(k)' = as[i]
           /\ \A m : as = <<m>> => \A k \in Due' \ Due : \A i \in Due' \ {k} : i \in Due
<1> DEFINE a == Len(answers)
           b == Len(as)
<1>1. /\ a \in Nat /\ b \in Nat
      /\ DOMAIN answers = 1 .. a /\ DOMAIN as = 1 .. b /\ DOMAIN answers' = 1 .. (a + b)
      /\ \A k \in 1 .. a : answers'[k] = answers[k]
      /\ \A k \in 1 .. b : answers'[a + k] = as[k]
  <2>1. Behind(answers, as, answers')
    BY BothPlaces
  <2> QED BY <2>1 DEF Behind
<1> HIDE DEF a, b
<1>2. /\ Due = (IF mbx_out = <<>> THEN {} ELSE {0}) \cup 1 .. a
      /\ Due' = (IF mbx_out = <<>> THEN {} ELSE {0}) \cup 1 .. (a + b)
  BY <1>1 DEF Due
<1>3. Due \subseteq Due' /\ Due' \ Due = (a + 1) .. (a + b)
  BY <1>1, <1>2
<1>4. ASSUME NEW k \in Due PROVE Message(k)' = Message(k)
  <2>1. k = 0 \/ (k # 0 /\ k \in 1 .. a)
    BY <1>2
  <2> QED BY <1>1, <2>1 DEF Message
<1>5. ASSUME NEW k \in Due' \ Due PROVE k - a \in DOMAIN as /\ Message(k)' = as[k - a]
  <2>1. k # 0 /\ k - a \in 1 .. b /\ a + (k - a) = k
    BY <1>1, <1>3
  <2>2. Message(k)' = answers'[k]
    BY <2>1 DEF Message
  <2> QED BY <1>1, <2>1, <2>2
<1>6. ASSUME NEW i \in DOMAIN as PROVE \E k \in Due' \ Due : Message(k)' = as[i]
  <2>1. i \in 1 .. b
    BY <1>1
  <2>2. a + i \in Due' \ Due /\ (a + i) - a = i
    BY <1>1, <1>3, <2>1
  <2>3. PICK k \in Due' \ Due : k - a = i
    BY <2>2
  <2>4. Message(k)' = as[i]
    BY <1>5, <2>3
  <2> QED BY <2>4
<1>7. ASSUME NEW m, as = <<m>>, NEW k \in Due' \ Due, NEW i \in Due' \ {k}
      PROVE  i \in Due
  <2>1. 1 .. b = {1}
    BY <1>1, <1>7, ShortSequences
  <2>2. b = 1
    BY <1>1, <2>1
  <2> QED BY <1>1, <1>3, <2>2
<1> QED BY <1>3, <1>4, <1>5, <1>6, <1>7

\* The mailbox is read.
LEMMA ReadMoves ==
    ASSUME IsSequence(answers), UNCHANGED answers, mbx_out # <<>>, mbx_out' = <<>>
    PROVE  /\ 0 \in Due /\ Due' = Due \ {0} /\ \A k \in Due' : Message(k)' = Message(k)
           /\ Message(0) = mbx_out[1]
<1>1. DOMAIN answers = 1 .. Len(answers) /\ Len(answers) \in Nat
  BY SequencePlaces
<1> QED BY <1>1 DEF Due, Message

\* The mailbox is filled again.
LEMMA AgainMoves ==
    ASSUME IsSequence(answers), UNCHANGED answers, mbx_out = <<>>, NEW m, mbx_out' = <<m>>
    PROVE  /\ Due' = Due \cup {0} /\ 0 \notin Due /\ \A k \in Due : Message(k)' = Message(k)
           /\ Message(0)' = m
<1>1. DOMAIN answers = 1 .. Len(answers) /\ Len(answers) \in Nat
  BY SequencePlaces
<1>2. mbx_out' # <<>> /\ mbx_out'[1] = m
  OBVIOUS
<1>3. Due = 1 .. Len(answers) /\ Due' = {0} \cup 1 .. Len(answers)
  BY <1>1, <1>2 DEF Due
<1> QED BY <1>2, <1>3 DEF Message

\* A step of the messages that brings no answer and takes none.
QueueStep ==
    \/ UNCHANGED <<mbx_out, answers>>
    \/ Put
    \/ mbx_out # <<>> /\ mbx_out' = <<>> /\ UNCHANGED answers /\ Junk(mbx_out[1])
    \/ mbx_out = <<>> /\ UNCHANGED answers /\ \E m : mbx_out' = <<m>> /\ Junk(m)'
    \/ /\ UNCHANGED mbx_out
       /\ \E as : answers' = answers \o as /\ IsSequence(as) /\ \A k \in DOMAIN as : Junk(as[k])'

\* Junk stays junk, and the answer the answer.
LEMMA QueueKept ==
    ASSUME IsSequence(answers), QueueStep, \A m : Junk(m) => Junk(m)'
    PROVE  /\ NoAnswer => NoAnswer'
           /\ OneAnswerDue /\ Op \in Sdo /\ (\A m : IsAnswer(m) => IsAnswer(m)') => OneAnswerDue'
<1>1. CASE UNCHANGED <<mbx_out, answers>>
  <2>1. Due' = Due /\ \A k \in Due : Message(k)' = Message(k)
    BY <1>1 DEF Due, Message
  <2> QED BY <2>1 DEF NoAnswer, OneAnswerDue
<1>2. CASE Put
  <2>1. /\ \A k \in Due' : k + 1 \in Due /\ Message(k)' = Message(k + 1)
        /\ \A k \in Due : k - 1 \in Due' /\ Message(k - 1)' = Message(k)
        /\ Due \subseteq Int /\ Due' \subseteq Int
    BY <1>2, PutMoves
  <2>2. NoAnswer => NoAnswer'
    BY <2>1 DEF NoAnswer
  <2>3. ASSUME OneAnswerDue, \A m : IsAnswer(m) => IsAnswer(m)' PROVE OneAnswerDue'
    <3>1. PICK k \in Due : IsAnswer(Message(k)) /\ \A i \in Due \ {k} : Junk(Message(i))
      BY <2>3 DEF OneAnswerDue
    <3>2. k - 1 \in Due' /\ IsAnswer(Message(k - 1))'
      BY <2>1, <2>3, <3>1
    <3>3. ASSUME NEW i \in Due' \ {k - 1} PROVE Junk(Message(i))'
      <4>1. i + 1 \in Due /\ i + 1 # k /\ Message(i)' = Message(i + 1)
        BY <2>1, <3>1
      <4> QED BY <3>1, <4>1
    <3> QED BY <3>2, <3>3 DEF OneAnswerDue
  <2> QED BY <2>2, <2>3
<1>3. CASE mbx_out # <<>> /\ mbx_out' = <<>> /\ UNCHANGED answers /\ Junk(mbx_out[1])
  <2>1. /\ 0 \in Due /\ Due' = Due \ {0} /\ \A k \in Due' : Message(k)' = Message(k)
        /\ Message(0) = mbx_out[1]
    BY <1>3, ReadMoves
  <2>2. NoAnswer => NoAnswer'
    BY <2>1 DEF NoAnswer
  <2>3. ASSUME OneAnswerDue, Op \in Sdo, \A m : IsAnswer(m) => IsAnswer(m)' PROVE OneAnswerDue'
    <3>1. PICK k \in Due : IsAnswer(Message(k)) /\ \A i \in Due \ {k} : Junk(Message(i))
      BY <2>3 DEF OneAnswerDue
    <3>2. k # 0
      BY <1>3, <2>1, <2>3, <3>1 DEF IsAnswer, Junk
    <3> QED BY <2>1, <2>3, <3>1, <3>2 DEF OneAnswerDue
  <2> QED BY <2>2, <2>3
<1>4. CASE mbx_out = <<>> /\ UNCHANGED answers /\ \E m : mbx_out' = <<m>> /\ Junk(m)'
  <2>0. PICK x : mbx_out' = <<x>> /\ Junk(x)'
    BY <1>4
  <2>1. /\ Due' = Due \cup {0} /\ 0 \notin Due /\ \A k \in Due : Message(k)' = Message(k)
        /\ Message(0)' = x
    BY <1>4, <2>0, AgainMoves
  <2>2. Junk(Message(0))'
    BY <2>0, <2>1
  <2>3. NoAnswer => NoAnswer'
    BY <2>1, <2>2 DEF NoAnswer
  <2>4. ASSUME OneAnswerDue, \A m : IsAnswer(m) => IsAnswer(m)' PROVE OneAnswerDue'
    <3>1. PICK k \in Due : IsAnswer(Message(k)) /\ \A i \in Due \ {k} : Junk(Message(i))
      BY <2>4 DEF OneAnswerDue
    <3> QED BY <2>1, <2>2, <2>4, <3>1 DEF OneAnswerDue
  <2> QED BY <2>3, <2>4
<1>5. CASE /\ UNCHANGED mbx_out
           /\ \E as : answers' = answers \o as /\ IsSequence(as) /\ \A k \in DOMAIN as : Junk(as[k])'
  <2>1. PICK as : answers' = answers \o as /\ IsSequence(as) /\ \A k \in DOMAIN as : Junk(as[k])'
    BY <1>5
  <2>2. /\ Due \subseteq Due' /\ \A k \in Due : Message(k)' = Message(k)
        /\ \A k \in Due' \ Due : \E i \in DOMAIN as : Message(k)' = as[i]
    BY <1>5, <2>1, MoreMoves
  <2>3. \A k \in Due' \ Due : Junk(Message(k))'
    BY <2>1, <2>2
  <2>4. NoAnswer => NoAnswer'
    BY <2>2, <2>3 DEF NoAnswer
  <2>5. ASSUME OneAnswerDue, \A m : IsAnswer(m) => IsAnswer(m)' PROVE OneAnswerDue'
    <3>1. PICK k \in Due : IsAnswer(Message(k)) /\ \A i \in Due \ {k} : Junk(Message(i))
      BY <2>5 DEF OneAnswerDue
    <3> QED BY <2>2, <2>3, <2>5, <3>1 DEF OneAnswerDue
  <2> QED BY <2>4, <2>5
<1> QED BY <1>1, <1>2, <1>3, <1>4, <1>5 DEF QueueStep

\* The calls made are of sizes, and the names say which.
LEMMA SizesGood ==
    ASSUME JobInv
    PROVE  /\ Size \in Nat /\ Room \in Nat /\ Index \in Indexes /\ ObjectSize(Index) = Size
           /\ SdoMax \in Nat \ {0} /\ Op = job.call.op
<1>1. job.call \in Calls
  BY DEF JobInv
<1>2. ObjectSize(Index) = Size
  <2> DEFINE c == CHOOSE c \in Calls : c.index = Index
  <2>1. c \in Calls /\ c.index = Index
    BY <1>1 DEF Index
  <2>2. c.size = Size
    BY <1>1, <2>1, MailboxAssumption DEF Size, Index
  <2> QED BY <2>2 DEF ObjectSize
<1> QED BY <1>1, <1>2, MailboxAssumption, ServicesAssumption DEF Size, Room, Index, Indexes, SdoMax, Op

\* An SDO is served as one.
LEMMA SdoCall ==
    ASSUME Op \in Sdo
    PROVE  /\ \A m : Answered(m) = SdoAnswered(job, m)
           /\ Unanswered = SdoLost(job) /\ Sent = ToReceive(job) /\ Prepared = SdoPrepared(job)
           /\ Request(Prepared) = SdoRequest(job)
           /\ Op # "eoe_recv"
BY DEF Answered, Unanswered, Sent, Prepared, Request, Sdo, Info, Foe, Soe

\* One piece more.
LEMMA PieceMore ==
    ASSUME NEW ps, IsSequence(ps), NEW p, NEW i, p.index = i,
           IF ps = <<>> THEN p.from = 1
           ELSE AreBytes(ps, i, ps[Len(ps)].to) /\ p.from = ps[Len(ps)].to + 1
    PROVE  AreBytes(Append(ps, p), i, p.to)
<1> DEFINE qs == Append(ps, p)
           n == Len(ps)
<1>1. n \in Nat /\ DOMAIN ps = 1 .. n /\ (ps = <<>> <=> n = 0)
  BY SequencePlaces
<1>2. /\ IsSequence(qs) /\ qs # <<>> /\ Len(qs) = n + 1 /\ DOMAIN qs = 1 .. n + 1
      /\ qs[n + 1] = p /\ \A k \in 1 .. n : qs[k] = ps[k]
  BY <1>1, OneMore
<1> HIDE DEF qs, n
<1>3. qs[1].from = 1
  <2>1. CASE n = 0
    BY <1>1, <1>2, <2>1
  <2>2. CASE n # 0
    BY <1>1, <1>2, <2>2 DEF AreBytes
  <2> QED BY <2>1, <2>2
<1>4. ASSUME NEW k \in 1 .. n + 1 PROVE qs[k].index = i
  <2>1. CASE k = n + 1
    BY <1>2, <2>1
  <2>2. CASE k # n + 1
    <3>1. k \in 1 .. n /\ n # 0
      BY <1>1, <2>2
    <3> QED BY <1>1, <1>2, <3>1 DEF AreBytes
  <2> QED BY <2>1, <2>2
<1>5. ASSUME NEW k \in 1 .. n PROVE qs[k + 1].from = qs[k].to + 1
  <2>1. n # 0 /\ ps # <<>>
    BY <1>1
  <2>2. CASE k = n
    BY <1>2, <2>1, <2>2 DEF n
  <2>3. CASE k # n
    <3>1. k \in 1 .. n - 1 /\ k \in 1 .. n /\ k + 1 \in 1 .. n
      BY <1>1, <2>3
    <3>2. ps[k + 1].from = ps[k].to + 1
      BY <2>1, <3>1 DEF AreBytes, n
    <3> QED BY <1>2, <3>1, <3>2
  <2> QED BY <2>2, <2>3
<1>6. qs[Len(qs)].to = p.to
  BY <1>2
<1>7. \A k \in 1 .. Len(qs) - 1 : qs[k + 1].from = qs[k].to + 1
  BY <1>1, <1>2, <1>5
<1> QED BY <1>2, <1>3, <1>4, <1>6, <1>7 DEF AreBytes, qs

\* The steps in a call of an SDO that has begun: none of those that only other services make.
SdoStep ==
    \/ \E taken \in BOOLEAN : Send(taken)
    \/ Confirm \/ Receive \/ TimeOut \/ Lost
    \/ (SendAgain \/ Unconfirmed \/ ReadAgain \/ Put \/ Report \/ Exchange) /\ UNCHANGED job
    \/ ReadErrors \/ Take \/ SendFrame

\* A call that goes on in an SDO makes one of these.
LEMMA SdoSteps ==
    ASSUME MailboxInv, SdoForm, Next, ~Start, Op' \in Sdo, pc' # "idle"
    PROVE  SdoStep /\ Op \in Sdo /\ pc # "idle" /\ job'.call = job.call
<1>1. /\ JobFields(job) /\ job.call \in Calls
      /\ pc = "sent" => Op # "eoe_recv"
      /\ pc \in {"receive", "again"} => Op # "rxpdo"
  BY DEF MailboxInv, JobInv
<1>2. /\ Op # "rxpdo" => \A m : GoesOn(job, Answered(m))
      /\ GoesOn(job, Unanswered)
      /\ Op # "eoe_recv" => GoesOn(job, Sent)
      /\ Prepared.call = job.call
  BY <1>1, CallGoesOn
<1>3. CASE Master
  <2>1. job'.call = job.call /\ pc # "idle"
    BY <1>1, <1>2, <1>3
       DEF Master, StartEntry, Send, SendMessage, Confirm, AwaitEmpty, Receive, ReadOut, TimeOut, GiveUp,
           Lost, Go, GoesOn, SendAgain, Unconfirmed, ReadAgain
  <2>2. Op \in Sdo
    BY <2>1 DEF Op
  <2>3. ~StartEntry /\ ~AwaitEmpty
    BY <2>1, <2>2 DEF SdoForm, StartEntry, AwaitEmpty
  <2>4. SdoStep
    BY <1>3, <2>3 DEF Master, SdoStep
  <2> QED BY <2>1, <2>2, <2>4
<1>4. CASE ReadErrors \/ Slave
  <2>1. UNCHANGED <<job, pc>>
    BY <1>4 DEF ReadErrors, mailboxVars, Slave, Take, SendFrame, SendEthernet, Put, Report, Exchange
  <2>2. SdoStep
    BY <1>4 DEF Slave, SdoStep
  <2> QED BY <2>1, <2>2 DEF Op
<1> QED BY <1>3, <1>4 DEF Next

\* The local variables with which a call begins.
LEMMA SdoStart ==
    ASSUME MailboxInv, Start, Op' \in Sdo
    PROVE  /\ pc' = "send" /\ job'.call \in Calls
           /\ job' = [call |-> job'.call, n |-> job.n + 1, result |-> "open",
                      part |-> "first", toggle |-> 0, pieces |-> <<>>, written |-> 0]
<1>1. JobFields(job) /\ job.call \in Calls
  BY DEF MailboxInv, JobInv
<1>2. PICK c \in IF pc = "idle" THEN Calls ELSE Follows[job.call] :
         job' \in Begin(c, job.n + 1) /\ pc' = IF c.op = "eoe_recv" THEN "receive" ELSE "send"
  BY DEF Start
<1>3. c \in Calls /\ job'.call = c
  BY <1>1, <1>2, Begins, ServicesAssumption
<1>4. c.op \in Sdo
  BY <1>3 DEF Op
<1>5. job' = SdoBegin(c, job.n + 1)
  BY <1>2, <1>4 DEF Begin, Sdo, Info, Foe, Soe
<1> QED BY <1>2, <1>3, <1>4, <1>5 DEF SdoBegin, Sdo

\* And those with which it goes on.
LEMMA SdoJobs ==
    ASSUME NEW j, SdoJob(j), j.call.size \in Nat, SdoMax \in Nat
    PROVE  /\ SdoJob(SdoPrepared(j)) /\ \A m : SdoJob(SdoAnswered(j, m).job) /\ SdoJob(SdoLost(j).job)
           /\ \A m : SdoAnswered(j, m).next = "send" => SdoAnswered(j, m).job.part = "segment"
           /\ SdoLost(j).next = "send" => SdoLost(j).job.part = "segment"
<1>1. \A k : SdoJob(k) => SdoJob(NextPart(k).job) /\ NextPart(k).job.part = "segment"
  BY DEF SdoJob, NextPart, ToSend
<1>2. \A k, r : SdoJob(k) => SdoJob(ToEnd(k, r).job) /\ ToEnd(k, r).next = "ended"
  BY DEF SdoJob, ToEnd
<1>3. SdoJob(SdoPrepared(j))
  <2>1. LastByte(j) \in 0 .. j.call.size
    BY DEF SdoJob, LastByte, Lesser
  <2> QED BY <2>1 DEF SdoPrepared, SdoJob
<1>4. ASSUME NEW m PROVE SdoJob(SdoAnswered(j, m).job)
                         /\ (SdoAnswered(j, m).next = "send" => SdoAnswered(j, m).job.part = "segment")
  <2> DEFINE kept == IF j.call.op = "read" THEN [j EXCEPT !.pieces = Append(@, m.piece)] ELSE j
  <2>1. SdoJob(kept)
    BY DEF SdoJob
  <2> HIDE DEF kept
  <2>2. \/ SdoAnswered(j, m) = NextPart(kept)
        \/ \E r : SdoAnswered(j, m) = ToEnd(j, r) \/ SdoAnswered(j, m) = ToEnd(kept, r)
    BY DEF SdoAnswered, kept
  <2> QED BY <1>1, <1>2, <2>1, <2>2
<1>5. SdoJob(SdoLost(j).job) /\ (SdoLost(j).next = "send" => SdoLost(j).job.part = "segment")
  BY <1>1, <1>2 DEF SdoLost
<1> QED BY <1>3, <1>4, <1>5

\* What SdoAnswered and SdoLost leave: the next request, or the end.
LEMMA SdoNexts ==
    ASSUME NEW j
    PROVE  /\ \A m : SdoAnswered(j, m).next \in {"send", "ended"}
           /\ SdoLost(j).next \in {"send", "ended"}
<1>1. \A k : NextPart(k).next = "send" /\ \A r : ToEnd(k, r).next = "ended"
  BY DEF NextPart, ToSend, ToEnd
<1> QED BY <1>1 DEF SdoAnswered, SdoLost

\* The request that is sent.
LEMMA SdoSent ==
    ASSUME MailboxInv, SdoForm, Op \in Sdo, pc = "send"
    PROVE  LET r == Request(Prepared)
           IN  /\ r.kind = Op /\ r.part = job.part /\ r.index = Index /\ r.toggle = job.toggle
               /\ r.n = job.n /\ r.size = Size /\ Prepared.part = job.part
               /\ Prepared.toggle = job.toggle /\ Prepared.n = job.n /\ Prepared.call = job.call
               /\ Prepared.pieces = job.pieces /\ Prepared.result = job.result
               /\ Op = "write" => /\ r.from = job.written + 1 /\ r.from \in Nat
                                  /\ r.to = Prepared.written
                                  /\ job.part = "first" => r.from = 1
<1>1. Prepared = SdoPrepared(job) /\ Request(Prepared) = SdoRequest(job)
  BY SdoCall
<1>2. SdoJob(job) /\ (job.part = "first" => job.written = 0) /\ Size \in Nat
  BY SizesGood DEF SdoForm, MailboxInv
<1>3. job.written \in Nat
  BY <1>2 DEF SdoJob, Size
<1> QED BY <1>1, <1>2, <1>3 DEF SdoRequest, SdoPrepared, SdoJob, Op, Index, Size

\* The form of a call and of its request, step by step.
LEMMA NextForm ==
    ASSUME MailboxInv, SdoForm, Next
    PROVE  SdoForm'
<1> SUFFICES ASSUME Op' \in Sdo, pc' # "idle"
             PROVE  /\ SdoJob(job')
                    /\ pc' \notin {"empty", "drain"}
                    /\ pc' = "send" /\ job'.part = "first" => job'.written = 0
                    /\ pc' = "sent" => IsCurrent(last)'
  BY DEF SdoForm, SdoJob
<1> DEFINE G == /\ SdoJob(job')
                /\ pc' \notin {"empty", "drain"}
                /\ pc' = "send" /\ job'.part = "first" => job'.written = 0
                /\ pc' = "sent" => IsCurrent(last)'
<1>1. CASE Start
  <2>1. /\ pc' = "send" /\ job'.call \in Calls
        /\ job' = [call |-> job'.call, n |-> job.n + 1, result |-> "open",
                   part |-> "first", toggle |-> 0, pieces |-> <<>>, written |-> 0]
    BY <1>1, SdoStart
  <2>2. job'.call.size \in Nat
    BY <2>1, MailboxAssumption
  <2>3. /\ job'.n = job.n + 1 /\ job'.result = "open" /\ job'.part = "first" /\ job'.toggle = 0
        /\ job'.pieces = <<>> /\ job'.written = 0
    BY <2>1
  <2>4. SdoJob(job')
    BY <2>1, <2>2, <2>3 DEF SdoJob
  <2> QED BY <2>1, <2>3, <2>4
<1> SUFFICES ASSUME ~Start PROVE G
  BY <1>1
<1>2. SdoStep /\ Op \in Sdo /\ pc # "idle" /\ job'.call = job.call
  BY SdoSteps
<1>3. /\ JobFields(job) /\ Op = job.call.op /\ Size = job.call.size /\ Size \in Nat /\ SdoMax \in Nat
      /\ SdoJob(job) /\ pc \notin {"empty", "drain"}
      /\ pc = "send" /\ job.part = "first" => job.written = 0
      /\ pc = "sent" => IsCurrent(last)
      /\ Op' = Op
  BY <1>2, SizesGood DEF MailboxInv, JobInv, SdoForm, Op, Size
<1>4. ASSUME UNCHANGED <<job, mbx_cnt>>, pc' = pc \/ pc' \in {"again", "lost"},
             pc' = "sent" => last' = last
      PROVE  G
  BY <1>3, <1>4 DEF IsCurrent, Op, Index, Size
<1>5. ASSUME NEW taken \in BOOLEAN, Send(taken) PROVE G
  <2>1. /\ pc = "send" /\ job' = Prepared /\ mbx_cnt' = NextCnt /\ pc' \in {"sent", "lost"}
        /\ pc' = "sent" => /\ mbx_in' = <<[cnt |-> NextCnt, request |-> Request(Prepared)]>>
                          /\ last' = mbx_in'[1]
    BY <1>5 DEF Send, SendMessage
  <2>2. SdoJob(job')
    BY <1>2, <1>3, <2>1, SdoCall, SdoJobs
  <2>3. ASSUME pc' = "sent" PROVE IsCurrent(last)'
    <3>1. last' = [cnt |-> NextCnt, request |-> Request(Prepared)]
      BY <2>1, <2>3
    <3>2. last'.cnt = NextCnt /\ last'.request = Request(Prepared)
      BY <3>1
    <3> QED BY <1>2, <2>1, <3>2, SdoSent DEF IsCurrent, Op, Index, Size
  <2> QED BY <2>1, <2>2, <2>3
<1>6. CASE Confirm
  <2>1. job' = job /\ pc' = "receive"
    BY <1>2, <1>6, SdoCall DEF Confirm, Go, ToReceive
  <2> QED BY <1>3, <2>1
<1>7. CASE Receive
  <2>1. CASE UNCHANGED <<job, mbx_cnt>> /\ pc' = "again"
    BY <1>4, <2>1
  <2>2. CASE Go(Answered(mbx_out[1]))
    <3> DEFINE o == SdoAnswered(job, mbx_out[1])
    <3>1. job' = o.job /\ pc' = o.next
      BY <1>2, <2>2, SdoCall DEF Go
    <3>2. SdoJob(o.job) /\ (o.next = "send" => o.job.part = "segment")
      BY <1>3, SdoJobs
    <3>3. o.next \in {"send", "ended"}
      BY SdoNexts
    <3> QED BY <3>1, <3>2, <3>3
  <2> QED BY <1>7, <2>1, <2>2 DEF Receive, ReadOut
<1>8. CASE Lost
  <2>1. job' = SdoLost(job).job /\ pc' = SdoLost(job).next
    BY <1>2, <1>8, SdoCall DEF Lost, Go
  <2>2. SdoJob(SdoLost(job).job) /\ (SdoLost(job).next = "send" => SdoLost(job).job.part = "segment")
    BY <1>3, SdoJobs
  <2>3. SdoLost(job).next \in {"send", "ended"}
    BY SdoNexts
  <2> QED BY <2>1, <2>2, <2>3
<1>9. CASE \/ TimeOut
           \/ (SendAgain \/ Unconfirmed \/ ReadAgain \/ Put \/ Report \/ Exchange) /\ UNCHANGED job
  BY <1>4, <1>9 DEF TimeOut, GiveUp, SendAgain, Unconfirmed, ReadAgain, Put, Report, Exchange
<1>10. CASE ReadErrors \/ Take \/ SendFrame
  BY <1>4, <1>10 DEF ReadErrors, mailboxVars, Take, SendFrame, SendEthernet
<1> QED BY <1>2, <1>5, <1>6, <1>7, <1>8, <1>9, <1>10 DEF SdoStep

\* What a call has to do with the slave does not change with what else comes from it.
LEMMA JunkKept ==
    ASSUME job'.call = job.call, disturbed => disturbed'
    PROVE  \A m : Junk(m) => Junk(m)'
BY DEF Junk, Passed, IsFrame

\* The answer is the answer as long as the job, the server and the store stay.
LEMMA AnswerKept ==
    ASSUME UNCHANGED <<server, store, job>>, disturbed => disturbed'
    PROVE  \A m : IsAnswer(m) => IsAnswer(m)'
BY DEF IsAnswer, Op, Index, Size, Begun, Have, AreBytes, NextToggle, Transfer

\* A step that changes only what is on its way from the slave leaves each part of the places.
LEMMA PartsKept ==
    ASSUME MailboxInv, Op \in Sdo, QueueStep, disturbed => disturbed',
           UNCHANGED <<mbx_in, lastcnt, server, store, mbx_cnt, job>>
    PROVE  /\ (Sending => Sending') /\ (Waiting => Waiting') /\ (Finished => Finished')
           /\ (HasRoom => HasRoom') /\ (InStep(Reached) => InStep(Reached)')
           /\ \A m : Junk(m) => Junk(m)'
<1>1. IsSequence(answers)
  BY DEF MailboxInv, MailInv
<1>2. \A m : Junk(m) => Junk(m)'
  BY JunkKept
<1>3. \A m : IsAnswer(m) => IsAnswer(m)'
  BY AnswerKept
<1>4. (NoAnswer => NoAnswer') /\ (OneAnswerDue => OneAnswerDue')
  BY <1>1, <1>2, <1>3, QueueKept
<1>5. /\ (Linked => Linked') /\ (Repeated => Repeated') /\ (Finished => Finished')
      /\ (HasRoom => HasRoom')
      /\ \A p : InStep(p) => InStep(p)'
      /\ Reached' = Reached
      /\ \A m : IsCurrent(m) => IsCurrent(m)'
      /\ \A r : Expects(r) => Expects(r)'
  <2>1. Op' = Op /\ Index' = Index /\ Size' = Size /\ Room' = Room
    BY DEF Op, Index, Size, Room
  <2>2. Linked => Linked'
    BY <2>1 DEF Linked, Begun, Have, AreBytes
  <2>3. (Repeated => Repeated') /\ (Finished => Finished')
    BY <2>1 DEF Repeated, Finished, AreBytes
  <2>4. /\ \A p : InStep(p) => InStep(p)'
        /\ Reached' = Reached /\ (HasRoom => HasRoom')
    BY <2>1 DEF InStep, Transfer, Reached, Have, HasRoom
  <2>5. \A m : IsCurrent(m) => IsCurrent(m)'
    BY <2>1 DEF IsCurrent
  <2>6. \A r : Expects(r) => Expects(r)'
    BY <2>1 DEF Expects, InStep, Transfer, Have
  <2> QED BY <2>2, <2>3, <2>4, <2>5, <2>6
<1>6. (Sending => Sending') /\ (Waiting => Waiting')
  BY <1>4, <1>5 DEF Sending, Waiting
<1>7. InStep(Reached) => InStep(Reached)'
  <2>1. Op' = Op /\ Index' = Index
    BY DEF Op, Index
  <2> QED BY <1>5, <2>1 DEF InStep, Transfer
<1> QED BY <1>2, <1>5, <1>6, <1>7

\* And so the place.
LEMMA PlaceKept ==
    ASSUME MailboxInv, Op \in Sdo, SdoPlace, QueueStep, disturbed => disturbed',
           UNCHANGED <<mbx_in, lastcnt, server, store, mbx_cnt, job, pc>>,
           pc = "again" => last' = last
    PROVE  SdoPlace'
BY PartsKept DEF SdoPlace

\* An emergency, a frame, and what the slave had still to put into its mailbox.
LEMMA SdoOthers ==
    ASSUME MailboxInv, Op \in Sdo, SdoPlace,
           \/ (Put \/ Report \/ ReadAgain) /\ UNCHANGED job
           \/ SendFrame \/ ReadErrors
    PROVE  SdoPlace'
<1>1. CASE Put /\ UNCHANGED job
  BY <1>1, PlaceKept DEF Put, ghostVars, QueueStep
<1>2. CASE ReadErrors
  BY <1>2, PlaceKept DEF ReadErrors, mailboxVars, slaveVars, ghostVars, QueueStep
<1>3. CASE ReadAgain /\ UNCHANGED job
  <2>1. /\ pc = "again" /\ mbx_out = <<>> /\ mbx_out' = <<last>>
        /\ UNCHANGED <<mbx_in, answers, lastcnt, server, store, mbx_cnt, job, pc, last, disturbed>>
    BY <1>3 DEF ReadAgain, ghostVars
  <2>2. Junk(last)
    BY <2>1 DEF SdoPlace
  <2>3. \E m : mbx_out' = <<m>> /\ Junk(m)'
    <3>1. \A m : Junk(m) => Junk(m)'
      BY <2>1, JunkKept
    <3> QED BY <2>1, <2>2, <3>1
  <2>4. QueueStep
    BY <2>1, <2>3 DEF QueueStep
  <2> QED BY <2>1, <2>4, PlaceKept
<1>4. CASE Report /\ UNCHANGED job
  <2>1. /\ answers' = Append(answers, Emergency)
        /\ UNCHANGED <<mbx_in, mbx_out, lastcnt, server, store, mbx_cnt, job, pc, last, disturbed>>
    BY <1>4 DEF Report
  <2> DEFINE as == <<Emergency>>
  <2>2. IsSequence(as) /\ DOMAIN as = {1} /\ as[1] = Emergency
    BY ShortSequences
  <2>3. answers' = answers \o as
    <3>1. IsSequence(answers)
      BY DEF MailboxInv, MailInv
    <3> QED BY <2>1, <3>1, AppendIsConcat, SeqMonotonic DEF IsSequence
  <2>4. \A k \in DOMAIN as : Junk(as[k])'
    <3>1. Junk(Emergency)'
      BY DEF Junk, Passed, Emergency, Sdo
    <3> QED BY <2>2, <3>1
  <2> HIDE DEF as
  <2>5. QueueStep
    BY <2>1, <2>2, <2>3, <2>4 DEF QueueStep
  <2> QED BY <2>1, <2>5, PlaceKept
<1>5. CASE SendFrame
  <2>1. PICK c \in Calls, stamped \in BOOLEAN : SendEthernet(c.index, stamped)
    BY <1>5 DEF SendFrame
  <2> DEFINE as == FragmentsOf(c.index, faults', stamped)
  <2>2. IsSequence(as) /\ \A k \in DOMAIN as : as[k].kind = "eoe_data"
    BY FragmentsGood DEF Indexes
  <2>3. /\ answers' = answers \o as /\ job' = job
        /\ disturbed' = (disturbed \/ ~(Op = "eoe_recv" \/ job.call \in Hooked))
        /\ UNCHANGED <<mbx_in, mbx_out, lastcnt, server, store, mbx_cnt, job, pc, last>>
    BY <1>5, <2>1 DEF SendEthernet, SendFrame
  <2> HIDE DEF as
  <2>4. PICK s : answers' = answers \o s /\ IsSequence(s) /\ \A k \in DOMAIN s : s[k].kind = "eoe_data"
    BY <2>2, <2>3
  <2>5. \A k \in DOMAIN s : Junk(s[k])'
    BY <2>3, <2>4 DEF Junk, Passed, IsFrame, Sdo
  <2>6. QueueStep
    BY <2>3, <2>4, <2>5 DEF QueueStep
  <2> QED BY <2>3, <2>6, PlaceKept
<1> QED BY <1>1, <1>2, <1>3, <1>4, <1>5

\* Another board: nothing is under way.
LEMMA SdoExchanged ==
    ASSUME MailboxInv, Op \in Sdo, Exchange, UNCHANGED job
    PROVE  SdoPlace'
<1>1. /\ pc' = pc /\ pc # "ended" /\ mbx_in' = <<>> /\ mbx_out' = <<>> /\ answers' = <<>>
      /\ server' = NoTransfer /\ disturbed' /\ last' = last
  BY DEF Exchange
<1>2. Due' = {}
  BY <1>1, ShortSequences DEF Due
<1>3. NoAnswer' /\ Repeated' /\ Linked'
  BY <1>1, <1>2 DEF NoAnswer, Repeated, Linked, NoTransfer
<1>4. pc = "again" => Junk(last)'
  BY <1>1 DEF MailboxInv, MailInv, Other, Junk, Sdo
<1> QED BY <1>1, <1>3, <1>4 DEF SdoPlace, Sending, Waiting, InStep, HasRoom

\* The next request is sent, or gets lost.
LEMMA SdoSends ==
    ASSUME MailboxInv, CounterInv, SdoForm, Op \in Sdo, SdoPlace, NEW taken \in BOOLEAN, Send(taken)
    PROVE  SdoPlace'
<1> DEFINE r == Request(Prepared)
<1>1. /\ pc = "send" /\ job' = Prepared /\ mbx_cnt' = NextCnt /\ pc' \in {"sent", "lost"}
      /\ UNCHANGED <<mbx_out, answers, lastcnt, server, store>>
      /\ disturbed => disturbed'
  BY DEF Send, SendMessage
<1>2. /\ r.kind = Op /\ r.part = job.part /\ r.index = Index /\ r.toggle = job.toggle
      /\ r.n = job.n /\ r.size = Size /\ job'.part = job.part
      /\ job'.toggle = job.toggle /\ job'.n = job.n /\ job'.call = job.call
      /\ job'.pieces = job.pieces
      /\ Op = "write" => /\ r.from = job.written + 1 /\ r.from \in Nat /\ r.to = job'.written
                         /\ job.part = "first" => r.from = 1
  BY <1>1, SdoSent
<1>3. Op' = Op /\ Index' = Index /\ Size' = Size /\ Room' = Room
  BY <1>2 DEF Op, Index, Size, Room
<1>4. NoAnswer /\ Repeated /\ Linked /\ InStep(Reached) /\ HasRoom
  BY <1>1 DEF SdoPlace, Sending
<1>5. NoAnswer'
  <2>1. \A m : Junk(m) => Junk(m)'
    BY <1>1, <1>2, JunkKept
  <2>2. Due' = Due /\ \A k \in Due : Message(k)' = Message(k)
    BY <1>1 DEF Due, Message
  <2> QED BY <1>4, <2>1, <2>2 DEF NoAnswer
<1>6. Linked' /\ HasRoom'
  BY <1>1, <1>2, <1>3, <1>4 DEF Linked, HasRoom, Begun, Have, AreBytes
<1>7. CASE pc' = "lost"
  <2>1. /\ UNCHANGED mbx_in /\ disturbed'
    BY <1>7 DEF Send, SendMessage
  <2>2. Repeated'
    BY <1>1, <1>4, <2>1 DEF Repeated
  <2> QED BY <1>5, <1>6, <1>7, <2>1, <2>2 DEF SdoPlace, Sending
<1>8. CASE pc' = "sent"
  <2> HIDE DEF r
  <2>1. /\ mbx_in = <<>> /\ mbx_in' = <<[cnt |-> NextCnt, request |-> r]>>
        /\ disturbed' = (disturbed \/ Wrapped)
    BY <1>8 DEF Send, SendMessage, r
  <2>2. mbx_in' # <<>> /\ mbx_in'[1].cnt = NextCnt /\ mbx_in'[1].request = r
    BY <2>1
  <2>3. IsCurrent(mbx_in[1])'
    BY <1>1, <1>2, <1>3, <2>2 DEF IsCurrent
  <2>4. ~Wrapped => NextCnt # lastcnt
    <3>1. /\ MaxCnt \in Nat \ {0} /\ mbx_cnt \in 0 .. MaxCnt /\ unsent \in 0 .. MaxCnt
          /\ lastcnt \in 0 .. MaxCnt /\ Old(lastcnt)
      BY <2>1, MailboxAssumption DEF MailboxInv, CountInv, CounterInv
    <3> QED BY <3>1, NextIsNew
  <2>5. ASSUME ~disturbed' PROVE Expects(mbx_in[1].request)'
    <3>1. IF Op = "read" THEN Have(job)' = Have(job) ELSE mbx_in'[1].request.from - 1 = job.written
      <4>1. CASE Op = "read"
        BY <1>2, <4>1 DEF Have
      <4>2. CASE Op # "read"
        <5>1. Op = "write" /\ job.written \in Nat
          <6>1. Size \in Nat /\ job.written \in 0 .. job.call.size
            BY <1>1, SizesGood DEF MailboxInv, SdoForm, SdoJob
          <6> QED BY <4>2, <6>1 DEF Sdo, Size
        <5> QED BY <1>2, <2>2, <4>2, <5>1
      <4> QED BY <4>1, <4>2
    <3>2. InStep(Reached) /\ ~disturbed
      BY <1>4, <2>1, <2>5
    <3> QED BY <1>1, <1>2, <1>3, <3>1, <3>2 DEF Expects, InStep, Transfer, Reached
  <2>6. Waiting'
    BY <1>1, <1>5, <1>6, <2>1, <2>2, <2>3, <2>4, <2>5 DEF Waiting
  <2> QED BY <1>6, <1>8, <2>6 DEF SdoPlace
<1> QED BY <1>1, <1>7, <1>8

\* It is confirmed.
LEMMA SdoConfirmed ==
    ASSUME MailboxInv, Op \in Sdo, SdoPlace, Confirm
    PROVE  SdoPlace'
<1>1. /\ pc = "sent" /\ pc' = "receive" /\ UNCHANGED <<job, slaveVars, mbx_cnt, disturbed>>
  BY SdoCall DEF Confirm, Go, ToReceive, ghostVars
<1>2. Waiting /\ HasRoom
  BY <1>1 DEF SdoPlace
<1>3. Waiting' /\ HasRoom'
  BY <1>1, <1>2, PartsKept DEF slaveVars, QueueStep
<1> QED BY <1>1, <1>3 DEF SdoPlace

\* The time is over when nothing is under way: that disturbs the call, or it was disturbed.
LEMMA SdoTimedOut ==
    ASSUME MailboxInv, Op \in Sdo, SdoPlace, TimeOut, ~stale'
    PROVE  SdoPlace'
<1>1. /\ pc \in {"receive", "again"} /\ pc' = "lost" /\ UNCHANGED <<job, slaveVars, mbx_cnt>>
      /\ mbx_in = <<>> /\ mbx_out = <<>> /\ answers = <<>>
      /\ disturbed => disturbed'
  BY DEF TimeOut, GiveUp, Pending
<1>2. Due = {} /\ Due' = {}
  BY <1>1, ShortSequences DEF Due, slaveVars
<1>3. ~OneAnswerDue
  BY <1>2 DEF OneAnswerDue
<1>4. disturbed /\ Linked /\ HasRoom
  BY <1>1, <1>3 DEF SdoPlace, Waiting
<1>5. NoAnswer' /\ Repeated'
  BY <1>1, <1>2 DEF NoAnswer, Repeated, slaveVars
<1>6. Linked' /\ HasRoom'
  BY <1>1, <1>4 DEF Linked, HasRoom, Op, Index, Size, Room, Begun, Have, AreBytes, slaveVars
<1> QED BY <1>1, <1>4, <1>5, <1>6 DEF SdoPlace, Sending

\* The next segment.
LEMMA NextPartGood ==
    ASSUME NEW j, SdoJob(j)
    PROVE  LET k == NextPart(j).job
           IN  /\ NextPart(j).next = "send" /\ k.part = "segment" /\ k.toggle = NextToggle(j)
               /\ k.call = j.call /\ k.n = j.n /\ k.result = j.result
               /\ k.pieces = j.pieces /\ k.written = j.written
<1>1. NextPart(j).next = "send" /\ NextPart(j).job = [j EXCEPT !.part = "segment", !.toggle = NextToggle(j)]
  BY DEF NextPart, ToSend, NextToggle
<1>2. {"call", "n", "result", "part", "toggle", "pieces", "written"} = DOMAIN j
  BY DEF SdoJob
<1> QED BY <1>1, <1>2

\* After that the next segment is asked for, or the call has failed.
LEMMA SdoGivenUp ==
    ASSUME SdoForm, Op \in Sdo, SdoPlace, Lost
    PROVE  SdoPlace'
<1>1. /\ pc = "lost" /\ job' = SdoLost(job).job /\ pc' = SdoLost(job).next
      /\ UNCHANGED <<slaveVars, mbx_cnt, disturbed>>
  BY SdoCall DEF Lost, Go, ghostVars
<1>2. Sending /\ disturbed /\ SdoJob(job)
  BY <1>1 DEF SdoPlace, SdoForm
<1>3. CASE SdoLost(job) = ToEnd(job, "lost")
  <2>1. pc' = "ended" /\ job'.result = "lost"
    BY <1>1, <1>2, <1>3 DEF ToEnd, SdoJob
  <2> QED BY <1>1, <1>2, <2>1 DEF SdoPlace, Finished
<1>4. CASE job.part = "segment" /\ SdoLost(job) = NextPart(job)
  <2>1. /\ pc' = "send" /\ job'.call = job.call /\ job'.part = "segment" /\ job'.pieces = job.pieces
    BY <1>1, <1>2, <1>4, NextPartGood
  <2>2. NoAnswer'
    <3>1. \A m : Junk(m) => Junk(m)'
      BY <1>1, <2>1, JunkKept
    <3>2. Due' = Due /\ \A k \in Due : Message(k)' = Message(k)
      BY <1>1 DEF Due, Message, slaveVars
    <3> QED BY <1>2, <3>1, <3>2 DEF NoAnswer, Sending
  <2>3. Repeated'
    BY <1>1, <1>2 DEF Repeated, Sending, slaveVars
  <2>4. Linked'
    BY <1>1, <1>2, <1>4, <2>1 DEF Linked, Sending, Op, Index, Begun, Have, AreBytes, slaveVars
  <2> QED BY <1>1, <1>2, <2>1, <2>2, <2>3, <2>4 DEF SdoPlace, Sending, InStep, HasRoom
<1> QED BY <1>1, <1>3, <1>4 DEF SdoLost, KeepsOn

\* The request comes a second time.
LEMMA SdoSentAgain ==
    ASSUME SdoForm, Op \in Sdo, SdoPlace, SendAgain, UNCHANGED job
    PROVE  SdoPlace'
<1>1. /\ pc = "sent" /\ pc' = pc /\ mbx_in = <<>> /\ mbx_in' = <<last>>
      /\ UNCHANGED <<mbx_out, answers, lastcnt, server, store, mbx_cnt, disturbed>>
  BY DEF SendAgain
<1>2. IsCurrent(last) /\ Waiting /\ HasRoom
  BY <1>1 DEF SdoPlace, SdoForm
<1>3. mbx_in' # <<>> /\ mbx_in'[1] = last
  BY <1>1
<1>4. IsCurrent(mbx_in[1])' /\ HasRoom'
  BY <1>1, <1>2, <1>3 DEF IsCurrent, HasRoom, Op, Index, Size, Room
<1>5. CASE NoAnswer /\ Linked /\ disturbed
  <2>1. NoAnswer' /\ Linked'
    BY <1>1, <1>5 DEF NoAnswer, Linked, Due, Message, Junk, Passed, IsFrame, Op, Index, Begun, Have, AreBytes
  <2> QED BY <1>1, <1>4, <1>5, <2>1 DEF SdoPlace, Waiting
<1>6. CASE OneAnswerDue /\ lastcnt = mbx_cnt
  <2>1. OneAnswerDue'
    BY <1>1, <1>6 DEF OneAnswerDue, Due, Message, Junk, Passed, IsFrame, IsAnswer, Op, Index, Size, Begun,
                      Have, AreBytes, NextToggle, Transfer
  <2> QED BY <1>1, <1>4, <1>6, <2>1 DEF SdoPlace, Waiting
<1> QED BY <1>1, <1>2, <1>5, <1>6 DEF Waiting

\* What SdoAnswered makes of no answer, and of the answer.
LEMMA JunkAnswered ==
    ASSUME NEW j, SdoJob(j), NEW m, m.kind \notin Sdo
    PROVE  \E r \in {"abort", "unexpected"} :
              /\ SdoAnswered(j, m).next = "ended"
              /\ SdoAnswered(j, m).job.result = r
<1>1. ~Fits(j, m)
  BY DEF Fits, Sdo
<1>2. \A r : ToEnd(j, r).next = "ended" /\ ToEnd(j, r).job.result = r
  BY DEF ToEnd, SdoJob
<1> QED BY <1>1, <1>2 DEF SdoAnswered

\* The end of a job.
LEMMA EndGood ==
    ASSUME NEW j, SdoJob(j), NEW r
    PROVE  LET k == ToEnd(j, r).job
           IN  /\ ToEnd(j, r).next = "ended" /\ k.result = r
               /\ k.call = j.call /\ k.n = j.n
               /\ k.pieces = j.pieces /\ k.written = j.written
<1>1. ToEnd(j, r).next = "ended" /\ ToEnd(j, r).job = [j EXCEPT !.result = r]
  BY DEF ToEnd
<1>2. {"call", "n", "result", "part", "toggle", "pieces", "written"} = DOMAIN j
  BY DEF SdoJob
<1> QED BY <1>1, <1>2

\* A job with other pieces.
LEMMA OtherPieces ==
    ASSUME NEW j, SdoJob(j), NEW ps
    PROVE  LET k == [j EXCEPT !.pieces = ps]
           IN  /\ SdoJob(k) /\ k.pieces = ps
               /\ k.call = j.call /\ k.n = j.n /\ k.part = j.part /\ k.toggle = j.toggle
<1> DEFINE k == [j EXCEPT !.pieces = ps]
<1>1. {"call", "n", "result", "part", "toggle", "pieces", "written"} = DOMAIN j
  BY DEF SdoJob
<1>2. /\ k.pieces = ps /\ k.call = j.call /\ k.n = j.n /\ k.part = j.part /\ k.toggle = j.toggle
      /\ k.result = j.result /\ k.written = j.written
  BY <1>1
<1>3. SdoJob(k)
  BY DEF SdoJob
<1> QED BY <1>2, <1>3

\* A message that is no answer ends a call, unless ecx_mbxreceive has dealt with it; then the
\* call was disturbed.
LEMMA SdoJunkRead ==
    ASSUME MailboxInv, SdoForm, Op \in Sdo, SdoPlace, Receive, Junk(mbx_out[1])
    PROVE  SdoPlace'
<1> DEFINE m == mbx_out[1]
<1>1. /\ pc \in {"receive", "again"} /\ mbx_out # <<>> /\ mbx_out' = <<>>
      /\ UNCHANGED <<mbx_in, answers, lastcnt, board, server, store, mbx_cnt, disturbed>>
  BY DEF Receive, ReadOut, ghostVars
<1>2. QueueStep
  BY <1>1 DEF QueueStep
<1>3. CASE UNCHANGED job /\ pc' = "again" /\ last' = m
  <2>1. Waiting' /\ HasRoom' /\ \A x : Junk(x) => Junk(x)'
    BY <1>1, <1>2, <1>3, PartsKept DEF SdoPlace
  <2>2. Junk(last)'
    <3>1. PICK x : x = m
      OBVIOUS
    <3>2. Junk(x)' /\ last' = x
      BY <1>3, <2>1, <3>1
    <3> QED BY <3>2 DEF Junk, Passed, IsFrame
  <2> QED BY <1>3, <2>1, <2>2 DEF SdoPlace
<1>4. CASE ~(IsReport(m) \/ IsFrame(m, job.call))
  <2>1. disturbed
    BY <1>4 DEF Junk, Passed, IsReport
  <2>2. job' = SdoAnswered(job, m).job /\ pc' = SdoAnswered(job, m).next
    BY <1>4, SdoCall DEF Receive, Go
  <2>3. pc' = "ended" /\ job'.result \in {"abort", "unexpected"}
    <3>1. SdoJob(job) /\ m.kind \notin Sdo
      BY <1>1 DEF SdoForm, Junk
    <3> HIDE DEF m
    <3> QED BY <2>2, <3>1, JunkAnswered
  <2> QED BY <1>1, <2>1, <2>3 DEF SdoPlace, Finished
<1> QED BY <1>3, <1>4 DEF Receive, ReadOut

\* The answer to a read: a piece more, the next segment or the end.
LEMMA SdoReadAnswered ==
    ASSUME MailboxInv, SdoForm, Op = "read", pc # "idle", job.result = "open", HasRoom,
           NEW m, IsAnswer(m)
    PROVE  LET o == SdoAnswered(job, m)
               k == o.job
           IN  /\ k.call = job.call /\ k.n = job.n
               /\ \/ /\ o.next = "ended" /\ k.result = "small" /\ Size > Room
                  \/ /\ o.next = "ended" /\ k.result = "ok" /\ (~disturbed => ~(Size > Room))
                     /\ AreBytes(k.pieces, Index, Size)
                  \/ /\ o.next = "send" /\ k.part = "segment" /\ k.toggle = NextToggle(job)
                     /\ m.more /\ Have(k) = m.piece.to /\ Begun(k)
                     /\ ~disturbed => Size <= Room
<1> DEFINE kept == [job EXCEPT !.pieces = Append(@, m.piece)]
<1>1. /\ SdoJob(job) /\ Op = job.call.op /\ Index = job.call.index /\ Room = job.call.room
      /\ Size = job.call.size /\ Size \in Nat /\ Room \in Nat
      /\ IsSequence(job.pieces) /\ (job.part = "first" <=> job.pieces = <<>>)
      /\ job.part \in {"first", "segment"}
  BY SizesGood DEF MailboxInv, SdoForm, ReadInv, ReadPart, Op, Sdo, Index, Room, Size
<1>2. /\ m.kind = "read" /\ m.part = job.part /\ (m.part = "first" => m.index = Index)
      /\ job.part = "segment" => Begun(job)
      /\ m.size = Size /\ m.piece.index = Index /\ m.piece.from = Have(job) + 1 /\ m.piece.to \in Nat
      /\ ~m.more => m.piece.to = Size
  BY DEF IsAnswer
<1>3. Fits(job, m)
  BY <1>1, <1>2 DEF Fits
<1>4. AreBytes(Append(job.pieces, m.piece), Index, m.piece.to)
  <2>1. CASE job.pieces = <<>>
    <3>1. m.piece.from = 1
      BY <1>2, <2>1 DEF Have
    <3> QED BY <1>1, <1>2, <2>1, <3>1, PieceMore
  <2>2. CASE job.pieces # <<>>
    <3>1. AreBytes(job.pieces, Index, job.pieces[Len(job.pieces)].to)
          /\ m.piece.from = job.pieces[Len(job.pieces)].to + 1
      BY <1>1, <1>2, <2>2 DEF Have, Begun
    <3> QED BY <1>1, <1>2, <2>2, <3>1, PieceMore
  <2> QED BY <2>1, <2>2
<1>5. SdoJob(kept) /\ kept.pieces = Append(job.pieces, m.piece) /\ kept.call = job.call /\ kept.n = job.n
      /\ kept.part = job.part /\ kept.toggle = job.toggle
  <2>1. kept = [job EXCEPT !.pieces = Append(job.pieces, m.piece)]
    OBVIOUS
  <2> HIDE DEF kept
  <2> QED BY <1>1, <2>1, OtherPieces
<1> HIDE DEF kept
<1>6. CASE job.part = "first" /\ Size > Room
  <2>1. SdoAnswered(job, m) = ToEnd(job, "small")
    BY <1>1, <1>2, <1>3, <1>6 DEF SdoAnswered
  <2> QED BY <1>1, <1>6, <2>1, EndGood
<1>7. CASE ~(job.part = "first" /\ Size > Room) /\ m.more
  <2>1. SdoAnswered(job, m) = NextPart(kept)
    BY <1>1, <1>2, <1>3, <1>7 DEF SdoAnswered, More, kept
  <2>2. LET k == NextPart(kept).job
        IN  /\ NextPart(kept).next = "send" /\ k.part = "segment" /\ k.toggle = NextToggle(job)
            /\ k.call = job.call /\ k.n = job.n /\ k.pieces = Append(job.pieces, m.piece)
    BY <1>5, NextPartGood DEF NextToggle
  <2>3. LET k == NextPart(kept).job
        IN  Have(k) = m.piece.to /\ Begun(k)
    BY <1>1, <1>2, <1>4, <2>2 DEF Have, Begun, AreBytes
  <2>4. ~disturbed => Size <= Room
    BY <1>1, <1>7 DEF HasRoom
  <2> QED BY <1>7, <2>1, <2>2, <2>3, <2>4
<1>8. CASE ~(job.part = "first" /\ Size > Room) /\ ~m.more
  <2>1. SdoAnswered(job, m) = ToEnd(kept, "ok")
    BY <1>1, <1>2, <1>3, <1>8 DEF SdoAnswered, More, kept
  <2>2. ~disturbed => ~(Size > Room)
    BY <1>1, <1>8 DEF HasRoom
  <2>3. AreBytes(kept.pieces, Index, Size)
    BY <1>2, <1>4, <1>5, <1>8
  <2>4. LET k == ToEnd(kept, "ok").job
        IN  /\ ToEnd(kept, "ok").next = "ended" /\ k.result = "ok"
            /\ k.call = job.call /\ k.n = job.n /\ k.pieces = kept.pieces
    BY <1>5, EndGood
  <2> QED BY <2>1, <2>2, <2>3, <2>4
<1> QED BY <1>6, <1>7, <1>8

\* The answer to a write.
LEMMA SdoWriteAnswered ==
    ASSUME MailboxInv, SdoForm, Op = "write", pc # "idle", NEW m, IsAnswer(m)
    PROVE  LET o == SdoAnswered(job, m)
               k == o.job
           IN  /\ k.call = job.call /\ k.n = job.n
               /\ \/ /\ o.next = "ended" /\ k.result = "ok" /\ store[Index] = job.n
                  \/ /\ o.next = "send" /\ k.part = "segment" /\ k.toggle = NextToggle(job)
                     /\ k.written = job.written
                     /\ ~disturbed => server = Transfer("write", job.written, NextToggle(job))
<1>1. /\ SdoJob(job) /\ Op = job.call.op /\ Index = job.call.index
      /\ Size = job.call.size /\ Size \in Nat /\ job.written \in 0 .. Size
      /\ job.part \in {"first", "segment"}
  BY SizesGood DEF MailboxInv, SdoForm, SdoJob, Op, Sdo, Index, Size
<1>2. /\ m.kind = "write" /\ m.part = job.part /\ (m.part = "first" => m.index = Index)
      /\ job.written = Size => store[Index] = job.n
      /\ ~disturbed /\ job.written < Size => server = Transfer("write", job.written, NextToggle(job))
  BY DEF IsAnswer
<1>3. SdoAnswered(job, m) = IF job.written < Size THEN NextPart(job) ELSE ToEnd(job, "ok")
  BY <1>1, <1>2 DEF SdoAnswered, Fits, More
<1>4. CASE job.written < Size
  BY <1>1, <1>2, <1>3, <1>4, NextPartGood
<1>5. CASE ~(job.written < Size)
  BY <1>1, <1>2, <1>3, <1>5, EndGood
<1> QED BY <1>4, <1>5

\* The answer is read.
LEMMA SdoAnswerRead ==
    ASSUME MailboxInv, SdoForm, Op \in Sdo, SdoPlace, Receive, ~Junk(mbx_out[1])
    PROVE  SdoPlace'
<1> DEFINE m == mbx_out[1]
           o == SdoAnswered(job, m)
<1>1. /\ pc \in {"receive", "again"} /\ mbx_out # <<>> /\ mbx_out' = <<>>
      /\ UNCHANGED <<mbx_in, answers, lastcnt, board, server, store, mbx_cnt, disturbed>>
  BY DEF Receive, ReadOut, ghostVars
<1>2. /\ Waiting /\ HasRoom /\ job.result = "open" /\ IsSequence(answers)
  BY <1>1 DEF SdoPlace, MailboxInv, JobInv, MailInv
<1>3. /\ 0 \in Due /\ Due' = Due \ {0} /\ \A k \in Due' : Message(k)' = Message(k)
      /\ Message(0) = m
  BY <1>1, <1>2, ReadMoves
<1>4. OneAnswerDue /\ lastcnt = mbx_cnt
  BY <1>2, <1>3 DEF Waiting, NoAnswer
<1>5. IsAnswer(m) /\ \A i \in Due' : Junk(Message(i))
  BY <1>3, <1>4 DEF OneAnswerDue
<1>6. m.kind = Op
  BY <1>5 DEF IsAnswer
<1>7. job' = o.job /\ pc' = o.next
  BY <1>6, SdoCall DEF Receive, Go, IsReport, IsFrame, Sdo
<1>8. Repeated
  BY <1>2, <1>4 DEF Waiting, IsCurrent, Repeated
<1>9. ASSUME job'.call = job.call PROVE NoAnswer' /\ Repeated'
  <2>1. \A x : Junk(x) => Junk(x)'
    BY <1>1, <1>9, JunkKept
  <2>2. NoAnswer'
    BY <1>3, <1>5, <2>1 DEF NoAnswer
  <2> QED BY <1>1, <1>8, <2>2 DEF Repeated
<1> HIDE DEF m, o
<1>10. CASE Op = "read"
  <2>1. /\ job'.call = job.call /\ job'.n = job.n
        /\ \/ /\ pc' = "ended" /\ job'.result = "small" /\ Size > Room
           \/ /\ pc' = "ended" /\ job'.result = "ok" /\ (~disturbed => ~(Size > Room))
              /\ AreBytes(job'.pieces, Index, Size)
           \/ /\ pc' = "send" /\ job'.part = "segment" /\ job'.toggle = NextToggle(job)
              /\ m.more /\ Have(job') = m.piece.to /\ Begun(job')
              /\ ~disturbed => Size <= Room
    BY <1>1, <1>2, <1>5, <1>7, <1>10, SdoReadAnswered DEF o
  <2>2. Op' = "read" /\ Index' = Index /\ Size' = Size /\ Room' = Room
    BY <1>10, <2>1 DEF Op, Index, Size, Room
  <2>3. NoAnswer' /\ Repeated'
    BY <1>9, <2>1
  <2>4. CASE pc' = "ended" /\ job'.result = "small" /\ Size > Room
    BY <2>2, <2>3, <2>4 DEF SdoPlace, Finished
  <2>5. CASE /\ pc' = "ended" /\ job'.result = "ok" /\ (~disturbed => ~(Size > Room))
             /\ AreBytes(job'.pieces, Index, Size)
    <3>1. AreBytes(job.pieces, Index, Size)'
      BY <2>2, <2>5 DEF AreBytes
    <3> QED BY <1>1, <2>2, <2>3, <2>5, <3>1 DEF SdoPlace, Finished
  <2>6. CASE /\ pc' = "send" /\ job'.part = "segment" /\ job'.toggle = NextToggle(job)
             /\ m.more /\ Have(job') = m.piece.to /\ Begun(job')
             /\ ~disturbed => Size <= Room
    <3>1. server' = Transfer("read", m.piece.to, NextToggle(job))
      BY <1>1, <1>5, <1>10, <2>6 DEF IsAnswer
    <3>2. Have(job)' = m.piece.to /\ Begun(job)'
      BY <2>6 DEF Have, Begun, AreBytes
    <3>3. server'.index = Index /\ server'.pos = m.piece.to
      BY <3>1 DEF Transfer
    <3>4. Linked'
      BY <2>2, <3>2, <3>3 DEF Linked
    <3>5. InStep(Reached)'
      BY <2>2, <2>6, <3>1, <3>2 DEF InStep, Reached, Transfer
    <3>6. HasRoom'
      BY <1>1, <2>2, <2>6 DEF HasRoom
    <3> QED BY <2>3, <2>6, <3>4, <3>5, <3>6 DEF SdoPlace, Sending
  <2> QED BY <2>1, <2>4, <2>5, <2>6
<1>11. CASE Op = "write"
  <2>1. /\ job'.call = job.call /\ job'.n = job.n
        /\ \/ /\ pc' = "ended" /\ job'.result = "ok" /\ store[Index] = job.n
           \/ /\ pc' = "send" /\ job'.part = "segment" /\ job'.toggle = NextToggle(job)
              /\ job'.written = job.written
              /\ ~disturbed => server = Transfer("write", job.written, NextToggle(job))
    BY <1>1, <1>5, <1>7, <1>11, SdoWriteAnswered DEF o
  <2>2. Op' = "write" /\ Index' = Index /\ Size' = Size /\ Room' = Room
    BY <1>11, <2>1 DEF Op, Index, Size, Room
  <2>3. NoAnswer' /\ Repeated'
    BY <1>9, <2>1
  <2>4. CASE pc' = "ended" /\ job'.result = "ok" /\ store[Index] = job.n
    BY <1>1, <2>1, <2>2, <2>3, <2>4 DEF SdoPlace, Finished
  <2>5. CASE /\ pc' = "send" /\ job'.part = "segment" /\ job'.toggle = NextToggle(job)
             /\ job'.written = job.written
             /\ ~disturbed => server = Transfer("write", job.written, NextToggle(job))
    <3>1. Linked' /\ HasRoom'
      BY <2>2 DEF Linked, HasRoom
    <3>2. InStep(Reached)'
      BY <1>1, <2>2, <2>5 DEF InStep, Reached, Transfer
    <3> QED BY <2>3, <2>5, <3>1, <3>2 DEF SdoPlace, Sending
  <2> QED BY <2>1, <2>4, <2>5
<1> QED BY <1>10, <1>11 DEF Sdo

\* What the slave makes of the request of a read: the next piece, if it is in this transfer.
LEMMA SdoReadTaken ==
    ASSUME MailboxInv, SdoForm, Op = "read", pc \notin {"idle", "ended"}, NEW r,
           r.kind = "read", r.part = job.part, r.index = Index, r.toggle = job.toggle,
           Linked, ~disturbed => Expects(r),
           NEW o \in ServeSdo(r), server' = o.server, UNCHANGED <<store, job, disturbed>>
    PROVE  \E a : /\ o.answers = <<a>>
                  /\ \/ IsAnswer(a)'
                     \/ Junk(a)' /\ disturbed' /\ server' = NoTransfer
<1>1. /\ SdoJob(job) /\ job.part \in {"first", "segment"} /\ (job.part = "first" <=> job.pieces = <<>>)
      /\ Size \in Nat /\ ObjectSize(Index) = Size /\ SdoMax \in Nat
      /\ Op' = Op /\ Index' = Index /\ Size' = Size /\ Have(job)' = Have(job)
      /\ NextToggle(job)' = NextToggle(job) /\ (Begun(job) => Begun(job)')
  BY SizesGood DEF MailboxInv, JobInv, ReadInv, ReadPart, SdoForm, Sdo, SdoJob, Op, Index, Size, Have,
                   NextToggle, Begun, AreBytes
<1>2. CASE r.part = "segment" /\ ~InTurn(r)
  <2>1. o = Served(<<Abort>>, NoTransfer, store)
    BY <1>2 DEF ServeSdo
  <2>2. o.answers = <<Abort>> /\ o.server = NoTransfer
    BY <2>1 DEF Served
  <2>3. disturbed
    <3>1. InStep(Have(job)) => InTurn(r) \/ disturbed
      BY <1>2 DEF InStep, InTurn, Transfer
    <3> QED BY <1>2, <3>1 DEF Expects
  <2>4. Junk(Abort)'
    BY <2>3 DEF Junk, Abort, Sdo
  <2> QED BY <2>2, <2>3, <2>4
<1>3. CASE ~(r.part = "segment" /\ ~InTurn(r))
  <2> DEFINE i == IF r.part = "first" THEN r.index ELSE server.index
             from == IF r.part = "first" THEN 1 ELSE server.pos + 1
             max == IF r.part = "first" THEN (IF ObjectSize(i) <= 4 THEN 4 ELSE SdoMax) ELSE SdoMax + 7
             to == Lesser(from + max - 1, ObjectSize(i))
  <2>1. o = ServeRead(r)
    BY <1>3 DEF ServeSdo
  <2>2. job.part = "segment" => /\ server.index = Index /\ server.pos = Have(job) /\ Begun(job)
                                /\ server.toggle = job.toggle
    BY <1>3 DEF InTurn, Linked
  <2>3. i = Index /\ from = Have(job) + 1 /\ Have(job) \in Nat
    BY <1>1, <2>2 DEF Have, Begun
  <2>4. max \in Nat
    BY <1>1
  <2>5. /\ o.answers = <<ReadAnswer(r.part, i, from, to)>>
        /\ o.server = IF to = ObjectSize(i) THEN NoTransfer
                      ELSE [op |-> "read", index |-> i, pos |-> to,
                            toggle |-> IF r.part = "first" THEN 0 ELSE 1 - server.toggle]
    BY <2>1 DEF ServeRead, Served
  <2> HIDE DEF i, from, max
  <2>6. to \in Nat /\ to <= Size
    BY <1>1, <2>3, <2>4 DEF Lesser
  <2> HIDE DEF to
  <2>7. PICK t \in Nat : t = to
    BY <2>6
  <2>8. PICK a : a = ReadAnswer(r.part, i, from, to)
    OBVIOUS
  <2>9. /\ a.kind = "read" /\ a.part = job.part /\ a.index = Index /\ a.size = Size
        /\ a.more = (t < Size) /\ a.piece.index = Index /\ a.piece.from = Have(job) + 1 /\ a.piece.to = t
    BY <1>1, <2>3, <2>7, <2>8 DEF ReadAnswer, Piece
  <2>10. t < Size => server' = Transfer("read", t, NextToggle(job))
    <3> SUFFICES ASSUME t < Size PROVE server' = Transfer("read", t, NextToggle(job))
      OBVIOUS
    <3>1. t # ObjectSize(i)
      BY <1>1, <2>3, <2>7
    <3>2. (IF r.part = "first" THEN 0 ELSE 1 - server.toggle) = NextToggle(job)
      BY <1>1, <2>2 DEF NextToggle
    <3> QED BY <2>3, <2>5, <2>7, <3>1, <3>2 DEF Transfer
  <2>11. ~(t < Size) => t = Size
    BY <1>1, <2>6, <2>7
  <2>12. job.part = "segment" => Begun(job)'
    BY <1>1, <2>2
  <2>13. IsAnswer(a)'
    <3>1. a.more => server' = Transfer("read", t, NextToggle(job))'
      BY <1>1, <2>9, <2>10 DEF Transfer
    <3> QED BY <1>1, <2>9, <2>11, <2>12, <3>1 DEF IsAnswer
  <2> QED BY <2>5, <2>8, <2>13
<1> QED BY <1>2, <1>3

\* And of that of a write: it confirms it, and stores the data when it has all.
LEMMA SdoWriteTaken ==
    ASSUME MailboxInv, SdoForm, Op = "write", pc \notin {"idle", "ended"}, NEW r,
           r.kind = "write", r.part = job.part, r.index = Index, r.toggle = job.toggle,
           r.n = job.n, r.size = Size, r.to = job.written, r.from \in Nat,
           job.part = "first" => r.from = 1, ~disturbed => Expects(r),
           NEW o \in ServeSdo(r), server' = o.server, store' = o.store, UNCHANGED <<job, disturbed>>
    PROVE  \E a : /\ o.answers = <<a>>
                  /\ \/ IsAnswer(a)'
                     \/ Junk(a)' /\ disturbed' /\ server' = NoTransfer
<1>1. /\ SdoJob(job) /\ job.part \in {"first", "segment"} /\ Size \in Nat /\ job.written \in 0 .. Size
      /\ Index \in Indexes
      /\ Op' = Op /\ Index' = Index /\ Size' = Size /\ NextToggle(job)' = NextToggle(job)
      /\ store \in [Indexes -> 0 .. job.n]
  BY SizesGood DEF MailboxInv, CountInv, SdoForm, Sdo, SdoJob, Op, Index, Size, NextToggle
<1>2. ASSUME o = Served(<<Abort>>, NoTransfer, store), disturbed
      PROVE  \E a : o.answers = <<a>> /\ Junk(a)' /\ disturbed' /\ server' = NoTransfer
  <2>1. o.answers = <<Abort>> /\ o.server = NoTransfer
    BY <1>2 DEF Served
  <2>2. Junk(Abort)'
    BY <1>2 DEF Junk, Abort, Sdo
  <2> QED BY <1>2, <2>1, <2>2
<1>3. ~disturbed /\ job.part = "segment" => server = Transfer("write", r.from - 1, job.toggle)
  BY DEF Expects, InStep
<1>4. CASE r.part = "segment" /\ ~InTurn(r)
  <2>1. o = Served(<<Abort>>, NoTransfer, store)
    BY <1>4 DEF ServeSdo
  <2>2. disturbed
    BY <1>3, <1>4 DEF InTurn, Transfer
  <2> QED BY <1>2, <2>1, <2>2
<1>5. CASE ~(r.part = "segment" /\ ~InTurn(r))
  <2> DEFINE pos == (IF r.part = "first" THEN 0 ELSE server.pos) + r.to - r.from + 1
  <2>1. o = ServeWrite(r)
    BY <1>5 DEF ServeSdo
  <2>2. ~disturbed => pos = job.written
    <3>1. CASE job.part = "first"
      BY <1>1, <3>1
    <3>2. CASE job.part = "segment"
      BY <1>1, <1>3, <3>2 DEF Transfer
    <3> QED BY <1>1, <3>1, <3>2
  <2>3. PICK a : a = WriteAnswer(r)
    OBVIOUS
  <2>4. a.kind = "write" /\ a.part = job.part /\ a.index = Index
    BY <2>3 DEF WriteAnswer
  <2> HIDE DEF pos
  <2>5. CASE job.written < Size
    <3>1. /\ o.answers = <<a>>
          /\ o.server = [op |-> "write", index |-> r.index, pos |-> pos,
                         toggle |-> IF r.part = "first" THEN 0 ELSE 1 - server.toggle]
      BY <2>1, <2>3, <2>5 DEF ServeWrite, Served, pos
    <3>2. ~disturbed => server' = Transfer("write", job.written, NextToggle(job))
      BY <1>1, <1>3, <2>2, <3>1 DEF Transfer, NextToggle
    <3>3. IsAnswer(a)'
      <4>1. ~disturbed => server' = Transfer("write", job.written, NextToggle(job))'
        BY <1>1, <3>2 DEF Transfer
      <4> QED BY <1>1, <2>4, <2>5, <4>1 DEF IsAnswer
    <3> QED BY <3>1, <3>3
  <2>6. CASE job.written = Size /\ pos = Size
    <3>1. o.answers = <<a>> /\ o.store = Stored(Index, job.n)
      BY <1>1, <2>1, <2>3, <2>6 DEF ServeWrite, Served, pos
    <3>2. store'[Index] = job.n
      BY <1>1, <3>1 DEF Stored
    <3>3. IsAnswer(a)'
      BY <1>1, <2>4, <2>6, <3>2 DEF IsAnswer
    <3> QED BY <3>1, <3>3
  <2>7. CASE job.written = Size /\ pos # Size
    <3>1. o = Served(<<Abort>>, NoTransfer, store)
      BY <1>1, <2>1, <2>7 DEF ServeWrite, pos
    <3> QED BY <1>2, <2>2, <2>7, <3>1
  <2> QED BY <1>1, <2>5, <2>6, <2>7
<1> QED BY <1>4, <1>5

\* What a slave makes of the request of an SDO is no refusal.
LEMMA SdoServes ==
    ASSUME NEW r, r.kind \in Sdo
    PROVE  /\ Serve(r) = ServeSdo(r)
           /\ \A o \in ServeSdo(r) : o.refused = FALSE /\ (r.kind = "read" => o.store = store)
<1>1. \A as, s, st : Served(as, s, st).refused = FALSE /\ Served(as, s, st).store = st
  BY DEF Served
<1>2. \E as, s, st : ServeWrite(r) = Served(as, s, st)
  BY DEF ServeWrite
<1>3. \E as, s : ServeRead(r) = Served(as, s, store)
  BY DEF ServeRead
<1>4. Serve(r) = ServeSdo(r)
  BY DEF Serve, Sdo, Info, Foe, Soe
<1>5. ASSUME NEW o \in ServeSdo(r) PROVE o.refused = FALSE /\ (r.kind = "read" => o.store = store)
  <2>1. \/ o = Served(<<Abort>>, NoTransfer, store)
        \/ r.kind = "read" /\ o = ServeRead(r)
        \/ r.kind # "read" /\ o = ServeWrite(r)
    BY DEF ServeSdo
  <2>2. CASE o = Served(<<Abort>>, NoTransfer, store)
    BY <1>1, <2>2
  <2>3. CASE r.kind = "read" /\ o = ServeRead(r)
    <3>1. PICK as, s : ServeRead(r) = Served(as, s, store)
      BY <1>3
    <3>2. o = Served(as, s, store)
      BY <2>3, <3>1
    <3> QED BY ONLY <1>1, <3>2
  <2>4. CASE r.kind # "read" /\ o = ServeWrite(r)
    <3>1. PICK as, s, st : ServeWrite(r) = Served(as, s, st)
      BY <1>2
    <3>2. o = Served(as, s, st)
      BY <2>4, <3>1
    <3>3. o.refused = FALSE
      BY ONLY <1>1, <3>2
    <3> QED BY ONLY <2>4, <3>3
  <2> QED BY <2>1, <2>2, <2>3, <2>4
<1> QED BY <1>4, <1>5

\* A request that the slave has taken before: it throws it away.
LEMMA SdoTakesAgain ==
    ASSUME MailboxInv, Op \in Sdo, SdoPlace, Take, mbx_in[1].cnt = lastcnt
    PROVE  SdoPlace'
<1>1. /\ mbx_in # <<>> /\ mbx_in' = <<>> /\ lastcnt' = lastcnt
      /\ UNCHANGED <<mbx_out, answers, server, store, disturbed, mbx_cnt, pc, last, job>>
  BY DEF Take
<1>2. IsSequence(answers) /\ QueueStep
  BY <1>1 DEF MailboxInv, MailInv, QueueStep
<1>3. (\A m : Junk(m) => Junk(m)') /\ (\A m : IsAnswer(m) => IsAnswer(m)')
  BY <1>1, JunkKept, AnswerKept
<1>4. (NoAnswer => NoAnswer') /\ (OneAnswerDue => OneAnswerDue')
  BY <1>2, <1>3, QueueKept
<1>5. Op' = Op /\ Index' = Index /\ Size' = Size /\ Room' = Room
  BY <1>1 DEF Op, Index, Size, Room
<1>6. (Linked => Linked') /\ Repeated' /\ (HasRoom => HasRoom')
  BY <1>1, <1>5 DEF Linked, Begun, Have, AreBytes, Repeated, HasRoom
<1>7. Finished => Finished'
  BY <1>1, <1>5, <1>6 DEF Finished, AreBytes
<1>8. InStep(Reached) => InStep(Reached)'
  BY <1>1, <1>5 DEF InStep, Transfer, Reached, Have
<1>9. (Sending => Sending') /\ (Waiting => Waiting')
  BY <1>1, <1>4, <1>6 DEF Sending, Waiting
<1> QED BY <1>1, <1>3, <1>6, <1>7, <1>8, <1>9 DEF SdoPlace

\* A new request of the call: it serves or refuses it.
LEMMA SdoTakesNew ==
    ASSUME MailboxInv, SdoForm, Op \in Sdo, pc # "idle", SdoPlace, Take, mbx_in[1].cnt # lastcnt
    PROVE  SdoPlace'
<1> DEFINE r == mbx_in[1].request
<1>1. /\ mbx_in # <<>> /\ mbx_in' = <<>> /\ lastcnt' = mbx_in[1].cnt
      /\ UNCHANGED <<mbx_out, mbx_cnt, pc, last, job>>
  BY DEF Take
<1>2. PICK o \in Serve(r) \cup {Refused(<<MailboxError>>)} :
         /\ answers' = answers \o o.answers /\ server' = o.server /\ store' = o.store
         /\ disturbed' = (disturbed \/ o.refused)
  BY DEF Take
<1>3. ~Repeated /\ disturbed \in BOOLEAN
  BY <1>1 DEF Repeated, MailboxInv, CountInv
<1>4. pc \notin {"send", "lost"} /\ (pc = "ended" => disturbed /\ job.result \notin {"ok", "small"})
  <2>1. pc \notin {"send", "lost"}
    BY <1>3 DEF SdoPlace, Sending
  <2>2. ASSUME pc = "ended" PROVE disturbed /\ job.result \notin {"ok", "small"}
    <3>1. Finished /\ job.result \notin {"ok", "small"}
      BY <1>3, <2>2 DEF SdoPlace, Finished
    <3> QED BY <1>3, <3>1 DEF Finished
  <2> QED BY <2>1, <2>2
<1>5. Op' = Op /\ Index' = Index /\ Size' = Size /\ Room' = Room
  BY <1>1 DEF Op, Index, Size, Room
<1>6. disturbed => disturbed'
  BY <1>2
<1>7. (\A m : Junk(m) => Junk(m)') /\ (HasRoom => HasRoom')
  BY <1>1, <1>5, <1>6, JunkKept DEF HasRoom
<1>8. CASE pc = "ended"
  BY <1>1, <1>4, <1>6, <1>8 DEF SdoPlace, Finished
<1>9. CASE pc # "ended"
  <2>1. pc \in {"sent", "receive", "again"}
    BY <1>4, <1>9 DEF MailboxInv, CountInv, JobInv, SdoForm
  <2>2. /\ IsCurrent(mbx_in[1]) /\ mbx_in[1].cnt = mbx_cnt
        /\ NoAnswer /\ Linked /\ (~disturbed => Expects(r))
    BY <1>1, <2>1 DEF SdoPlace, Waiting, IsCurrent
  <2>3. lastcnt' = mbx_cnt'
    BY <1>1, <2>2
  <2>4. IsSequence(answers)
    BY DEF MailboxInv, MailInv
  <2>5. SUFFICES (NoAnswer' /\ Linked' /\ disturbed') \/ OneAnswerDue'
    <3>1. ASSUME (NoAnswer' /\ Linked' /\ disturbed') \/ OneAnswerDue' PROVE Waiting'
      BY <1>1, <2>3, <3>1 DEF Waiting
    <3> QED BY <1>1, <1>7, <1>9, <2>1, <3>1 DEF SdoPlace
  <2>6. ASSUME NEW a, o.answers = <<a>>, Junk(a)', Linked', disturbed' PROVE NoAnswer'
    <3> DEFINE as == <<a>>
    <3>1. IsSequence(as) /\ DOMAIN as = {1} /\ as[1] = a /\ answers' = answers \o as
      BY <1>2, <2>6, ShortSequences
    <3> HIDE DEF as
    <3>2. \A k \in DOMAIN as : Junk(as[k])'
      BY <2>6, <3>1
    <3>3. QueueStep
      BY <1>1, <3>1, <3>2 DEF QueueStep
    <3> QED BY <1>7, <2>2, <2>4, <3>3, QueueKept
  <2>7. ASSUME NEW a, o.answers = <<a>>, IsAnswer(a)' PROVE OneAnswerDue'
    <3> DEFINE as == <<a>>
    <3>1. IsSequence(as) /\ DOMAIN as = {1} /\ as[1] = a /\ answers' = answers \o as
      BY <1>2, <2>7, ShortSequences
    <3>2. \A k \in Due' \ Due : \A i \in Due' \ {k} : i \in Due
      BY <1>1, <2>4, <3>1, MoreMoves
    <3> HIDE DEF as
    <3>3. /\ \A k \in Due : Message(k)' = Message(k)
          /\ \E k \in Due' \ Due : Message(k)' = a
      BY <1>1, <2>4, <3>1, MoreMoves
    <3>4. PICK k \in Due' \ Due : Message(k)' = a
      BY <3>3
    <3>5. IsAnswer(Message(k))'
      BY <2>7, <3>4
    <3>6. \A i \in Due' \ {k} : Junk(Message(i))'
      BY <1>7, <2>2, <3>2, <3>3, <3>4 DEF NoAnswer
    <3> QED BY <3>4, <3>5, <3>6 DEF OneAnswerDue
  <2>8. CASE o = Refused(<<MailboxError>>)
    <3>1. /\ o.answers = <<MailboxError>> /\ disturbed' /\ UNCHANGED <<server, store>>
      BY <1>2, <2>8 DEF Refused
    <3>2. Junk(MailboxError)'
      BY <3>1 DEF Junk, MailboxError, Sdo
    <3>3. Linked'
      BY <1>1, <1>5, <2>2, <3>1 DEF Linked, Begun, Have, AreBytes
    <3> QED BY <2>6, <3>1, <3>2, <3>3
  <2>9. CASE o \in Serve(r)
    <3>1. r.kind = Op /\ r.kind \in Sdo
      BY <2>2 DEF IsCurrent
    <3>2. o \in ServeSdo(r) /\ o.refused = FALSE /\ (Op = "read" => o.store = store)
      BY <2>9, <3>1, SdoServes
    <3>3. disturbed' = disturbed
      BY <1>2, <1>3, <3>2
    <3>4. PICK a : /\ o.answers = <<a>>
                   /\ \/ IsAnswer(a)'
                      \/ Junk(a)' /\ disturbed' /\ server' = NoTransfer
      <4>1. CASE Op = "read"
        BY <1>1, <1>2, <1>9, <2>2, <3>2, <3>3, <4>1, SdoReadTaken DEF IsCurrent
      <4>2. CASE Op = "write"
        BY <1>1, <1>2, <1>9, <2>2, <3>2, <3>3, <4>2, SdoWriteTaken DEF IsCurrent
      <4> QED BY <4>1, <4>2 DEF Sdo
    <3>5. server' = NoTransfer => Linked'
      BY DEF Linked, NoTransfer
    <3> QED BY <2>6, <2>7, <3>4, <3>5
  <2> QED BY <1>2, <2>8, <2>9
<1> QED BY <1>8, <1>9

\* Every step of a call leaves the next one in its place.
LEMMA NextSdo ==
    ASSUME MailboxInv, CounterInv, SdoForm, SdoInv, Next
    PROVE  SdoInv'
<1> SUFFICES ASSUME Op' \in Sdo, ~stale', pc' # "idle" PROVE SdoPlace'
  BY DEF SdoInv
<1>0. stale \in BOOLEAN /\ IsSequence(answers)
  BY DEF MailboxInv, CountInv, MailInv
<1>1. CASE Start
  <2>1. /\ pc' = "send"
        /\ job' = [call |-> job'.call, n |-> job.n + 1, result |-> "open",
                   part |-> "first", toggle |-> 0, pieces |-> <<>>, written |-> 0]
    BY <1>1, SdoStart
  <2>2. job'.part = "first"
    BY <2>1
  <2>3. mbx_in' = <<>> /\ mbx_out' = <<>> /\ answers' = <<>>
    BY <1>1 DEF Start, Emptied, Drain
  <2>4. Due' = {}
    BY <2>3, ShortSequences DEF Due
  <2>5. NoAnswer' /\ Repeated' /\ Linked' /\ HasRoom' /\ InStep(Reached)'
    BY <2>2, <2>3, <2>4 DEF NoAnswer, Repeated, Linked, HasRoom, InStep
  <2> QED BY <2>1, <2>5 DEF SdoPlace, Sending
<1>2. CASE ~Start
  <2>1. SdoStep /\ Op \in Sdo /\ pc # "idle"
    BY <1>2, SdoSteps
  <2>2. ASSUME ~stale PROVE SdoPlace
    BY <2>1, <2>2 DEF SdoInv
  <2>3. CASE Exchange /\ UNCHANGED job
    BY <2>1, <2>3, SdoExchanged
  <2>4. CASE TimeOut
    <3>1. ~stale
      BY <1>0, <2>4 DEF TimeOut, GiveUp
    <3> QED BY <2>1, <2>2, <2>4, <3>1, SdoTimedOut
  <2>5. CASE Unconfirmed
    BY <2>5 DEF Unconfirmed
  <2>6. ASSUME NEW taken \in BOOLEAN, Send(taken) PROVE SdoPlace'
    <3>1. ~stale
      BY <2>6 DEF Send, SendMessage
    <3> QED BY <2>1, <2>2, <2>6, <3>1, SdoSends
  <2>7. CASE Confirm
    <3>1. ~stale
      BY <2>7 DEF Confirm, ghostVars
    <3> QED BY <2>1, <2>2, <2>7, <3>1, SdoConfirmed
  <2>8. CASE Receive
    <3>1. ~stale
      BY <2>8 DEF Receive, ReadOut, ghostVars
    <3> QED BY <2>1, <2>2, <2>8, <3>1, SdoJunkRead, SdoAnswerRead
  <2>9. CASE Lost
    <3>1. ~stale
      BY <2>9 DEF Lost, ghostVars
    <3> QED BY <2>1, <2>2, <2>9, <3>1, SdoGivenUp
  <2>10. CASE SendAgain /\ UNCHANGED job
    <3>1. ~stale
      BY <2>10 DEF SendAgain
    <3> QED BY <2>1, <2>2, <2>10, <3>1, SdoSentAgain
  <2>11. CASE \/ (Put \/ Report \/ ReadAgain) /\ UNCHANGED job
              \/ SendFrame \/ ReadErrors
    <3>1. ~stale
      BY <2>11 DEF Put, Report, ReadAgain, SendFrame, SendEthernet, ReadErrors, mailboxVars, ghostVars
    <3> QED BY <2>1, <2>2, <2>11, <3>1, SdoOthers
  <2>12. CASE Take
    <3>1. ~stale
      BY <2>12 DEF Take
    <3> QED BY <2>1, <2>2, <2>12, <3>1, SdoTakesAgain, SdoTakesNew
  <2> QED BY <2>1, <2>3, <2>4, <2>5, <2>6, <2>7, <2>8, <2>9, <2>10, <2>11, <2>12 DEF SdoStep
<1> QED BY <1>1, <1>2

\* Master and slave in step, with what the other proof needs.
StepInv == MailboxInv /\ CounterInv /\ SdoForm /\ SdoInv

\* Before the first call nothing is under way.
LEMMA InitStep == Init => StepInv
<1> SUFFICES ASSUME Init PROVE StepInv
  OBVIOUS
<1>1. MailboxInv
  BY InitInv
<1>2. pc = "idle" /\ lastcnt = 0 /\ mbx_in = <<>>
  BY DEF Init, MailboxInit
<1>3. CounterInv /\ SdoForm /\ SdoInv
  BY <1>2 DEF CounterInv, Old, SdoForm, SdoInv
<1> QED BY <1>1, <1>3 DEF StepInv

\* Every step keeps it.
LEMMA NextStep == StepInv /\ [Next]_vars => StepInv'
<1> SUFFICES ASSUME StepInv, [Next]_vars PROVE StepInv'
  OBVIOUS
<1>1. MailboxInv /\ CounterInv /\ SdoForm /\ SdoInv /\ MailboxInv'
  BY NextInv DEF StepInv
<1>2. CASE Next
  BY <1>1, <1>2, NextCounter, NextForm, NextSdo DEF StepInv
<1>3. CASE UNCHANGED vars
  <2>1. UNCHANGED <<mbx_in, mbx_out, answers, lastcnt, server, store, mbx_cnt, pc, last,
                    disturbed, stale, unsent, job>>
    BY <1>3 DEF vars, mailboxVars, slaveVars, ghostVars
  <2>2. CounterInv'
    BY <1>1, <2>1 DEF CounterInv, Old, Ahead
  <2>3. Op' = Op /\ Index' = Index /\ Size' = Size
    BY <2>1 DEF Op, Index, Size
  <2>4. SdoForm'
    BY <1>1, <2>1, <2>3 DEF SdoForm, SdoJob, IsCurrent
  <2>5. SdoInv'
    BY <1>1, <2>1, <2>3, PlaceKept DEF SdoInv, QueueStep
  <2> QED BY <1>1, <2>2, <2>4, <2>5 DEF StepInv
<1> QED BY <1>2, <1>3

\* What is proved of them: FailsOnlyDisturbed, and TransfersWhole without the hook's frames.
SdoCallsWhole ==
    Op \in Sdo =>
        /\ FailsOnlyDisturbed
        /\ Ended("ok") /\ ~stale => IF Op = "read" THEN ReadWhole ELSE WrittenWhole

\* A call of ecx_SDOread or ecx_SDOwrite that nothing disturbed, after calls whose answers
\* were all waited for, does not fail, with however many segments, emergencies and repeated
\* requests; a read whose buffer is too small is told so.  One that succeeds, disturbed or not,
\* has read all of its object in order, or the slave has stored all that it has written.  For
\* any calls, sizes and mailbox length and any number of counters and of faults.
THEOREM SdoTransfers == Spec => []SdoCallsWhole
<1>1. Init => StepInv
  BY InitStep
<1>2. StepInv /\ [Next]_vars => StepInv'
  BY NextStep
<1>3. StepInv => SdoCallsWhole
  <2> SUFFICES ASSUME StepInv, Op \in Sdo, pc = "ended", ~stale
               PROVE  /\ FailsOnlyDisturbed
                      /\ job.result = "ok" => IF Op = "read" THEN ReadWhole ELSE WrittenWhole
    BY DEF SdoCallsWhole, Ended, FailsOnlyDisturbed
  <2>1. Finished
    BY DEF StepInv, SdoInv, SdoPlace
  <2>2. Op = "read" \/ Op = "write"
    BY DEF Sdo
  <2>3. FailsOnlyDisturbed
    BY <2>1, <2>2 DEF Finished, FailsOnlyDisturbed
  <2>4. CASE Op = "read"
    <3>1. job.result = "ok" => AreBytes(job.pieces, Index, Size)
      BY <2>1, <2>4 DEF Finished
    <3>2. AreBytes(job.pieces, Index, Size) => ReadWhole
      BY ONLY <2>4 DEF ReadWhole
    <3> QED BY <2>3, <2>4, <3>1, <3>2
  <2>5. CASE Op = "write"
    <3>1. job.result = "ok" => store[Index] = job.n
      BY <2>1, <2>5 DEF Finished
    <3>2. store[Index] = job.n => WrittenWhole
      BY ONLY <2>5 DEF WrittenWhole
    <3> QED BY <2>3, <2>5, <3>1, <3>2
  <2> QED BY <2>2, <2>3, <2>4, <2>5
<1> QED BY <1>1, <1>2, <1>3, PTL DEF Spec
=============================================================================
