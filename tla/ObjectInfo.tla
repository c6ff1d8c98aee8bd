------------------------------ MODULE ObjectInfo ------------------------------
(***************************************************************************)
(* The other services of CANopen over EtherCAT: the list of the objects    *)
(* of a slave, the description of an object and of its entries, and PDOs   *)
(* that go through the mailbox (ecx_readODlist, ecx_readODdescription,     *)
(* ecx_readOE, ecx_RxPDO, ecx_TxPDO).                                      *)
(*                                                                         *)
(* The size of a list is the number of its objects, that of an object with *)
(* entries its last subindex, and that of a PDO its bytes.                 *)
(***************************************************************************)
EXTENDS Mailbox

\* list is what was read, sub the subindex asked for, x counts the answers.
InfoBegin(c, n) ==
    [call |-> c, n |-> n, result |-> "open", list |-> <<>>, first |-> TRUE, x |-> 0, sub |-> 0]

RxMax == mbx_l - 8
InfoRequest(j) ==
    [kind |-> j.call.op, index |-> j.call.index, sub |-> j.sub, n |-> j.n,
     len |-> Lesser(j.call.size, RxMax)]

\* What a slave sends in an RxPDO is not confirmed.
InfoSent(j) == IF j.call.op = "rxpdo" THEN ToEnd(j, "ok") ELSE ToReceive(j)

\* An abort is one of this service, the other services' is unexpected.
Failure(j, m) ==
    IF m.kind = (IF j.call.op = "txpdo" THEN "abort" ELSE "info_error") THEN "abort" ELSE "unexpected"

\* Mutant: the word before the list is taken for an object.
WordsAll(j, m) == m.words
\* The first answer begins with a word that says what the list is of.
Words(j, m) == IF j.first THEN Tail(m.words) ELSE m.words

IsCut(j, m) == m.kind = "odlist" /\ Len(j.list) + Len(Words(j, m)) > j.call.room
\* A list that does not fit is cut off, and read to its end all the same.
MaxListAnswers == 129
ListAnswered(j, m) ==
    IF m.kind = "odlist"
      THEN LET words == Words(j, m)
               n == Lesser(Len(words), j.call.room - Len(j.list))
               read == [j EXCEPT !.list = @ \o SubSeq(words, 1, n), !.first = FALSE, !.x = @ + 1]
           IN  IF m.left > 0 /\ read.x < MaxListAnswers THEN ToReceive(read) ELSE ToEnd(read, "ok")
      ELSE ToEnd(j, Failure(j, m))

\* The description is of the object that was asked for, whatever the answer says.
DescriptionAnswered(j, m) ==
    IF m.kind = "odesc" THEN ToEnd([j EXCEPT !.list = <<m.word>>], "ok") ELSE ToEnd(j, Failure(j, m))

\* Mutant: the last subindex is not read.
LastEntryShort(j) == j.sub + 1 >= j.call.size
LastEntry(j) == j.sub >= j.call.size
\* Every subindex is asked for; only how it went with the last one is told.
NextEntry(j, r) == IF LastEntry(j) THEN ToEnd(j, r) ELSE ToDrain([j EXCEPT !.sub = @ + 1])
EntryAnswered(j, m) ==
    IF m.kind = "oe" THEN NextEntry([j EXCEPT !.list = Append(@, m.word)], "ok")
                     ELSE NextEntry(j, Failure(j, m))

PdoAnswered(j, m) ==
    IF m.kind = "txpdo"
      THEN IF m.len <= j.call.room THEN ToEnd([j EXCEPT !.list = <<m.word>>], "ok") ELSE ToEnd(j, "small")
      ELSE ToEnd(j, Failure(j, m))

InfoAnswered(j, m) ==
    CASE j.call.op = "odlist" -> ListAnswered(j, m)
      [] j.call.op = "odesc" -> DescriptionAnswered(j, m)
      [] j.call.op = "oe" -> EntryAnswered(j, m)
      [] j.call.op = "txpdo" -> PdoAnswered(j, m)

InfoLost(j) == IF j.call.op = "oe" THEN NextEntry(j, "lost") ELSE ToEnd(j, "lost")

-----------------------------------------------------------------------------
(* External: the slave's dictionary.  A word is [board, index, sub].        *)

Word(i, k) == [board |-> board, index |-> i, sub |-> k]
ListMax == (mbx_l - 12) \div 2
\* The word before the list, and the list, in messages of ListMax words.
ListAnswers(i) ==
    LET messages == ObjectSize(i) \div ListMax + 1
    IN  [k \in 1 .. messages |->
            [kind |-> "odlist", left |-> messages - k,
             words |-> [w \in 1 .. Lesser(ListMax, ObjectSize(i) + 1 - (k - 1) * ListMax) |->
                           Word(i, (k - 1) * ListMax + w - 1)]]]

ServeInfo(r) ==
    {CASE r.kind = "odlist" -> Served(ListAnswers(r.index), server, store)
       [] r.kind \in {"odesc", "oe"} ->
             Served(<<[kind |-> r.kind, word |-> Word(r.index, r.sub)]>>, server, store)
       [] r.kind = "txpdo" ->
             Served(<<[kind |-> "txpdo", len |-> ObjectSize(r.index), word |-> Word(r.index, 0)]>>,
                    server, store)
       [] r.kind = "rxpdo" ->
             Served(<<>>, server, IF r.len = ObjectSize(r.index) THEN Stored(r.index, r.n) ELSE store)}
    \cup IF r.kind \in {"odlist", "odesc", "oe"} THEN {Refused(<<[kind |-> "info_error"]>>)} ELSE {}

-----------------------------------------------------------------------------
\* The words of an answer to this call, from subindex or place k on.
AreWords(list, i, from) ==
    \A k \in DOMAIN list : list[k].index = i /\ list[k].sub = from + k - 1
=============================================================================
