----------------------------- MODULE EepromProofs -----------------------------
(***************************************************************************)
(* What the master learns from the EEPROMs, for any number of slaves, any  *)
(* contents, any number of faults.                                         *)
(***************************************************************************)
EXTENDS SlaveInfo, TLAPS

-----------------------------------------------------------------------------
(* The invariant.                                                           *)

\* Where the words of the header and those of the identity are.
HeaderAt == {ECT_SII[f] : f \in Known}
IdentityAt == {ECT_SII[f] : f \in Identity}

\* The stages of the program in which EEPROMs are written.
Writing == prog.stage \in {FLASHING, FLASHED, ALIASING, ALIASED}
SetUp == prog.stage \in 1 .. RUNNING

\* The steps of a stage, and the calls that are under way in a step.
StepsOf(stage) ==
    CASE stage = 1 -> {"defaults", "width", "issue", "issuing"}
      [] stage \in 2 .. 7 -> {"collect", "collecting", "issue", "issuing"}
      [] stage = 8 -> {"collect", "collecting", "sii", "bytes", "pdi", "preop"}
      [] stage = MAPPING -> {"map", "bytes", "pdi"}
      [] stage = RUNNING ->
            {"idle", "control", "id", "man", "rev", "address", "refuse", "pdi", "preop"}
      [] stage = FLASHING -> {"force", "write"}
      [] stage = READING -> {"force", "ainc", "by2", "by4"}
      [] stage = ALIASING -> {"force", "alias"}
      [] OTHER -> {"idle"}
CallsAt(step) ==
    CASE step = "collecting" -> {"collect"}
      [] step = "issuing" -> {"issue"}
      [] step \in Identity -> {"word"}
      [] step = "bytes" -> {"none", "byte"}
      [] step \in {"write", "alias"} -> {"none", "write"}
      [] step \in {"by2", "by4"} -> {"none", "dump"}
      [] OTHER -> {"none"}
\* The points a call passes.
PointsOf(op) ==
    CASE op = "collect" -> {"wait", "data", "done"}
      [] op = "issue" -> {"control", "wait", "command", "done"}
      [] op \in {"word", "byte"} -> {"control", "wait", "command", "await", "data", "done"}
      [] op = "dump" -> {"wait", "command", "await", "data", "done"}
      [] op = "write" -> {"wait", "value", "command", "await", "done"}
      [] OTHER -> {"done"}

\* The records have their fields; nothing is said of the words in them.
NodeShape ==
    /\ DOMAIN node = Slaves
    /\ \A s \in Slaves :
          /\ DOMAIN node[s] = DOMAIN PoweredUp
          /\ node[s].present \in BOOLEAN /\ node[s].busy \in BOOLEAN
          /\ node[s].nack \in BOOLEAN /\ node[s].refuses \in BOOLEAN
          /\ DOMAIN node[s].reg = 0 .. 3
ListShape ==
    /\ DOMAIN slavelist = Slaves
    /\ \A s \in Slaves :
          /\ DOMAIN slavelist[s] = {"eep_pdi", "eep_8byte", "word"}
          /\ slavelist[s].eep_pdi \in BOOLEAN /\ slavelist[s].eep_8byte \in BOOLEAN
          /\ DOMAIN slavelist[s].word = Known
StoreShape ==
    /\ DOMAIN store = Slaves /\ DOMAIN first = Slaves
    /\ \A s \in Slaves :
          /\ \E k \in Kinds : first[s] = Contents[k]
          /\ \E k \in Kinds : DOMAIN store[s] = DOMAIN Contents[k]
          /\ SetUp => \E k \in Kinds : store[s] = Contents[k]
Position ==
    /\ DOMAIN prog = {"stage", "s", "step"}
    /\ prog.stage \in 1 .. ALIASED /\ prog.s \in Slaves
    /\ prog.step \in StepsOf(prog.stage)
ProgShape ==
    /\ Position
    /\ prog.step = "defaults" => prog.s = 1
    /\ address \in [Slaves -> {"own", "temp", "none"}]
    /\ asked \subseteq Slaves /\ disturbed \subseteq Slaves
    /\ esislave \in 0 .. SlaveCount /\ faults \in 0 .. MaxFaults
CallShape ==
    /\ DOMAIN call = DOMAIN NoCall
    /\ call.op \in CallsAt(prog.step) /\ call.pc \in PointsOf(call.op)
    /\ call.s \in Slaves
    /\ call.op # "none" => call.s = prog.s
    /\ call.op = "none" => call = NoCall
    /\ call.nacks \in 0 .. MaxNacks
    /\ call.pc \in {"control", "wait", "value", "command", "await"} => call.nacks < MaxNacks
    /\ call.r64 \in BOOLEAN /\ call.ok \in BOOLEAN
    /\ call.a \in Nat
    /\ DOMAIN call.res = 0 .. 3
    /\ call.op = "issue" => call.a = ECT_SII[Fields[prog.stage]]
    /\ call.op = "word" => call.a = ECT_SII[prog.step]
    /\ call.op = "byte" => esislave = call.s
    /\ call.op = "write" =>
          IF prog.stage = FLASHING THEN call.a \in DOMAIN Image /\ call.value = Image[call.a]
          ELSE \/ call.a = 4 /\ call.value = Alias
               \/ call.a = 7 /\ call.value = Checksum([ebuf EXCEPT ![4] = Alias])
Shape == NodeShape /\ ListShape /\ StoreShape /\ ProgShape /\ CallShape

\* Who has left is disturbed.  Outside of the recovery everybody has his address and the
\* contents of the beginning; only a board with an address is asked for PRE_OP.
PlaceInv ==
    /\ \A s \in Slaves : node[s].present \/ s \in disturbed
    /\ prog.stage # RUNNING => address = [s \in Slaves |-> "own"]
    /\ prog.stage # RUNNING /\ ~Writing => store = first
    /\ prog.step \in {"control", "id", "man", "rev", "address", "refuse"} => address[prog.s] = "temp"
    /\ prog.step \in {"pdi", "preop"} => address[prog.s] = "own"

\* What a controller may be told to read, and may have read: words of the header, before the
\* sections are read; of an exchanged board those of its identity.
HeaderOnly(s) ==
    \/ prog.stage < 8
    \/ prog.stage = 8 /\ (s > prog.s \/ (s = prog.s /\ prog.step \in {"collect", "collecting"}))
ReadAt(s) ==
    IF HeaderOnly(s) THEN HeaderAt ELSE IF address[s] # "own" THEN IdentityAt ELSE Nat
Readable(s) == {NoData} \cup {Window(store[s], a) : a \in ReadAt(s)}
Partly(w, wide) == [k \in 0 .. 3 |-> IF k < 2 \/ wide THEN w[k] ELSE Zero]
ReadInv ==
    ~Writing =>
        /\ \A s \in Slaves :
              /\ node[s].busy => node[s].comm = "read" /\ node[s].at \in ReadAt(s)
              /\ node[s].reg \in Readable(s)
        /\ \E w \in Readable(call.s) : call.res = Partly(w, call.r64)
        /\ call.pc # "done" => call.res = NoData
        /\ call.op \in {"issue", "word", "byte", "dump"} => call.a \in ReadAt(call.s)

\* A controller obeys a command: if it is done and was not refused, the word is there.
HasRead(s, a) ==
    /\ node[s].busy => node[s].comm = "read" /\ node[s].at = a
    /\ ~node[s].busy /\ ~node[s].nack => node[s].reg = Window(store[s], a)
HasWritten(s, a, value) ==
    /\ node[s].busy => node[s].comm = "write" /\ node[s].at = a /\ node[s].reg[0] = value
    /\ ~node[s].busy /\ ~node[s].nack => store[s][a] = value

\* The flag says who has the EEPROM, except of an exchanged board; a tool has it.
FlagTells(s) ==
    /\ slavelist[s].eep_pdi /\ address[s] # "none" /\ ~(prog.step = "control" /\ prog.s = s)
          => node[s].owner = "pdi"
    /\ ~slavelist[s].eep_pdi /\ SetUp /\ prog.step # "defaults" => node[s].owner = "master"
ToolOwns ==
    prog.stage \in {FLASHING, READING, ALIASING} /\ prog.step # "force" /\ prog.s \notin disturbed
        => node[prog.s].owner = "master"
AskedFits(s) ==
    /\ address[s] = "own"
    /\ (prog.stage = 8 /\ s < prog.s) \/ prog.stage \in {MAPPING, RUNNING}
    /\ slavelist[s].eep_pdi \/ (prog.stage = MAPPING /\ prog.s = s /\ prog.step # "map")
OwnerInv ==
    /\ \A s \in Slaves \ disturbed : FlagTells(s)
    /\ ToolOwns
    /\ \A s \in asked : AskedFits(s)
    /\ prog.step = "preop" => slavelist[prog.s].eep_pdi
    /\ ~SetUp \/ prog.step = "defaults" => \A s \in Slaves : ~slavelist[s].eep_pdi

\* A call of a slave that is not disturbed gets its word.
ReadFrom == IF call.op = "collect" THEN ECT_SII[FieldNow] ELSE call.a
CallGoes(s) ==
    /\ call.op # "collect" /\ call.pc \in {"wait", "value", "command", "await"}
          => node[s].owner = "master"
    /\ call.op = "collect" => ~call.r64
    /\ call.pc \in {"value", "command", "data"} => ~node[s].busy
    /\ call.op = "write" =>
          /\ call.pc = "command" => node[s].reg[0] = call.value
          /\ call.pc = "await" => HasWritten(s, call.a, call.value)
          /\ call.pc = "done" => store[s][call.a] = call.value /\ call.ok
    /\ call.op # "write" =>
          /\ call.op = "collect" /\ call.pc = "wait" => HasRead(s, ReadFrom)
          /\ call.op = "issue" /\ call.pc = "done" => HasRead(s, ReadFrom)
          /\ call.pc = "await" => HasRead(s, ReadFrom)
          /\ call.pc = "data" => node[s].reg = Window(store[s], ReadFrom)
          /\ call.pc = "data" /\ call.op # "collect" => call.r64 = (s \in EightByte)
          /\ call.pc = "done" /\ call.op = "collect" =>
                call.res = Partly(Window(store[s], ReadFrom), FALSE)
          /\ call.pc = "done" /\ call.op \in {"word", "byte", "dump"} =>
                call.res = Partly(Window(store[s], ReadFrom), s \in EightByte)
CallInv == \A s \in Slaves \ disturbed : call.op # "none" /\ call.s = s => CallGoes(s)

\* The fields that were issued and not collected, and those that were collected.
Outstanding(s, n) ==
    \/ n = prog.stage /\ s < prog.s
    \/ n = prog.stage - 1 /\ (s > prog.s \/ (s = prog.s /\ prog.step = "collect"))
Filed(s, n) ==
    \/ n <= prog.stage - 2
    \/ n = prog.stage - 1 /\ (s < prog.s \/ (s = prog.s /\ prog.step \notin {"collect", "collecting"}))
WidthKnown(s) ==
    prog.stage > 1 \/ s < prog.s \/ (s = prog.s /\ prog.step \in {"issue", "issuing"})
NoWord == <<Zero, Zero>>
WordState(s, n) ==
    /\ ~Filed(s, n) => Read(s, Fields[n]) = NoWord
    /\ s \notin disturbed /\ Wanted(s, Fields[n]) =>
          /\ Outstanding(s, n) => HasRead(s, ECT_SII[Fields[n]])
          /\ Filed(s, n) => Read(s, Fields[n]) = Words(first[s], ECT_SII[Fields[n]])
    /\ s \notin disturbed /\ ~Wanted(s, Fields[n]) => Read(s, Fields[n]) = NoWord
HeaderWords(s) == {Words(first[s], a) : a \in HeaderAt} \cup {NoWord}
WordInv ==
    /\ \A s \in Slaves, f \in Known : Read(s, f) \in HeaderWords(s)
    /\ SetUp => \A s \in Slaves, n \in 1 .. 7 : WordState(s, n)
    /\ SetUp => \A s \in Slaves \ disturbed :
          WidthKnown(s) => slavelist[s].eep_8byte = (s \in EightByte)
    /\ prog.step = "collecting" => Wanted(prog.s, FieldNow)

ByteInv ==
    /\ BytesTrue
    /\ esislave = 0 => DOMAIN esibuf = {}
    /\ DOMAIN esibuf \subseteq Nat

\* What has been compared is the same, if the words that it is compared with are right and
\* tell the boards.
ReadsRight(s) == IdentityRead(s) /\ ToldApart(s)
SameField(s, f) == Read(s, f) = Words(store[s], ECT_SII[f])
SameInv ==
    SetUp =>
        /\ \A s \in Slaves :
              address[s] = "own" /\ ReadsRight(s) => \A f \in Identity : SameField(s, f)
        /\ ReadsRight(prog.s) =>
              /\ prog.step \in {"man", "rev", "address"} => SameField(prog.s, "id")
              /\ prog.step \in {"rev", "address"} => SameField(prog.s, "man")
              /\ prog.step = "address" => SameField(prog.s, "rev")

\* Outside of the set-up a controller is busy only while the tool waits for it.
BusyAwaited ==
    ~SetUp => \A t \in Slaves \ disturbed :
        node[t].busy => t = prog.s /\ call.op # "none" /\ call.pc = "await"

\* How far the tools are.
Flashes(s) ==
    /\ prog.stage = FLASHING /\ call.op = "write" =>
          \A a \in DOMAIN Image : a < call.a => store[s][a] = Image[a]
    /\ prog.stage = FLASHED => \A a \in DOMAIN Image : store[s][a] = Image[a]
BeforeCall == IF call.op = "none" THEN {} ELSE 0 .. call.a - 1
HasDumped(s, a) == a \in DOMAIN ebuf /\ ebuf[a] = first[s][a]
Dumps(s) ==
    /\ prog.step = "by4" => s \in EightByte
    /\ prog.step = "by2" => s \notin EightByte
    /\ prog.step \in {"by2", "by4"} => \A a \in BeforeCall : HasDumped(s, a)
    /\ prog.stage \in {DUMPED, ALIASING, ALIASED} => \A a \in 0 .. CRCBUF - 1 : HasDumped(s, a)
Aliases(s) ==
    /\ prog.stage = ALIASING => \A a \in 0 .. CRCBUF - 1 :
          (a = 4 /\ call.op = "write") \/ store[s][a] = first[s][a]
    /\ prog.stage = ALIASING /\ call.op = "write" /\ call.a = 7 => store[s][4] = Alias
    /\ prog.stage = ALIASED => store[s][4] = Alias /\ store[s][7] = Checksum(store[s])
ToolInv ==
    /\ BusyAwaited
    /\ \A s \in Slaves \ disturbed : s = prog.s => Flashes(s) /\ Dumps(s) /\ Aliases(s)

InfoInv ==
    /\ Shape /\ PlaceInv /\ ReadInv /\ OwnerInv /\ CallInv /\ WordInv /\ ByteInv /\ ToolInv

-----------------------------------------------------------------------------
(* The constants.                                                           *)

\* What is assumed of them.
LEMMA Constants ==
    /\ SlaveCount \in Nat /\ 1 \in Slaves /\ SlaveCount \in Slaves /\ Slaves \subseteq Nat
    /\ MaxNacks \in Nat /\ MaxNacks > 0 /\ MaxFaults \in Nat
    /\ 1 \in Kinds
    /\ DOMAIN Image \subseteq Nat /\ SiiBytes \subseteq Nat
BY EepromAssumption, InfoAssumption DEF Slaves

\* The fields, in the order in which they are read, and their places.
LEMMA FieldNames ==
    /\ Fields[1] = "man" /\ Fields[2] = "sn" /\ Fields[3] = "id" /\ Fields[4] = "rev"
    /\ Fields[5] = "mbx" /\ Fields[6] = "ro" /\ Fields[7] = "proto"
    /\ DOMAIN Fields = 1 .. 7
    /\ Known = {"man", "sn", "id", "rev", "mbx", "ro", "proto"}
BY DEF Fields, Known

-----------------------------------------------------------------------------
(* What the steps do, field by field.                                       *)

\* The fields of the records.
LEMMA RecordFields ==
    /\ DOMAIN PoweredUp = {"present", "owner", "busy", "comm", "at", "nack", "refuses", "reg"}
    /\ DOMAIN NoCall = {"op", "s", "a", "value", "pc", "nacks", "r64", "res", "ok"}
    /\ DOMAIN NoData = 0 .. 3 /\ \A k \in 0 .. 3 : NoData[k] = Zero
BY DEF PoweredUp, NoCall, NoData

\* A controller, apart from what is not used when it is not busy.
IsNode(n) ==
    /\ DOMAIN n = DOMAIN PoweredUp
    /\ n.present \in BOOLEAN /\ n.busy \in BOOLEAN /\ n.nack \in BOOLEAN /\ n.refuses \in BOOLEAN
    /\ DOMAIN n.reg = 0 .. 3

\* One controller changes.
LEMMA NodeReplaced ==
    ASSUME NodeShape, NEW s \in Slaves, NEW n, IsNode(n), node' = [node EXCEPT ![s] = n]
    PROVE  NodeShape' /\ node'[s] = n /\ \A t \in Slaves \ {s} : node'[t] = node[t]
BY DEF NodeShape, IsNode

\* No controller changes.
LEMMA NodesLeft == NodeShape /\ node' = node => NodeShape'
BY DEF NodeShape

\* The EEPROM is given to somebody, or the exchange fails.
LEMMA GiveDoes ==
    ASSUME NodeShape, NEW s \in Slaves, NEW owner, Give(s, owner)
    PROVE  /\ NodeShape'
           /\ \A t \in Slaves \ {s} : node'[t] = node[t]
           /\ node'[s].present = node[s].present /\ node'[s].busy = node[s].busy
           /\ node'[s].comm = node[s].comm /\ node'[s].at = node[s].at
           /\ node'[s].nack = node[s].nack /\ node'[s].reg = node[s].reg
           /\ \/ Done(s) /\ node'[s].owner = owner
              \/ (Lost(s) \/ Gone(s)) /\ node' = node
<1>. DEFINE n == [node[s] EXCEPT !.owner = owner]
<1>1. DOMAIN node[s] = {"present", "owner", "busy", "comm", "at", "nack", "refuses", "reg"}
  BY RecordFields DEF NodeShape
<1>2. CASE (Lost(s) \/ Gone(s)) /\ node' = node
  BY <1>2, NodesLeft
<1>3. CASE Done(s) /\ node' = [node EXCEPT ![s].owner = owner]
  <2>1. node' = [node EXCEPT ![s] = n]
    BY <1>3
  <2>2. /\ n.owner = owner /\ n.present = node[s].present /\ n.busy = node[s].busy
        /\ n.comm = node[s].comm /\ n.at = node[s].at /\ n.nack = node[s].nack
        /\ n.refuses = node[s].refuses /\ n.reg = node[s].reg
    BY <1>1
  <2>3. DOMAIN n = DOMAIN node[s]
    OBVIOUS
  <2>. HIDE DEF n
  <2>4. IsNode(n)
    BY <2>2, <2>3 DEF IsNode, NodeShape
  <2>5. NodeShape' /\ node'[s] = n /\ \A t \in Slaves \ {s} : node'[t] = node[t]
    BY <2>1, <2>4, NodeReplaced
  <2>. QED
    BY <1>3, <2>2, <2>5
<1>. QED
  BY <1>2, <1>3 DEF Give, Lost, Gone

\* The controller has read, or written, the word it was told to.
LEMMA ExecuteDoes ==
    ASSUME Shape, NEW s \in Slaves, Execute(s)
    PROVE  /\ NodeShape' /\ node[s].busy /\ ~node'[s].busy
           /\ \A t \in Slaves \ {s} : node'[t] = node[t] /\ store'[t] = store[t]
           /\ node'[s].present = node[s].present /\ node'[s].owner = node[s].owner
           /\ node'[s].nack = node[s].nack
           /\ DOMAIN store' = Slaves /\ DOMAIN store'[s] = DOMAIN store[s]
           /\ \A a \in DOMAIN store[s] : a # node[s].at => store'[s][a] = store[s][a]
           /\ IF node[s].comm = "read"
              THEN store' = store /\ node'[s].reg = Window(store[s], node[s].at)
              ELSE /\ node'[s].reg = node[s].reg
                   /\ node[s].at \in DOMAIN store[s] => store'[s][node[s].at] = node[s].reg[0]
           /\ UNCHANGED <<slavelist, esislave, esibuf, call, faults, disturbed>>
<1>1. DOMAIN node[s] = {"present", "owner", "busy", "comm", "at", "nack", "refuses", "reg"}
  BY RecordFields DEF Shape, NodeShape
<1>2. CASE node[s].comm = "read"
  <2>. DEFINE n == [node[s] EXCEPT !.busy = FALSE, !.reg = Window(store[s], node[s].at)]
  <2>1. node' = [node EXCEPT ![s] = n]
    BY <1>2 DEF Execute
  <2>2. /\ n.owner = node[s].owner /\ n.present = node[s].present /\ n.busy = FALSE
        /\ n.nack = node[s].nack
        /\ n.refuses = node[s].refuses /\ n.reg = Window(store[s], node[s].at)
    BY <1>1
  <2>3. DOMAIN n = DOMAIN node[s]
    OBVIOUS
  <2>. HIDE DEF n
  <2>4. IsNode(n)
    BY <2>2, <2>3 DEF IsNode, Shape, NodeShape, Window
  <2>5. NodeShape' /\ node'[s] = n /\ \A t \in Slaves \ {s} : node'[t] = node[t]
    BY <2>1, <2>4, NodeReplaced DEF Shape
  <2>. QED
    BY <1>2, <2>2, <2>5 DEF Execute, Shape, StoreShape
<1>3. CASE node[s].comm # "read"
  <2>. DEFINE n == [node[s] EXCEPT !.busy = FALSE]
              m == [store[s] EXCEPT ![node[s].at] = node[s].reg[0]]
  <2>1. node' = [node EXCEPT ![s] = n] /\ store' = [store EXCEPT ![s] = m]
    BY <1>3 DEF Execute
  <2>2. /\ n.owner = node[s].owner /\ n.present = node[s].present /\ n.busy = FALSE
        /\ n.nack = node[s].nack
        /\ n.refuses = node[s].refuses /\ n.reg = node[s].reg
    BY <1>1
  <2>3. DOMAIN n = DOMAIN node[s]
    OBVIOUS
  <2>6. /\ DOMAIN m = DOMAIN store[s] /\ \A a \in DOMAIN store[s] : a # node[s].at => m[a] = store[s][a]
        /\ node[s].at \in DOMAIN store[s] => m[node[s].at] = node[s].reg[0]
    OBVIOUS
  <2>. HIDE DEF n, m
  <2>4. IsNode(n)
    BY <2>2, <2>3 DEF IsNode, Shape, NodeShape
  <2>5. NodeShape' /\ node'[s] = n /\ \A t \in Slaves \ {s} : node'[t] = node[t]
    BY <2>1, <2>4, NodeReplaced DEF Shape
  <2>7. DOMAIN store' = Slaves /\ store'[s] = m /\ \A t \in Slaves \ {s} : store'[t] = store[t]
    BY <2>1 DEF Shape, StoreShape
  <2>. QED
    BY <1>3, <2>2, <2>5, <2>6, <2>7 DEF Execute
<1>. QED
  BY <1>2, <1>3

\* The controller refuses, or the slave leaves: nothing that was read or written changes.
LEMMA RefuseDoes ==
    ASSUME Shape, NEW s \in Slaves, Refuse(s) \/ Leave(s)
    PROVE  /\ NodeShape' /\ \A t \in Slaves \ {s} : node'[t] = node[t]
           /\ node'[s].owner = node[s].owner /\ node'[s].reg = node[s].reg
           /\ node'[s].comm = node[s].comm /\ node'[s].at = node[s].at
           /\ \/ /\ node'[s].present = node[s].present /\ ~node'[s].busy /\ node'[s].nack
                 /\ UNCHANGED disturbed
              \/ /\ node'[s].busy = node[s].busy /\ node'[s].nack = node[s].nack
                 /\ ~node'[s].present /\ disturbed' = disturbed \cup {s}
           /\ faults' \in 0 .. MaxFaults
           /\ UNCHANGED <<store, slavelist, esislave, esibuf, call>>
<1>1. DOMAIN node[s] = {"present", "owner", "busy", "comm", "at", "nack", "refuses", "reg"}
  BY RecordFields DEF Shape, NodeShape
<1>2. ASSUME Refuse(s)
      PROVE  \E again \in BOOLEAN :
                node' = [node EXCEPT ![s] = [node[s] EXCEPT !.busy = FALSE, !.nack = TRUE, !.refuses = again]]
  BY <1>2 DEF Refuse
<1>3. faults' \in 0 .. MaxFaults
  BY Constants DEF Refuse, Leave, Shape, ProgShape, Position
<1>4. CASE Refuse(s)
  <2>1. PICK again \in BOOLEAN :
           node' = [node EXCEPT ![s] = [node[s] EXCEPT !.busy = FALSE, !.nack = TRUE, !.refuses = again]]
    BY <1>2, <1>4
  <2>. DEFINE n == [node[s] EXCEPT !.busy = FALSE, !.nack = TRUE, !.refuses = again]
  <2>2. /\ n.owner = node[s].owner /\ n.present = node[s].present /\ n.busy = FALSE
        /\ n.nack = TRUE /\ n.comm = node[s].comm /\ n.at = node[s].at
        /\ n.refuses = again /\ n.reg = node[s].reg
    BY <1>1
  <2>3. DOMAIN n = DOMAIN node[s]
    OBVIOUS
  <2>. HIDE DEF n
  <2>4. IsNode(n)
    BY <2>2, <2>3 DEF IsNode, Shape, NodeShape
  <2>5. NodeShape' /\ node'[s] = n /\ \A t \in Slaves \ {s} : node'[t] = node[t]
    BY <2>1, <2>4, NodeReplaced DEF Shape, n
  <2>. QED
    BY <1>3, <1>4, <2>2, <2>5 DEF Refuse
<1>5. CASE Leave(s)
  <2>. DEFINE n == [node[s] EXCEPT !.present = FALSE]
  <2>1. node' = [node EXCEPT ![s] = n]
    BY <1>5 DEF Leave
  <2>2. /\ n.owner = node[s].owner /\ n.present = FALSE /\ n.busy = node[s].busy
        /\ n.nack = node[s].nack /\ n.comm = node[s].comm /\ n.at = node[s].at
        /\ n.refuses = node[s].refuses /\ n.reg = node[s].reg
    BY <1>1
  <2>3. DOMAIN n = DOMAIN node[s]
    OBVIOUS
  <2>. HIDE DEF n
  <2>4. IsNode(n)
    BY <2>2, <2>3 DEF IsNode, Shape, NodeShape
  <2>5. NodeShape' /\ node'[s] = n /\ \A t \in Slaves \ {s} : node'[t] = node[t]
    BY <2>1, <2>4, NodeReplaced DEF Shape
  <2>. QED
    BY <1>3, <1>5, <2>2, <2>5 DEF Leave
<1>. QED
  BY <1>4, <1>5

\* A field of the list changes: a flag, or a word.
LEMMA FlagSet ==
    ASSUME ListShape, NEW s \in Slaves, NEW v \in BOOLEAN,
           slavelist' = [slavelist EXCEPT ![s].eep_pdi = v]
    PROVE  /\ ListShape' /\ slavelist'[s].eep_pdi = v
           /\ \A t \in Slaves : /\ slavelist'[t].word = slavelist[t].word
                                /\ slavelist'[t].eep_8byte = slavelist[t].eep_8byte
           /\ \A t \in Slaves \ {s} : slavelist'[t] = slavelist[t]
<1>. DEFINE e == [slavelist[s] EXCEPT !.eep_pdi = v]
<1>1. DOMAIN slavelist[s] = {"eep_pdi", "eep_8byte", "word"}
  BY DEF ListShape
<1>2. /\ e.eep_pdi = v /\ e.eep_8byte = slavelist[s].eep_8byte /\ e.word = slavelist[s].word
      /\ DOMAIN e = {"eep_pdi", "eep_8byte", "word"}
  BY <1>1
<1>3. slavelist' = [slavelist EXCEPT ![s] = e]
  OBVIOUS
<1>. HIDE DEF e
<1>4. DOMAIN slavelist' = Slaves /\ slavelist'[s] = e /\ \A t \in Slaves \ {s} : slavelist'[t] = slavelist[t]
  BY <1>3 DEF ListShape
<1>. QED
  BY <1>2, <1>4 DEF ListShape

\* The width of the data register is noted.
LEMMA WidthSet ==
    ASSUME ListShape, NEW s \in Slaves, NEW v \in BOOLEAN,
           slavelist' = [slavelist EXCEPT ![s].eep_8byte = v]
    PROVE  /\ ListShape' /\ slavelist'[s].eep_8byte = v
           /\ \A t \in Slaves : /\ slavelist'[t].word = slavelist[t].word
                                /\ slavelist'[t].eep_pdi = slavelist[t].eep_pdi
           /\ \A t \in Slaves \ {s} : slavelist'[t] = slavelist[t]
<1>. DEFINE e == [slavelist[s] EXCEPT !.eep_8byte = v]
<1>1. DOMAIN slavelist[s] = {"eep_pdi", "eep_8byte", "word"}
  BY DEF ListShape
<1>2. /\ e.eep_8byte = v /\ e.eep_pdi = slavelist[s].eep_pdi /\ e.word = slavelist[s].word
      /\ DOMAIN e = {"eep_pdi", "eep_8byte", "word"}
  BY <1>1
<1>3. slavelist' = [slavelist EXCEPT ![s] = e]
  OBVIOUS
<1>. HIDE DEF e
<1>4. DOMAIN slavelist' = Slaves /\ slavelist'[s] = e /\ \A t \in Slaves \ {s} : slavelist'[t] = slavelist[t]
  BY <1>3 DEF ListShape
<1>. QED
  BY <1>2, <1>4 DEF ListShape

\* A word is filed.
LEMMA WordSet ==
    ASSUME ListShape, NEW s \in Slaves, NEW f \in Known, NEW v,
           slavelist' = [slavelist EXCEPT ![s].word[f] = v]
    PROVE  /\ ListShape' /\ slavelist'[s].word[f] = v
           /\ \A g \in Known \ {f} : slavelist'[s].word[g] = slavelist[s].word[g]
           /\ \A t \in Slaves : /\ slavelist'[t].eep_8byte = slavelist[t].eep_8byte
                                /\ slavelist'[t].eep_pdi = slavelist[t].eep_pdi
           /\ \A t \in Slaves \ {s} : slavelist'[t] = slavelist[t]
<1>. DEFINE w == [slavelist[s].word EXCEPT ![f] = v]
            e == [slavelist[s] EXCEPT !.word = w]
<1>1. DOMAIN slavelist[s] = {"eep_pdi", "eep_8byte", "word"} /\ DOMAIN slavelist[s].word = Known
  BY DEF ListShape
<1>2. DOMAIN w = Known /\ w[f] = v /\ \A g \in Known \ {f} : w[g] = slavelist[s].word[g]
  BY <1>1
<1>3. slavelist' = [slavelist EXCEPT ![s] = e]
  OBVIOUS
<1>. HIDE DEF w
<1>4. /\ e.eep_pdi = slavelist[s].eep_pdi /\ e.eep_8byte = slavelist[s].eep_8byte /\ e.word = w
      /\ DOMAIN e = {"eep_pdi", "eep_8byte", "word"}
  BY <1>1
<1>. HIDE DEF e
<1>5. DOMAIN slavelist' = Slaves /\ slavelist'[s] = e /\ \A t \in Slaves \ {s} : slavelist'[t] = slavelist[t]
  BY <1>3 DEF ListShape
<1>. QED
  BY <1>2, <1>4, <1>5 DEF ListShape

\* ecx_eeprom2master and ecx_eeprom2pdi: owner and flag, and how an exchange may fail.
SameButOwner(s) ==
    /\ \A t \in Slaves \ {s} : node'[t] = node[t]
    /\ node'[s].present = node[s].present /\ node'[s].busy = node[s].busy
    /\ node'[s].comm = node[s].comm /\ node'[s].at = node[s].at
    /\ node'[s].nack = node[s].nack /\ node'[s].reg = node[s].reg
SameButFlag(s) ==
    /\ \A t \in Slaves : /\ slavelist'[t].word = slavelist[t].word
                         /\ slavelist'[t].eep_8byte = slavelist[t].eep_8byte
    /\ \A t \in Slaves \ {s} : slavelist'[t] = slavelist[t]
Given(s, owner) ==
    \/ Done(s) /\ node'[s].owner = owner
    \/ (Lost(s) \/ Gone(s)) /\ node' = node

\* eeprom2master either gives the EEPROM to the master and clears eep_pdi, or its write is lost
\* and only the flag changes; a slave whose flag is clear is left alone.
LEMMA TakeDoes ==
    ASSUME Shape, NEW s \in Slaves, eeprom2master(s)
    PROVE  /\ NodeShape' /\ ListShape' /\ SameButOwner(s) /\ SameButFlag(s)
           /\ ~slavelist'[s].eep_pdi
           /\ IF slavelist[s].eep_pdi THEN Given(s, "master")
              ELSE UNCHANGED <<node, slavelist, faults, disturbed>>
<1>1. CASE slavelist[s].eep_pdi
  <2>1. Give(s, "master") /\ slavelist' = [slavelist EXCEPT ![s].eep_pdi = FALSE]
    BY <1>1 DEF eeprom2master
  <2>. QED
    BY <1>1, <2>1, GiveDoes, FlagSet DEF Shape, SameButOwner, SameButFlag, Given
<1>2. CASE ~slavelist[s].eep_pdi
  BY <1>2 DEF eeprom2master, Shape, NodeShape, ListShape, SameButOwner, SameButFlag
<1>. QED
  BY <1>1, <1>2

\* eeprom2pdi likewise gives the EEPROM to the firmware, if the master has it.
LEMMA GiveBackDoes ==
    ASSUME Shape, NEW s \in Slaves, eeprom2pdi(s)
    PROVE  /\ NodeShape' /\ ListShape' /\ SameButOwner(s) /\ SameButFlag(s)
           /\ slavelist'[s].eep_pdi
           /\ IF ~slavelist[s].eep_pdi THEN Given(s, "pdi")
              ELSE UNCHANGED <<node, slavelist, faults, disturbed>>
<1>1. CASE ~slavelist[s].eep_pdi
  <2>1. Give(s, "pdi") /\ slavelist' = [slavelist EXCEPT ![s].eep_pdi = TRUE]
    BY <1>1 DEF eeprom2pdi
  <2>. QED
    BY <1>1, <2>1, GiveDoes, FlagSet DEF Shape, SameButOwner, SameButFlag, Given
<1>2. CASE slavelist[s].eep_pdi
  BY <1>2 DEF eeprom2pdi, Shape, NodeShape, ListShape, SameButOwner, SameButFlag
<1>. QED
  BY <1>1, <1>2

\* A call is begun.
LEMMA BeginDoes ==
    ASSUME NEW op, NEW s, NEW a, NEW value, Begin(op, s, a, value)
    PROVE  /\ DOMAIN call' = DOMAIN NoCall
           /\ call'.op = op /\ call'.s = s /\ call'.a = a /\ call'.value = value
           /\ call'.pc = (IF op \in {"collect", "write", "dump"} THEN "wait" ELSE "control")
           /\ call'.nacks = 0 /\ call'.r64 = FALSE /\ call'.ok = FALSE /\ call'.res = NoData
BY RecordFields DEF Begin, NoCall

\* Whom it asks, and for what.
LEMMA BeginAsks ==
    ASSUME NEW op, NEW s, NEW a, NEW value, Begin(op, s, a, value)
    PROVE  call'.op = op /\ call'.s = s /\ call'.a = a
BY BeginDoes

\* No call is under way.
LEMMA NoCallIs ==
    /\ NoCall.op = "none" /\ NoCall.s = 1 /\ NoCall.a = 0 /\ NoCall.pc = "done"
    /\ NoCall.nacks = 0 /\ NoCall.r64 = FALSE /\ NoCall.ok = FALSE /\ NoCall.res = NoData
BY DEF NoCall

\* The fields that a call keeps.
SameCall ==
    /\ DOMAIN call' = DOMAIN NoCall
    /\ call'.op = call.op /\ call'.s = call.s /\ call'.a = call.a /\ call'.value = call.value
SameCallButPc ==
    /\ SameCall
    /\ call'.nacks = call.nacks /\ call'.r64 = call.r64 /\ call'.ok = call.ok
    /\ call'.res = call.res

\* The call goes to another point.
LEMMA PointSet ==
    ASSUME CallShape, NEW pc, call' = [call EXCEPT !.pc = pc]
    PROVE  SameCallButPc /\ call'.pc = pc
BY RecordFields DEF CallShape, SameCallButPc, SameCall

\* The first point of a call takes the EEPROM and goes on to the wait.
LEMMA ControlDoes ==
    ASSUME Shape, Control
    PROVE  /\ SameCallButPc /\ call.pc = "control" /\ call'.pc = "wait"
           /\ NodeShape' /\ ListShape' /\ SameButOwner(call.s) /\ SameButFlag(call.s)
           /\ ~slavelist'[call.s].eep_pdi
           /\ IF slavelist[call.s].eep_pdi THEN Given(call.s, "master")
              ELSE UNCHANGED <<node, slavelist, faults, disturbed>>
           /\ UNCHANGED <<store, esislave, esibuf>>
<1>1. call.s \in Slaves
  BY DEF Shape, CallShape
<1>3. eeprom2master(call.s)
  BY DEF Control
<1>2. SameCallButPc /\ call'.pc = "wait"
  BY PointSet DEF Control, Shape
<1>. QED
  BY <1>1, <1>2, <1>3, TakeDoes DEF Control

\* The wait before the command changes no slave; it ends the call if the controller stays busy.
LEMMA WaitDoes ==
    ASSUME Shape, Wait
    PROVE  /\ SameCallButPc /\ call.pc = "wait"
           /\ \E status \in {"silent", "idle", "nack", "busy"} :
                 /\ Waited(call.s, status, call.op = "collect" /\ status = "nack")
                 /\ call'.pc = IF status = "busy" THEN "done"
                               ELSE IF call.op = "collect" THEN "data"
                               ELSE IF call.op = "write" THEN "value" ELSE "command"
           /\ UNCHANGED <<node, store, slavelist, esislave, esibuf>>
<1>1. PICK status \in {"silent", "idle", "nack", "busy"} :
         /\ Waited(call.s, status, call.op = "collect" /\ status = "nack")
         /\ call' = [call EXCEPT !.pc =
                  CASE status = "busy" -> "done"
                    [] status # "busy" /\ call.op = "collect" -> "data"
                    [] status # "busy" /\ call.op = "write" -> "value"
                    [] OTHER -> "command"]
  BY DEF Wait
<1>. DEFINE pc == CASE status = "busy" -> "done"
                    [] status # "busy" /\ call.op = "collect" -> "data"
                    [] status # "busy" /\ call.op = "write" -> "value"
                    [] OTHER -> "command"
<1>2. pc = IF status = "busy" THEN "done" ELSE IF call.op = "collect" THEN "data"
           ELSE IF call.op = "write" THEN "value" ELSE "command"
  OBVIOUS
<1>3. SameCallButPc /\ call'.pc = pc
  BY <1>1, PointSet DEF Shape
<1>. HIDE DEF pc
<1>. QED
  BY <1>1, <1>2, <1>3 DEF Wait

\* The value is put into the data register of the called slave, or lost.
LEMMA ValueDoes ==
    ASSUME Shape, Value
    PROVE  /\ SameCallButPc /\ call.pc = "value" /\ call'.pc = "command"
           /\ NodeShape' /\ \A t \in Slaves \ {call.s} : node'[t] = node[t]
           /\ node'[call.s].present = node[call.s].present /\ node'[call.s].busy = node[call.s].busy
           /\ node'[call.s].owner = node[call.s].owner /\ node'[call.s].nack = node[call.s].nack
           /\ node'[call.s].comm = node[call.s].comm /\ node'[call.s].at = node[call.s].at
           /\ \/ Done(call.s) /\ node'[call.s].reg[0] = call.value
              \/ (Lost(call.s) \/ Gone(call.s)) /\ node' = node
           /\ UNCHANGED <<store, slavelist, esislave, esibuf>>
<1>1. call.s \in Slaves
  BY DEF Shape, CallShape
<1>2. SameCallButPc /\ call'.pc = "command"
  BY PointSet DEF Value, Shape
<1>3. CASE (Lost(call.s) \/ Gone(call.s)) /\ node' = node
  BY <1>1, <1>2, <1>3, NodesLeft DEF Value, Shape
<1>4. CASE Done(call.s) /\ node' = [node EXCEPT ![call.s].reg[0] = call.value]
  <2>. DEFINE r == [node[call.s].reg EXCEPT ![0] = call.value]
              n == [node[call.s] EXCEPT !.reg = r]
  <2>1. DOMAIN node[call.s] = {"present", "owner", "busy", "comm", "at", "nack", "refuses", "reg"}
    BY <1>1, RecordFields DEF Shape, NodeShape
  <2>2. DOMAIN r = 0 .. 3 /\ r[0] = call.value
    BY <1>1 DEF Shape, NodeShape
  <2>3. node' = [node EXCEPT ![call.s] = n]
    BY <1>4
  <2>. HIDE DEF r
  <2>4. /\ n.owner = node[call.s].owner /\ n.present = node[call.s].present
        /\ n.busy = node[call.s].busy /\ n.nack = node[call.s].nack
        /\ n.comm = node[call.s].comm /\ n.at = node[call.s].at
        /\ n.refuses = node[call.s].refuses /\ n.reg = r
    BY <2>1
  <2>5. DOMAIN n = DOMAIN node[call.s]
    OBVIOUS
  <2>. HIDE DEF n
  <2>6. IsNode(n)
    BY <1>1, <2>2, <2>4, <2>5 DEF IsNode, Shape, NodeShape
  <2>7. NodeShape' /\ node'[call.s] = n /\ \A t \in Slaves \ {call.s} : node'[t] = node[t]
    BY <1>1, <2>3, <2>6, NodeReplaced DEF Shape
  <2>. QED
    BY <1>2, <1>4, <2>2, <2>4, <2>7 DEF Value
<1>. QED
  BY <1>3, <1>4 DEF Value, Lost, Gone

\* The controller takes a command, or is not told, or ignores it.
Told(s) ==
    /\ node[s].owner = "master" /\ ~node[s].busy
    /\ node'[s].busy /\ ~node'[s].nack /\ node'[s].at = call.a
    /\ node'[s].comm = (IF call.op = "write" THEN "write" ELSE "read")
Ignored(s) == node'[s] = node[s] /\ ~(node[s].owner = "master" /\ ~node[s].busy)
\* A command that arrives is obeyed by a controller that the master has and that is not busy.
LEMMA CommandDoes ==
    ASSUME Shape, Command
    PROVE  /\ SameCallButPc /\ call.pc = "command"
           /\ call'.pc \in {IF call.op = "issue" THEN "done" ELSE "await",
                            IF call.op = "issue" THEN "done" ELSE Again(call.nacks)}
           /\ NodeShape' /\ \A t \in Slaves \ {call.s} : node'[t] = node[t]
           /\ node'[call.s].present = node[call.s].present
           /\ node'[call.s].owner = node[call.s].owner
           /\ node'[call.s].reg = node[call.s].reg
           /\ \/ /\ Done(call.s) \/ Lost(call.s)
                 /\ Told(call.s) \/ Ignored(call.s)
                 /\ call'.pc = IF call.op = "issue" THEN "done" ELSE "await"
              \/ (Lost(call.s) \/ Gone(call.s)) /\ node' = node
           /\ UNCHANGED <<store, slavelist, esislave, esibuf>>
<1>1. call.s \in Slaves
  BY DEF Shape, CallShape
<1>. DEFINE n == Commanded(node[call.s])
<1>2. DOMAIN node[call.s] = {"present", "owner", "busy", "comm", "at", "nack", "refuses", "reg"}
  BY <1>1, RecordFields DEF Shape, NodeShape
<1>3. /\ DOMAIN n = DOMAIN node[call.s]
      /\ n.present = node[call.s].present /\ n.owner = node[call.s].owner
      /\ n.refuses = node[call.s].refuses /\ n.reg = node[call.s].reg
      /\ n.busy \in BOOLEAN /\ n.nack \in BOOLEAN
      /\ IF node[call.s].owner = "master" /\ ~node[call.s].busy
         THEN /\ n.busy = TRUE /\ n.nack = FALSE /\ n.at = call.a
              /\ n.comm = (IF call.op = "write" THEN "write" ELSE "read")
         ELSE n = node[call.s]
  <2>1. CASE node[call.s].owner = "master" /\ ~node[call.s].busy
    <3>. DEFINE m == [node[call.s] EXCEPT !.busy = TRUE, !.nack = FALSE, !.at = call.a,
                         !.comm = IF call.op = "write" THEN "write" ELSE "read"]
    <3>1. n = m
      BY <2>1 DEF Commanded
    <3>2. /\ DOMAIN m = DOMAIN node[call.s]
          /\ m.present = node[call.s].present /\ m.owner = node[call.s].owner
          /\ m.refuses = node[call.s].refuses /\ m.reg = node[call.s].reg
          /\ m.busy = TRUE /\ m.nack = FALSE /\ m.at = call.a
          /\ m.comm = (IF call.op = "write" THEN "write" ELSE "read")
      BY <1>2
    <3>. QED
      BY <2>1, <3>1, <3>2
  <2>2. CASE ~(node[call.s].owner = "master" /\ ~node[call.s].busy)
    BY <1>1, <2>2 DEF Commanded, Shape, NodeShape
  <2>. QED
    BY <2>1, <2>2
<1>4. SameCallButPc
  BY PointSet DEF Command, Shape
<1>5. CASE call'.pc # IF call.op = "issue" THEN "done" ELSE "await"
  <2>1. Gone(call.s) /\ node' = node /\ call'.pc = IF call.op = "issue" THEN "done" ELSE Again(call.nacks)
    BY <1>5, PointSet DEF Command, Shape
  <2>. QED
    BY <1>1, <1>4, <2>1, NodesLeft DEF Command, Shape
<1>6. CASE Gone(call.s) /\ node' = node
  <2>1. call'.pc \in {IF call.op = "issue" THEN "done" ELSE "await",
                      IF call.op = "issue" THEN "done" ELSE Again(call.nacks)}
    BY PointSet DEF Command, Shape
  <2>. QED
    BY <1>1, <1>4, <1>6, <2>1, NodesLeft DEF Command, Shape
<1>7. CASE (Done(call.s) \/ Lost(call.s)) /\ node' = [node EXCEPT ![call.s] = n]
           /\ call'.pc = IF call.op = "issue" THEN "done" ELSE "await"
  <2>. HIDE DEF n
  <2>1. IsNode(n)
    BY <1>1, <1>3 DEF IsNode, Shape, NodeShape
  <2>2. NodeShape' /\ node'[call.s] = n /\ \A t \in Slaves \ {call.s} : node'[t] = node[t]
    BY <1>1, <1>7, <2>1, NodeReplaced DEF Shape
  <2>3. Told(call.s) \/ Ignored(call.s)
    BY <1>3, <2>2 DEF Told, Ignored
  <2>. QED
    BY <1>1, <1>3, <1>4, <1>7, <2>2, <2>3 DEF Command
<1>8. CASE Lost(call.s) /\ node' = node
           /\ call'.pc = IF call.op = "issue" THEN "done" ELSE "await"
  BY <1>1, <1>4, <1>8, NodesLeft DEF Command, Shape
<1>. QED
  <2>1. \/ Gone(call.s) /\ node' = node
        \/ (Done(call.s) \/ Lost(call.s)) /\ node' = [node EXCEPT ![call.s] = n]
        \/ Lost(call.s) /\ node' = node
    BY DEF Command, Lost, Gone
  <2>. QED
    BY <1>5, <1>6, <1>7, <1>8, <2>1

\* The wait after the command counts a refusal and repeats the call until MaxNacks is reached.
LEMMA AwaitDoes ==
    ASSUME Shape, Await
    PROVE  /\ SameCall /\ call.pc = "await" /\ call'.res = call.res
           /\ \E status \in {"silent", "idle", "nack", "busy"} :
                 /\ Waited(call.s, status, status = "nack" /\ Count(status) = MaxNacks)
                 /\ call'.nacks = Count(status)
                 /\ call'.r64 = (call.s \in EightByte /\ status # "silent")
                 /\ call'.ok = (call.op = "write" /\ ~Refused(status) /\ status # "busy")
                 /\ call'.pc = IF Refused(status) \/ status = "busy" THEN Again(Count(status))
                               ELSE IF call.op = "write" THEN "done" ELSE "data"
           /\ UNCHANGED <<node, store, slavelist, esislave, esibuf>>
<1>1. PICK status \in {"silent", "idle", "nack", "busy"} :
         /\ Waited(call.s, status, status = "nack" /\ Count(status) = MaxNacks)
         /\ call' = [call EXCEPT !.nacks = Count(status),
                  !.r64 = call.s \in EightByte /\ status # "silent",
                  !.ok = call.op = "write" /\ ~Refused(status) /\ status # "busy",
                  !.pc = IF Refused(status) \/ status = "busy" THEN Again(Count(status))
                         ELSE IF call.op = "write" THEN "done" ELSE "data"]
  BY DEF Await
<1>. DEFINE nacks == Count(status)
            r64 == call.s \in EightByte /\ status # "silent"
            ok == call.op = "write" /\ ~Refused(status) /\ status # "busy"
            pc == IF Refused(status) \/ status = "busy" THEN Again(Count(status))
                  ELSE IF call.op = "write" THEN "done" ELSE "data"
<1>2. DOMAIN call = {"op", "s", "a", "value", "pc", "nacks", "r64", "res", "ok"}
  BY RecordFields DEF Shape, CallShape
<1>3. call' = [call EXCEPT !.nacks = nacks, !.r64 = r64, !.ok = ok, !.pc = pc]
  BY <1>1
<1>. HIDE DEF nacks, r64, ok, pc
<1>4. /\ DOMAIN call' = DOMAIN call
      /\ call'.op = call.op /\ call'.s = call.s /\ call'.a = call.a /\ call'.value = call.value
      /\ call'.res = call.res /\ call'.nacks = nacks /\ call'.r64 = r64 /\ call'.ok = ok
      /\ call'.pc = pc
  BY <1>2, <1>3
<1>. QED
  BY <1>1, <1>2, <1>4, RecordFields DEF SameCall, nacks, r64, ok, pc, Await

\* The result of a call is what the data register holds, or what it was if the read is lost.
LEMMA DataDoes ==
    ASSUME Shape, Data
    PROVE  /\ SameCall /\ call.pc = "data" /\ call'.pc = "done"
           /\ call'.nacks = call.nacks /\ call'.r64 = call.r64 /\ call'.ok = call.ok
           /\ \/ Done(call.s) /\ call'.res = Partly(node[call.s].reg, call.r64)
              \/ (Lost(call.s) \/ Gone(call.s)) /\ call'.res = call.res
           /\ UNCHANGED <<node, store, slavelist, esislave, esibuf>>
<1>1. DOMAIN call = {"op", "s", "a", "value", "pc", "nacks", "r64", "res", "ok"}
  BY RecordFields DEF Shape, CallShape
<1>2. CASE (Lost(call.s) \/ Gone(call.s)) /\ call' = [call EXCEPT !.pc = "done"]
  BY <1>2, PointSet DEF Shape, Data, SameCallButPc
<1>3. CASE /\ Done(call.s)
           /\ call' = [call EXCEPT !.pc = "done", !.res = Partly(node[call.s].reg, call.r64)]
  <2>. DEFINE res == Partly(node[call.s].reg, call.r64)
  <2>1. call' = [call EXCEPT !.pc = "done", !.res = res]
    BY <1>3
  <2>. HIDE DEF res
  <2>2. /\ DOMAIN call' = DOMAIN call
        /\ call'.op = call.op /\ call'.s = call.s /\ call'.a = call.a /\ call'.value = call.value
        /\ call'.res = res /\ call'.nacks = call.nacks /\ call'.r64 = call.r64
        /\ call'.ok = call.ok /\ call'.pc = "done"
    BY <1>1, <2>1
  <2>. QED
    BY <1>1, <1>3, <2>2, RecordFields DEF SameCall, res, Data
<1>. QED
  BY <1>2, <1>3 DEF Data, Partly

\* The program takes a step.
LEMMA StepDoes ==
    ASSUME ProgShape, NEW step, Step(step)
    PROVE  /\ DOMAIN prog' = {"stage", "s", "step"} /\ prog'.step = step
           /\ prog'.stage = prog.stage /\ prog'.s = prog.s
BY DEF Step, ProgShape, Position

\* It goes on with the next slave, or with the first one in the next stage.
LEMMA NextSlaveDoes ==
    ASSUME ProgShape, NextSlave, prog.stage \in 1 .. MAPPING
    PROVE  /\ DOMAIN prog' = {"stage", "s", "step"}
           /\ \/ /\ prog.s < SlaveCount /\ prog'.s = prog.s + 1 /\ prog'.stage = prog.stage
                 /\ prog'.step = IF prog.stage = 1 THEN "width"
                                 ELSE IF prog.stage = MAPPING THEN "map" ELSE "collect"
              \/ /\ prog.s = SlaveCount /\ prog'.s = 1 /\ prog'.stage = prog.stage + 1
                 /\ prog'.step = IF prog'.stage = RUNNING THEN "idle"
                                 ELSE IF prog'.stage = MAPPING THEN "map" ELSE "collect"
<1>1. prog.s \in Slaves /\ prog.s <= SlaveCount /\ prog.stage \in Nat /\ prog.stage + 1 # 1
  BY Constants DEF ProgShape, Position, Slaves, MAPPING
<1>2. DOMAIN prog = {"stage", "s", "step"}
  BY DEF ProgShape, Position
<1>3. CASE prog.s < SlaveCount
  <2>. DEFINE step == FirstStep(prog.stage)
  <2>1. prog' = [prog EXCEPT !.s = prog.s + 1, !.step = step]
    BY <1>3 DEF NextSlave
  <2>. HIDE DEF step
  <2>2. /\ DOMAIN prog' = DOMAIN prog /\ prog'.stage = prog.stage
        /\ prog'.s = prog.s + 1 /\ prog'.step = step
    BY <1>2, <2>1
  <2>. QED
    BY <1>2, <1>3, <2>2 DEF FirstStep, step, MAPPING
<1>4. CASE ~(prog.s < SlaveCount)
  <2>. DEFINE step == IF prog.stage + 1 = RUNNING THEN "idle" ELSE FirstStep(prog.stage + 1)
  <2>1. prog' = [prog EXCEPT !.s = 1, !.stage = prog.stage + 1, !.step = step]
    BY <1>4 DEF NextSlave
  <2>. HIDE DEF step
  <2>2. /\ DOMAIN prog' = DOMAIN prog /\ prog'.stage = prog.stage + 1
        /\ prog'.s = 1 /\ prog'.step = step
    BY <1>2, <2>1
  <2>3. prog.s = SlaveCount
    BY <1>1, <1>4, Constants DEF Slaves
  <2>. QED
    BY <1>1, <1>2, <2>2, <2>3 DEF FirstStep, step, MAPPING
<1>. QED
  BY <1>3, <1>4

\* The EEPROMs are taken from the firmware by a broadcast.
LEMMA DefaultsDo ==
    ASSUME Shape, SetDefaults
    PROVE  /\ NodeShape'
           /\ \A s \in Slaves : /\ node'[s].present = node[s].present
                                /\ node'[s].busy = node[s].busy /\ node'[s].nack = node[s].nack
                                /\ node'[s].comm = node[s].comm /\ node'[s].at = node[s].at
                                /\ node'[s].reg = node[s].reg
           /\ \/ /\ \A s \in Slaves : node[s].present => node'[s].owner = "master"
                 /\ UNCHANGED <<faults, disturbed>>
              \/ disturbed' = Slaves /\ faults' = faults + 1 /\ faults < MaxFaults
           /\ prog.step = "defaults"
           /\ DOMAIN prog' = {"stage", "s", "step"} /\ prog'.step = "width"
           /\ prog'.stage = prog.stage /\ prog'.s = prog.s
           /\ UNCHANGED <<store, slavelist, esislave, esibuf, call, first, asked, address, ebuf>>
<1>1. /\ DOMAIN prog' = {"stage", "s", "step"} /\ prog'.step = "width"
      /\ prog'.stage = prog.stage /\ prog'.s = prog.s
  BY StepDoes DEF SetDefaults, Shape
<1>2. CASE node' = [s \in Slaves |-> IF node[s].present THEN [node[s] EXCEPT !.owner = "master"]
                                     ELSE node[s]]
           /\ UNCHANGED <<faults, disturbed>>
  <2>1. ASSUME NEW s \in Slaves
        PROVE  /\ IsNode(node'[s])
               /\ node'[s].present = node[s].present
               /\ node'[s].busy = node[s].busy /\ node'[s].nack = node[s].nack
               /\ node'[s].comm = node[s].comm /\ node'[s].at = node[s].at
               /\ node'[s].reg = node[s].reg
               /\ node[s].present => node'[s].owner = "master"
    <3>. DEFINE n == [node[s] EXCEPT !.owner = "master"]
    <3>1. DOMAIN node[s] = {"present", "owner", "busy", "comm", "at", "nack", "refuses", "reg"}
      BY RecordFields DEF Shape, NodeShape
    <3>2. /\ n.owner = "master" /\ n.present = node[s].present /\ n.busy = node[s].busy
          /\ n.nack = node[s].nack /\ n.comm = node[s].comm /\ n.at = node[s].at
          /\ n.refuses = node[s].refuses /\ n.reg = node[s].reg
          /\ DOMAIN n = DOMAIN node[s]
      BY <3>1
    <3>3. node'[s] = IF node[s].present THEN n ELSE node[s]
      BY <1>2
    <3>. HIDE DEF n
    <3>. QED
      BY <3>1, <3>2, <3>3, RecordFields DEF IsNode, Shape, NodeShape
  <2>2. DOMAIN node' = Slaves
    BY <1>2
  <2>3. NodeShape'
    BY <2>1, <2>2 DEF NodeShape, IsNode
  <2>. QED
    BY <1>1, <1>2, <2>1, <2>3 DEF SetDefaults
<1>3. CASE faults < MaxFaults /\ faults' = faults + 1 /\ disturbed' = Slaves /\ UNCHANGED node
  BY <1>1, <1>3, NodesLeft DEF SetDefaults, Shape
<1>. QED
  BY <1>2, <1>3 DEF SetDefaults

\* Another board takes the place of a slave.
LEMMA ExchangeDoes ==
    ASSUME Shape, NEW s \in Slaves, Exchange(s)
    PROVE  /\ prog.stage = RUNNING /\ prog.step = "idle"
           /\ NodeShape' /\ node'[s] = PoweredUp
           /\ \A t \in Slaves \ {s} : node'[t] = node[t] /\ store'[t] = store[t]
           /\ \E k \in Kinds : store'[s] = Contents[k]
           /\ DOMAIN store' = Slaves
           /\ asked' = asked \ {s}
           /\ DOMAIN address' = Slaves /\ address'[s] = "none"
           /\ \A t \in Slaves \ {s} : address'[t] = address[t]
           /\ UNCHANGED <<slavelist, esislave, esibuf, call, faults, disturbed, prog, first, ebuf>>
<1>1. PICK k \in Kinds : store' = [store EXCEPT ![s] = Contents[k]]
  BY DEF Exchange
<1>2. IsNode(PoweredUp)
  BY RecordFields DEF IsNode, PoweredUp
<1>3. node' = [node EXCEPT ![s] = PoweredUp]
  BY DEF Exchange
<1>4. NodeShape' /\ node'[s] = PoweredUp /\ \A t \in Slaves \ {s} : node'[t] = node[t]
  BY <1>2, <1>3, NodeReplaced DEF Shape
<1>5. /\ DOMAIN address = Slaves
      /\ DOMAIN store = Slaves
  BY DEF Shape, ProgShape, Position, StoreShape
<1>. QED
  BY <1>1, <1>4, <1>5 DEF Exchange

\* What a new controller is.
LEMMA PoweredUpIs ==
    /\ PoweredUp.present = TRUE /\ PoweredUp.owner = "master" /\ PoweredUp.busy = FALSE
    /\ PoweredUp.comm = "read" /\ PoweredUp.nack = FALSE /\ PoweredUp.reg = NoData
BY DEF PoweredUp

\* What an exchange does to the count of the faults.
Spoilt(s) == UNCHANGED disturbed \/ disturbed' = disturbed \cup {s}
\* It stays within its bound, and only the called slave becomes disturbed.
LEMMA FaultsCounted ==
    ASSUME ProgShape, NEW s \in Slaves, Done(s) \/ Lost(s) \/ Gone(s)
    PROVE  faults' \in 0 .. MaxFaults /\ Spoilt(s) /\ disturbed' \subseteq Slaves
<1>1. MaxFaults \in Nat /\ faults \in 0 .. MaxFaults /\ disturbed \subseteq Slaves
  BY Constants DEF ProgShape, Position
<1>2. CASE Done(s) \/ Gone(s)
  BY <1>1, <1>2 DEF Done, Gone, Spoilt
<1>3. CASE Lost(s)
  <2>1. faults < MaxFaults /\ faults' = faults + 1 /\ disturbed' = disturbed \cup {s}
    BY <1>3 DEF Lost
  <2>. QED
    BY <1>1, <2>1 DEF Spoilt
<1>. QED
  BY <1>2, <1>3

\* What a wait does to it.
LEMMA WaitsCounted ==
    ASSUME ProgShape, NEW s \in Slaves, NEW status, NEW spoilt \in BOOLEAN, Waited(s, status, spoilt)
    PROVE  faults' \in 0 .. MaxFaults /\ Spoilt(s) /\ disturbed' \subseteq Slaves
<1>1. status \in {"silent", "busy"} /\ node[s].present => faults # MaxFaults
  BY DEF Waited, Status
<1>2. faults' \in 0 .. MaxFaults
  BY <1>1, Constants DEF Waited, ProgShape, Position
<1>. QED
  BY <1>2 DEF Waited, Spoilt, ProgShape, Position

\* A wait that does not disturb says what the controller is.
LEMMA WaitTells ==
    ASSUME NEW s, NEW status, NEW spoilt \in BOOLEAN, Waited(s, status, spoilt),
           s \notin disturbed', disturbed \subseteq Slaves, node[s].present \in BOOLEAN,
           node[s].busy \in BOOLEAN, node[s].nack \in BOOLEAN
    PROVE  /\ ~spoilt /\ s \notin disturbed /\ ~node[s].busy
           /\ status = IF node[s].nack THEN "nack" ELSE "idle"
BY DEF Waited, Status

-----------------------------------------------------------------------------
(* The records keep their fields, and every step of the program has its     *)
(* call.                                                                    *)

\* The steps that leave the controllers alone.
LEMMA NodesAlone ==
    ASSUME \/ Wait \/ Await \/ Data \/ Width \/ Collect \/ Collected \/ Issue \/ Issued
           \/ LookupSii \/ LookupMapping \/ ReadByte \/ ByteRead \/ SectionsRead \/ AskPreOp
           \/ (\E s \in Slaves : RecoverSlave(s) \/ Reconfigure(s)) \/ CompareWord \/ GiveAddress
           \/ WriteWord \/ Ainc \/ ReadImage \/ WriteAlias \/ Sizing \/ UNCHANGED vars
    PROVE  node' = node
<1>1. CASE Wait \/ Await \/ Data \/ Width \/ Collect \/ Collected \/ Issue \/ Issued
  BY <1>1 DEF Wait, Await, Data, Width, Collect, Collected, Issue, Issued
<1>2. CASE LookupSii \/ LookupMapping \/ ReadByte \/ ByteRead \/ SectionsRead \/ AskPreOp
  BY <1>2 DEF LookupSii, LookupMapping, ReadByte, GetByte, ByteRead, FillCache, SectionsRead,
     AskPreOp, eepromVars
<1>3. CASE (\E s \in Slaves : RecoverSlave(s) \/ Reconfigure(s)) \/ CompareWord \/ GiveAddress
  BY <1>3 DEF RecoverSlave, Reconfigure, CompareWord, GiveAddress, eepromVars
<1>4. CASE WriteWord \/ Ainc \/ ReadImage \/ WriteAlias \/ Sizing \/ UNCHANGED vars
  BY <1>4 DEF WriteWord, Ainc, ReadImage, WriteAlias, Sizing, vars, eepromVars
<1>. QED
  BY <1>1, <1>2, <1>3, <1>4

\* Controllers keep their fields.
LEMMA NodesKept == Shape /\ [Next]_vars => NodeShape'
<1>. SUFFICES ASSUME Shape, [Next]_vars PROVE NodeShape'
  OBVIOUS
<1>1. prog.s \in Slaves /\ NodeShape
  BY DEF Shape, ProgShape, Position
<1>2. CASE Control \/ Value \/ Command \/ SetDefaults
  BY <1>2, ControlDoes, ValueDoes, CommandDoes, DefaultsDo
<1>3. CASE \E s \in Slaves : Finish(s) \/ Leave(s) \/ Exchange(s)
  BY <1>3, ExecuteDoes, RefuseDoes, ExchangeDoes DEF Finish
<1>4. CASE Found \/ GivePdi
  BY <1>1, <1>4, GiveBackDoes DEF Found, GivePdi
<1>5. CASE TakeEeprom
  BY <1>1, <1>5, TakeDoes DEF TakeEeprom
<1>6. CASE ForceControl
  BY <1>1, <1>6, GiveDoes DEF ForceControl
<1>. QED
  BY <1>1, <1>2, <1>3, <1>4, <1>5, <1>6, NodesAlone, NodesLeft DEF Next, Master, CallStep

\* So does the list.
LEMMA ListKept == Shape /\ [Next]_vars => ListShape'
<1>. SUFFICES ASSUME Shape, [Next]_vars PROVE ListShape'
  OBVIOUS
<1>1. prog.s \in Slaves /\ ListShape
  BY DEF Shape, ProgShape, Position
<1>2. CASE Control \/ Wait \/ Value \/ Command \/ Await \/ Data
  BY <1>1, <1>2, ControlDoes, WaitDoes, ValueDoes, CommandDoes, AwaitDoes, DataDoes DEF ListShape
<1>3. CASE \E s \in Slaves : Finish(s) \/ Leave(s) \/ Exchange(s)
  BY <1>1, <1>3, ExecuteDoes, RefuseDoes, ExchangeDoes DEF Finish, ListShape
<1>4. CASE Found \/ GivePdi
  BY <1>1, <1>4, GiveBackDoes DEF Found, GivePdi
<1>5. CASE TakeEeprom
  BY <1>1, <1>5, TakeDoes DEF TakeEeprom
<1>6. CASE Width
  BY <1>1, <1>6, WidthSet DEF Width
<1>7. CASE Collected
  <2>1. FieldNow \in Known
    BY <1>7, FieldNames DEF Collected, FieldNow, Shape, ProgShape, Position, StepsOf, MAPPING, RUNNING,
       FLASHING, READING, ALIASING
  <2>. QED
    BY <1>1, <1>7, <2>1, WordSet DEF Collected
<1>8. CASE SetDefaults \/ Collect \/ Issue \/ Issued \/ LookupSii \/ LookupMapping \/ ReadByte
           \/ ByteRead \/ SectionsRead \/ AskPreOp
  BY <1>1, <1>8 DEF SetDefaults, Collect, Issue, Issued, LookupSii, LookupMapping, ReadByte, GetByte,
     ByteRead, FillCache, SectionsRead, AskPreOp, eepromVars, ListShape
<1>9. CASE (\E s \in Slaves : RecoverSlave(s) \/ Reconfigure(s)) \/ CompareWord \/ GiveAddress
           \/ ForceControl \/ WriteWord \/ Ainc \/ ReadImage \/ WriteAlias \/ Sizing \/ UNCHANGED vars
  BY <1>1, <1>9 DEF RecoverSlave, Reconfigure, CompareWord, GiveAddress, ForceControl, WriteWord,
     Ainc, ReadImage, WriteAlias, Sizing, vars, eepromVars, ListShape
<1>. QED
  BY <1>2, <1>3, <1>4, <1>5, <1>6, <1>7, <1>8, <1>9 DEF Next, Master, CallStep

\* The numbers of the stages.
LEMMA StageNumbers ==
    /\ MAPPING = 9 /\ RUNNING = 10 /\ FLASHING = 11 /\ FLASHED = 12 /\ SIZING = 13
    /\ READING = 14 /\ DUMPED = 15 /\ ALIASING = 16 /\ ALIASED = 17
BY DEF MAPPING, RUNNING, FLASHING, FLASHED, SIZING, READING, DUMPED, ALIASING, ALIASED

\* In which stages a step comes.
LEMMA StageOf ==
    ASSUME NEW stage \in 1 .. 17
    PROVE  /\ "defaults" \in StepsOf(stage) <=> stage = 1
           /\ "width" \in StepsOf(stage) <=> stage = 1
           /\ "issue" \in StepsOf(stage) <=> stage \in 1 .. 7
           /\ "issuing" \in StepsOf(stage) <=> stage \in 1 .. 7
           /\ "collect" \in StepsOf(stage) <=> stage \in 2 .. 8
           /\ "collecting" \in StepsOf(stage) <=> stage \in 2 .. 8
           /\ "sii" \in StepsOf(stage) <=> stage = 8
           /\ "bytes" \in StepsOf(stage) <=> stage \in {8, 9}
           /\ "pdi" \in StepsOf(stage) <=> stage \in {8, 9, 10}
           /\ "preop" \in StepsOf(stage) <=> stage \in {8, 10}
           /\ "map" \in StepsOf(stage) <=> stage = 9
           /\ "idle" \in StepsOf(stage) <=> stage \in {10, 12, 13, 15, 17}
           /\ \A step \in {"control", "id", "man", "rev", "address", "refuse"} :
                 step \in StepsOf(stage) <=> stage = 10
           /\ "force" \in StepsOf(stage) <=> stage \in {11, 14, 16}
           /\ "write" \in StepsOf(stage) <=> stage = 11
           /\ \A step \in {"ainc", "by2", "by4"} : step \in StepsOf(stage) <=> stage = 14
           /\ "alias" \in StepsOf(stage) <=> stage = 16
BY StageNumbers DEF StepsOf

\* The program stays at one of its steps.
LEMMA PositionKept == Shape /\ [Next]_vars => Position'
<1>. SUFFICES ASSUME Shape, [Next]_vars PROVE Position'
  OBVIOUS
<1>1. Position /\ ProgShape
  BY DEF Shape, ProgShape
<1>2. /\ prog.stage \in 1 .. 17 /\ prog.s \in Slaves /\ prog.step \in StepsOf(prog.stage)
      /\ DOMAIN prog = {"stage", "s", "step"}
  BY <1>1, StageNumbers DEF Position
<1>3. \A step : Step(step) /\ step \in StepsOf(prog.stage) => Position'
  BY <1>1, <1>2, StepDoes DEF Position
<1>4. ASSUME NextSlave, prog.stage \in 1 .. MAPPING PROVE Position'
  <2>1. /\ DOMAIN prog' = {"stage", "s", "step"}
        /\ \/ /\ prog.s < SlaveCount /\ prog'.s = prog.s + 1 /\ prog'.stage = prog.stage
              /\ prog'.step = IF prog.stage = 1 THEN "width"
                              ELSE IF prog.stage = MAPPING THEN "map" ELSE "collect"
           \/ /\ prog.s = SlaveCount /\ prog'.s = 1 /\ prog'.stage = prog.stage + 1
              /\ prog'.step = IF prog'.stage = RUNNING THEN "idle"
                              ELSE IF prog'.stage = MAPPING THEN "map" ELSE "collect"
    BY <1>1, <1>4, NextSlaveDoes
  <2>2. prog'.s \in Slaves
    BY <1>2, <2>1, Constants DEF Slaves
  <2>3. prog'.stage \in 1 .. 10
    BY <1>4, <2>1, StageNumbers
  <2>4. prog'.step \in StepsOf(prog'.stage)
    BY <1>4, <2>1, <2>3, StageOf, StageNumbers
  <2>. QED
    BY <2>1, <2>2, <2>3, <2>4, StageNumbers DEF Position
<1>5. prog' = prog => Position'
  BY <1>1 DEF Position
<1>6. CASE \/ CallStep /\ UNCHANGED infoVars
           \/ ReadByte \/ ByteRead \/ Found \/ Sizing \/ UNCHANGED vars
  BY <1>5, <1>6 DEF ReadByte, ByteRead, Found, Sizing, infoVars, vars
<1>7. CASE \E s \in Slaves : (Finish(s) \/ Leave(s)) /\ UNCHANGED infoVars
  BY <1>5, <1>7 DEF infoVars
<1>8. CASE \E s \in Slaves : Exchange(s)
  BY <1>5, <1>8 DEF Exchange
<1>9. CASE SetDefaults \/ Width
  <2>1. prog.step \in {"defaults", "width"} /\ (Step("width") \/ Step("issue"))
    BY <1>9 DEF SetDefaults, Width
  <2>2. "width" \in StepsOf(prog.stage) /\ "issue" \in StepsOf(prog.stage)
    BY <1>2, <2>1, StageOf
  <2>. QED
    BY <1>3, <2>1, <2>2
<1>10. CASE Collect \/ Collected
  <2>1. /\ prog.step \in {"collect", "collecting"}
        /\ Step("collecting") \/ Step(IF prog.stage = 8 THEN "sii" ELSE "issue")
    BY <1>10 DEF Collect, Collected
  <2>2. /\ "collecting" \in StepsOf(prog.stage)
        /\ (IF prog.stage = 8 THEN "sii" ELSE "issue") \in StepsOf(prog.stage)
    BY <1>2, <2>1, StageOf
  <2>. QED
    BY <1>3, <2>1, <2>2
<1>11. CASE Issue \/ Issued
  <2>1. prog.step \in {"issue", "issuing"} /\ (Step("issuing") \/ NextSlave)
    BY <1>11 DEF Issue, Issued
  <2>2. "issuing" \in StepsOf(prog.stage) /\ prog.stage \in 1 .. MAPPING
    BY <1>2, <2>1, StageOf, StageNumbers
  <2>. QED
    BY <1>3, <1>4, <2>1, <2>2
<1>12. CASE LookupSii
  <2>1. prog.step = "sii" /\ (Step("pdi") \/ Step("bytes"))
    BY <1>12 DEF LookupSii
  <2>2. "pdi" \in StepsOf(prog.stage) /\ "bytes" \in StepsOf(prog.stage)
    BY <1>2, <2>1, StageOf
  <2>. QED
    BY <1>3, <2>1, <2>2
<1>13. CASE LookupMapping
  <2>1. prog.step = "map" /\ (NextSlave \/ Step("bytes"))
    BY <1>13 DEF LookupMapping
  <2>2. "bytes" \in StepsOf(prog.stage) /\ prog.stage \in 1 .. MAPPING
    BY <1>2, <2>1, StageOf, StageNumbers
  <2>. QED
    BY <1>3, <1>4, <2>1, <2>2
<1>14. CASE SectionsRead
  <2>1. prog.step = "bytes" /\ Step("pdi")
    BY <1>14 DEF SectionsRead
  <2>2. "pdi" \in StepsOf(prog.stage)
    BY <1>2, <2>1, StageOf
  <2>. QED
    BY <1>3, <2>1, <2>2
<1>15. CASE GivePdi
  <2>1. prog.step = "pdi" /\ IF prog.stage = MAPPING THEN NextSlave ELSE Step("preop")
    BY <1>15 DEF GivePdi
  <2>2. prog.stage = MAPPING => prog.stage \in 1 .. MAPPING
    BY StageNumbers
  <2>3. prog.stage # MAPPING => "preop" \in StepsOf(prog.stage)
    BY <1>2, <2>1, StageOf, StageNumbers
  <2>. QED
    BY <1>3, <1>4, <2>1, <2>2, <2>3
<1>16. CASE AskPreOp
  <2>1. prog.step = "preop" /\ IF prog.stage = RUNNING THEN Step("idle") ELSE NextSlave
    BY <1>16 DEF AskPreOp
  <2>2. prog.stage \in 1 .. RUNNING /\ (prog.stage = RUNNING => "idle" \in StepsOf(prog.stage))
    BY <1>2, <2>1, StageOf, StageNumbers
  <2>3. prog.stage # RUNNING => prog.stage \in 1 .. MAPPING
    BY <2>2, StageNumbers
  <2>. QED
    BY <1>3, <1>4, <2>1, <2>2, <2>3
<1>17. ASSUME NEW s \in Slaves, RecoverSlave(s) \/ Reconfigure(s) PROVE Position'
  <2>1. /\ prog.stage = RUNNING
        /\ \/ prog' = [prog EXCEPT !.s = s, !.step = "control"]
           \/ prog' = [prog EXCEPT !.s = s, !.step = "pdi"]
           \/ prog' = prog
    BY <1>17 DEF RecoverSlave, Reconfigure
  <2>2. /\ DOMAIN prog' = {"stage", "s", "step"} /\ prog'.stage = prog.stage
        /\ prog'.s \in Slaves /\ prog'.step \in {"control", "pdi", prog.step}
    BY <1>2, <2>1
  <2>3. "control" \in StepsOf(prog.stage) /\ "pdi" \in StepsOf(prog.stage)
    BY <1>2, <2>1, StageOf, StageNumbers
  <2>. QED
    BY <1>1, <1>2, <2>2, <2>3 DEF Position
<1>18. CASE TakeEeprom \/ CompareWord \/ GiveAddress
  <2>1. /\ prog.step \in {"control", "id", "man", "rev", "address", "refuse"}
        /\ \E step \in {"id", "man", "rev", "address", "refuse", "idle"} : Step(step)
    BY <1>18 DEF TakeEeprom, CompareWord, GiveAddress, AfterField, Compared
  <2>2. \A step \in {"id", "man", "rev", "address", "refuse", "idle"} : step \in StepsOf(prog.stage)
    BY <1>2, <2>1, StageOf
  <2>. QED
    BY <1>3, <2>1, <2>2
<1>19. CASE ForceControl \/ Ainc
  <2>1. \/ /\ prog.step = "force"
           /\ Step(CASE prog.stage = FLASHING -> "write" [] prog.stage = READING -> "ainc"
                     [] OTHER -> "alias")
        \/ prog.step = "ainc" /\ \E wide \in BOOLEAN : Step(IF wide THEN "by4" ELSE "by2")
    BY <1>19 DEF ForceControl, Ainc
  <2>2. CASE /\ prog.step = "force"
             /\ Step(CASE prog.stage = FLASHING -> "write" [] prog.stage = READING -> "ainc"
                     [] OTHER -> "alias")
    <3>1. prog.stage \in {11, 14, 16}
      BY <1>2, <2>2, StageOf
    <3>2. (CASE prog.stage = FLASHING -> "write" [] prog.stage = READING -> "ainc"
                     [] OTHER -> "alias") \in StepsOf(prog.stage)
      BY <1>2, <3>1, StageOf, StageNumbers
    <3>. QED
      BY <1>3, <2>2, <3>2
  <2>3. CASE prog.step = "ainc" /\ \E wide \in BOOLEAN : Step(IF wide THEN "by4" ELSE "by2")
    <3>1. "by2" \in StepsOf(prog.stage) /\ "by4" \in StepsOf(prog.stage)
      BY <1>2, <2>3, StageOf
    <3>. QED
      BY <1>3, <2>3, <3>1
  <2>. QED
    BY <2>1, <2>2, <2>3
<1>20. CASE WriteWord \/ ReadImage \/ WriteAlias
  <2>1. \/ prog' = prog
        \/ \E stage \in {FLASHED, DUMPED, ALIASED} :
              prog' = [prog EXCEPT !.stage = stage, !.step = "idle"]
        \/ prog' = [prog EXCEPT !.stage = ALIASING, !.step = "force"]
    BY <1>20 DEF WriteWord, ReadImage, WriteAlias
  <2>2. \/ prog' = prog
        \/ /\ DOMAIN prog' = {"stage", "s", "step"} /\ prog'.s = prog.s
           /\ \/ prog'.stage \in {FLASHED, DUMPED, ALIASED} /\ prog'.step = "idle"
              \/ prog'.stage = ALIASING /\ prog'.step = "force"
    BY <1>2, <2>1
  <2>3. \/ prog' = prog
        \/ prog'.stage \in 1 .. 17 /\ prog'.step \in StepsOf(prog'.stage)
    BY <2>2, StageOf, StageNumbers
  <2>. QED
    BY <1>1, <1>2, <2>2, <2>3, StageNumbers DEF Position
<1>. QED
  BY <1>6, <1>7, <1>8, <1>9, <1>10, <1>11, <1>12, <1>13, <1>14, <1>15, <1>16, <1>17, <1>18, <1>19,
     <1>20 DEF Next, Master

\* The other variables of the program keep their types.
LEMMA ProgKept == Shape /\ [Next]_vars => ProgShape'
<1>. SUFFICES ASSUME Shape, [Next]_vars PROVE ProgShape'
  OBVIOUS
<1>. DEFINE Places == address' \in [Slaves -> {"own", "temp", "none"}] /\ asked' \subseteq Slaves
            Counts == disturbed' \subseteq Slaves /\ esislave' \in 0 .. SlaveCount
                      /\ faults' \in 0 .. MaxFaults
            First == prog'.step = "defaults" => prog'.s = 1
<1>1. /\ prog.s \in Slaves /\ prog.stage \in 1 .. 17 /\ ProgShape /\ call.s \in Slaves
      /\ disturbed \subseteq Slaves /\ esislave \in 0 .. SlaveCount /\ faults \in 0 .. MaxFaults
      /\ address \in [Slaves -> {"own", "temp", "none"}] /\ asked \subseteq Slaves
      /\ prog.step = "defaults" => prog.s = 1
  BY StageNumbers DEF Shape, ProgShape, Position, CallShape
<1>2. UNCHANGED <<address, asked>> => Places
  BY <1>1
<1>3. UNCHANGED <<disturbed, esislave, faults>> => Counts
  BY <1>1
<1>4. ASSUME NEW s \in Slaves, Done(s) \/ Lost(s) \/ Gone(s), UNCHANGED esislave PROVE Counts
  BY <1>1, <1>4, FaultsCounted
<1>5. ASSUME NEW s \in Slaves, NEW owner, Given(s, owner), UNCHANGED esislave PROVE Counts
  BY <1>4, <1>5 DEF Given
<1>6. prog'.step # "defaults" \/ prog' = prog => First
  BY <1>1
<1>7. Places /\ Counts /\ First => ProgShape'
  BY PositionKept DEF ProgShape
<1>8. ASSUME NEW step, Step(step) PROVE prog'.step = step
  BY <1>1, <1>8, StepDoes
<1>9. NextSlave /\ prog.stage \in 1 .. MAPPING => prog'.step # "defaults"
  BY <1>1, NextSlaveDoes
<1>10. CASE CallStep /\ UNCHANGED infoVars
  <2>1. Counts
    <3>1. CASE Control
      BY <1>1, <1>3, <1>5, <3>1, ControlDoes
    <3>2. CASE Wait \/ Await
      <4>1. /\ UNCHANGED esislave
            /\ \E status : \E spoilt \in BOOLEAN : Waited(call.s, status, spoilt)
        BY <3>2, WaitDoes, AwaitDoes
      <4>. QED
        BY <1>1, <4>1, WaitsCounted
    <3>3. CASE Value \/ Command \/ Data
      BY <1>1, <1>4, <3>3, ValueDoes, CommandDoes, DataDoes
    <3>. QED
      BY <1>10, <3>1, <3>2, <3>3 DEF CallStep
  <2>. QED
    BY <1>2, <1>6, <1>7, <1>10, <2>1 DEF infoVars
<1>11. CASE SetDefaults
  <2>1. UNCHANGED <<address, asked, esislave>> /\ prog'.step = "width"
    BY <1>11, DefaultsDo
  <2>2. MaxFaults \in Nat
    BY Constants
  <2>3. \/ UNCHANGED <<faults, disturbed>>
        \/ disturbed' = Slaves /\ faults' = faults + 1 /\ faults < MaxFaults
    BY <1>11, DefaultsDo
  <2>4. Counts
    BY <1>1, <2>1, <2>2, <2>3
  <2>. QED
    BY <1>2, <1>6, <1>7, <2>1, <2>4
<1>12. CASE Width
  <2>1. \E s \in Slaves : Done(s) \/ Lost(s) \/ Gone(s)
    BY <1>1, <1>12 DEF Width
  <2>. QED
    BY <1>2, <1>4, <1>6, <1>7, <1>8, <1>12, <2>1 DEF Width
<1>13. CASE Collect \/ Collected \/ Issue \/ Issued
  <2>1. /\ prog.step \in {"collect", "collecting", "issue", "issuing"}
        /\ prog' = prog \/ NextSlave \/ (\E step \in {"collecting", "sii", "issue", "issuing"} : Step(step))
    BY <1>13 DEF Collect, Collected, Issue, Issued
  <2>2. NextSlave => prog.stage \in 1 .. MAPPING
    BY <1>1, <1>13, StageOf, StageNumbers DEF Collect, Collected, Issue, Issued, Step, Shape, ProgShape, Position
  <2>3. UNCHANGED <<address, asked, disturbed, esislave, faults>>
    BY <1>13 DEF Collect, Collected, Issue, Issued
  <2>. QED
    BY <1>2, <1>3, <1>6, <1>7, <1>8, <1>9, <2>1, <2>2, <2>3
<1>14. CASE LookupSii \/ LookupMapping \/ SectionsRead \/ ByteRead
  <2>1. prog' = prog \/ NextSlave \/ (\E step \in {"pdi", "bytes"} : Step(step))
    BY <1>14 DEF LookupSii, LookupMapping, SectionsRead, ByteRead, infoVars
  <2>2. NextSlave => prog.stage \in 1 .. MAPPING \/ (\E step \in {"pdi", "bytes"} : Step(step))
    BY <1>1, <1>14, StageOf, StageNumbers
       DEF LookupSii, LookupMapping, SectionsRead, ByteRead, infoVars, Shape, ProgShape, Position
  <2>3. UNCHANGED <<address, asked, disturbed, esislave, faults>>
    BY <1>14 DEF LookupSii, LookupMapping, SectionsRead, ByteRead, FillCache, infoVars, eepromVars
  <2>. QED
    BY <1>2, <1>3, <1>6, <1>7, <1>8, <1>9, <2>1, <2>2, <2>3
<1>15. CASE ReadByte
  <2>1. esislave' = prog.s /\ UNCHANGED <<prog, address, asked, disturbed, faults>>
    BY <1>15 DEF ReadByte, GetByte, infoVars
  <2>. QED
    BY <1>1, <1>2, <1>6, <1>7, <2>1, Constants DEF Slaves
<1>16. CASE Found \/ GivePdi
  <2>1. Counts
    BY <1>1, <1>3, <1>5, <1>16, GiveBackDoes DEF Found, GivePdi
  <2>2. prog' = prog \/ (NextSlave /\ prog.stage = MAPPING) \/ Step("preop")
    BY <1>16 DEF Found, GivePdi, infoVars
  <2>3. UNCHANGED <<address, asked>>
    BY <1>16 DEF Found, GivePdi, infoVars
  <2>. QED
    BY <1>2, <1>6, <1>7, <1>8, <1>9, <2>1, <2>2, <2>3, StageNumbers
<1>17. CASE AskPreOp
  <2>1. Places
    BY <1>1, <1>17 DEF AskPreOp
  <2>2. prog.step = "preop" /\ (Step("idle") \/ (NextSlave /\ prog.stage # RUNNING))
    BY <1>17 DEF AskPreOp
  <2>3. prog.stage # RUNNING => prog.stage \in 1 .. MAPPING
    BY <1>1, <2>2, StageOf, StageNumbers DEF ProgShape, Position
  <2>. QED
    BY <1>3, <1>6, <1>7, <1>8, <1>9, <1>17, <2>1, <2>2, <2>3 DEF AskPreOp, eepromVars
<1>18. ASSUME NEW s \in Slaves, RecoverSlave(s) \/ Reconfigure(s) PROVE ProgShape'
  <2>1. Places
    BY <1>1, <1>18 DEF RecoverSlave, Reconfigure
  <2>2. Counts
    BY <1>3, <1>4, <1>18 DEF RecoverSlave, Reconfigure, eepromVars
  <2>3. prog' = prog \/ (\E step \in {"control", "pdi"} : prog' = [prog EXCEPT !.s = s, !.step = step])
    BY <1>18 DEF RecoverSlave, Reconfigure
  <2>4. DOMAIN prog = {"stage", "s", "step"}
    BY <1>1 DEF ProgShape, Position
  <2>5. prog' = prog \/ prog'.step # "defaults"
    BY <2>3, <2>4
  <2>. QED
    BY <1>6, <1>7, <2>1, <2>2, <2>5
<1>19. CASE TakeEeprom
  <2>1. Counts
    BY <1>1, <1>3, <1>5, <1>19, TakeDoes DEF TakeEeprom
  <2>. QED
    BY <1>2, <1>6, <1>7, <1>8, <1>19, <2>1 DEF TakeEeprom
<1>20. CASE CompareWord
  <2>1. \E step \in {"refuse", "id", "man", "rev", "address"} : Step(step)
    BY <1>20 DEF CompareWord, AfterField, Compared
  <2>. QED
    BY <1>2, <1>3, <1>6, <1>7, <1>8, <1>20, <2>1 DEF CompareWord
<1>21. CASE GiveAddress
  <2>1. Places
    BY <1>1, <1>21 DEF GiveAddress
  <2>2. Counts
    BY <1>1, <1>4, <1>21 DEF GiveAddress
  <2>. QED
    BY <1>6, <1>7, <1>8, <1>21, <2>1, <2>2 DEF GiveAddress
<1>22. CASE ForceControl \/ Ainc
  <2>1. Counts
    BY <1>1, <1>4, <1>22 DEF ForceControl, Ainc, Give
  <2>2. \E step \in {"write", "ainc", "alias", "by2", "by4"} : Step(step)
    BY <1>22 DEF ForceControl, Ainc
  <2>. QED
    BY <1>2, <1>6, <1>7, <1>8, <1>22, <2>1, <2>2 DEF ForceControl, Ainc
<1>23. CASE WriteWord \/ ReadImage \/ WriteAlias
  <2>1. \/ prog' = prog
        \/ \E stage, step \in {FLASHED, DUMPED, ALIASED, ALIASING, "idle", "force"} :
              /\ prog' = [prog EXCEPT !.stage = stage, !.step = step]
              /\ step \in {"idle", "force"}
    BY <1>23 DEF WriteWord, ReadImage, WriteAlias
  <2>2. DOMAIN prog = {"stage", "s", "step"}
    BY <1>1 DEF ProgShape, Position
  <2>3. prog' = prog \/ prog'.step # "defaults"
    BY <2>1, <2>2
  <2>. QED
    BY <1>2, <1>3, <1>6, <1>7, <1>23, <2>3 DEF WriteWord, ReadImage, WriteAlias
<1>24. ASSUME NEW s \in Slaves, Finish(s) \/ Leave(s), UNCHANGED infoVars PROVE ProgShape'
  <2>1. Counts
    BY <1>1, <1>3, <1>24, ExecuteDoes, RefuseDoes DEF Finish
  <2>. QED
    BY <1>2, <1>6, <1>7, <1>24, <2>1 DEF infoVars
<1>25. ASSUME NEW s \in Slaves, Exchange(s) PROVE ProgShape'
  <2>1. Places
    BY <1>1, <1>25 DEF Exchange
  <2>. QED
    BY <1>3, <1>6, <1>7, <1>25, <2>1, ExchangeDoes
<1>26. CASE Sizing \/ UNCHANGED vars
  BY <1>2, <1>3, <1>6, <1>7, <1>26 DEF Sizing, vars, infoVars, eepromVars
<1>. QED
  BY <1>10, <1>11, <1>12, <1>13, <1>14, <1>15, <1>16, <1>17, <1>18, <1>19, <1>20, <1>21, <1>22,
     <1>23, <1>24, <1>25, <1>26 DEF Next, Master

\* Every step without a call.
LEMMA NoCallFits ==
    ASSUME ProgShape', "none" \in CallsAt(prog'.step), call' = NoCall
    PROVE  CallShape'
<1>1. 1 \in Slaves /\ MaxNacks \in Nat /\ MaxNacks > 0
  BY Constants
<1>2. "done" \in PointsOf("none")
  BY DEF PointsOf
<1>3. /\ DOMAIN call' = DOMAIN NoCall /\ call'.op = "none" /\ call'.pc = "done" /\ call'.s = 1
      /\ call'.nacks = 0 /\ call'.r64 = FALSE /\ call'.ok = FALSE /\ call'.a = 0
      /\ DOMAIN call'.res = 0 .. 3
  BY NoCallIs, RecordFields
<1>4. call'.op \in CallsAt(prog'.step) /\ call'.pc \in PointsOf(call'.op) /\ call'.nacks \in 0 .. MaxNacks
  BY <1>1, <1>2, <1>3
<1>5. /\ call'.op # "issue" /\ call'.op # "word" /\ call'.op # "byte" /\ call'.op # "write"
      /\ call'.pc \notin {"control", "wait", "value", "command", "await"}
      /\ call'.a \in Nat
  BY <1>3
<1>6. CallShape' <=>
        /\ DOMAIN call' = DOMAIN NoCall
        /\ call'.op \in CallsAt(prog'.step) /\ call'.pc \in PointsOf(call'.op)
        /\ call'.s \in Slaves
        /\ call'.op # "none" => call'.s = prog'.s
        /\ call'.op = "none" => call' = NoCall
        /\ call'.nacks \in 0 .. MaxNacks
        /\ call'.r64 \in BOOLEAN /\ call'.ok \in BOOLEAN
        /\ DOMAIN call'.res = 0 .. 3
  BY <1>5 DEF CallShape
<1>. QED
  BY <1>1, <1>3, <1>4, <1>6

\* Every step that begins a call.
LEMMA BegunFits ==
    ASSUME ProgShape', NEW op \in {"collect", "issue", "word", "byte", "dump", "write"},
           op \in CallsAt(prog'.step), NEW a \in Nat, NEW value,
           Begin(op, prog'.s, a, value),
           op = "issue" => a = ECT_SII[Fields[prog'.stage]],
           op = "word" => a = ECT_SII[prog'.step],
           op = "byte" => esislave' = prog'.s,
           op = "write" => IF prog'.stage = FLASHING THEN a \in DOMAIN Image /\ value = Image[a]
                           ELSE \/ a = 4 /\ value = Alias
                                \/ a = 7 /\ value = Checksum([ebuf' EXCEPT ![4] = Alias])
    PROVE  CallShape'
<1>1. 1 \in Slaves /\ MaxNacks \in Nat /\ MaxNacks > 0
  BY Constants
<1>2. (IF op \in {"collect", "write", "dump"} THEN "wait" ELSE "control") \in PointsOf(op)
  BY DEF PointsOf
<1>3. prog'.s \in Slaves
  BY DEF ProgShape, Position
<1>4. DOMAIN NoData = 0 .. 3
  BY RecordFields
<1>5. /\ DOMAIN call' = DOMAIN NoCall
      /\ call'.op = op /\ call'.s = prog'.s /\ call'.a = a /\ call'.value = value
      /\ call'.pc = (IF op \in {"collect", "write", "dump"} THEN "wait" ELSE "control")
      /\ call'.nacks = 0 /\ call'.r64 = FALSE /\ call'.ok = FALSE /\ call'.res = NoData
  BY BeginDoes
<1>6. call'.op \in CallsAt(prog'.step) /\ call'.pc \in PointsOf(call'.op) /\ call'.nacks \in 0 .. MaxNacks
  BY <1>1, <1>2, <1>5
<1>7. op = "write" => IF prog'.stage = FLASHING THEN a \in DOMAIN Image /\ value = Image[a]
                      ELSE \/ a = 4 /\ value = Alias
                           \/ a = 7 /\ value = Checksum([ebuf' EXCEPT ![4] = Alias])
  OBVIOUS
<1>. DEFINE sum == Checksum([ebuf' EXCEPT ![4] = Alias])
<1>8. call'.op = "write" =>
          IF prog'.stage = FLASHING THEN call'.a \in DOMAIN Image /\ call'.value = Image[call'.a]
          ELSE \/ call'.a = 4 /\ call'.value = Alias
               \/ call'.a = 7 /\ call'.value = sum
  <2>1. CASE op = "write"
    <3>1. CASE prog'.stage = FLASHING
      BY <1>5, <1>7, <2>1, <3>1
    <3>2. CASE prog'.stage # FLASHING
      <4>1. (a = 4 /\ value = Alias) \/ (a = 7 /\ value = sum)
        BY <1>7, <2>1, <3>2
      <4>. HIDE DEF sum
      <4>. QED
        BY <1>5, <2>1, <3>2, <4>1
    <3>. QED
      BY <3>1, <3>2
  <2>2. CASE op # "write"
    BY <1>5, <2>2
  <2>. QED
    BY <2>1, <2>2
<1>9. /\ call'.op # "none" /\ call'.a \in Nat
      /\ call'.op = "issue" => call'.a = ECT_SII[Fields[prog'.stage]]
      /\ call'.op = "word" => call'.a = ECT_SII[prog'.step]
      /\ call'.op = "byte" => esislave' = call'.s
  BY <1>5
<1>. HIDE DEF sum
<1>. QED
  BY <1>1, <1>3, <1>4, <1>5, <1>6, <1>8, <1>9 DEF CallShape, sum

\* Where the fields of the header are.
LEMMA FieldPlaces ==
    /\ ECT_SII["man"] = 8 /\ ECT_SII["id"] = 10 /\ ECT_SII["rev"] = 12 /\ ECT_SII["sn"] = 14
    /\ ECT_SII["mbx"] = 24 /\ ECT_SII["ro"] = 26 /\ ECT_SII["proto"] = 28
    /\ \A f \in Known : ECT_SII[f] \in Nat
    /\ \A n \in 1 .. 7 : Fields[n] \in Known
<1>1. /\ ECT_SII["man"] = 8 /\ ECT_SII["id"] = 10 /\ ECT_SII["rev"] = 12 /\ ECT_SII["sn"] = 14
      /\ ECT_SII["mbx"] = 24 /\ ECT_SII["ro"] = 26 /\ ECT_SII["proto"] = 28
  BY DEF ECT_SII
<1>2. \A f \in Known : ECT_SII[f] \in Nat
  BY <1>1, FieldNames
<1>. QED
  BY <1>1, <1>2, FieldNames DEF Known

\* The tool begins with the first word of its image.
LEMMA ImageAddress ==
    /\ call.op = "none" => NextAddress \in DOMAIN Image /\ \A a \in DOMAIN Image : NextAddress <= a
    /\ call.op = "write" => NextAddress = call.a + 1
<1>1. PICK a, b \in DOMAIN Image : DOMAIN Image = a .. b
  BY InfoAssumption
<1>2. a \in Nat /\ b \in Nat /\ \A x \in DOMAIN Image : x \in Nat /\ a <= x
  BY <1>1, Constants
<1>3. \E x \in DOMAIN Image : \A y \in DOMAIN Image : x <= y
  BY <1>1, <1>2
<1>. QED
  BY <1>3 DEF NextAddress, Written

\* A call that goes on.
LEMMA GoneOnFits ==
    ASSUME Shape, ProgShape', SameCall, UNCHANGED <<prog, esislave, ebuf>>,
           call'.pc \in PointsOf(call.op), call.op # "none",
           call'.nacks \in 0 .. MaxNacks,
           call'.pc \in {"control", "wait", "value", "command", "await"} => call'.nacks < MaxNacks,
           call'.r64 \in BOOLEAN, call'.ok \in BOOLEAN, DOMAIN call'.res = 0 .. 3
    PROVE  CallShape'
BY DEF Shape, CallShape, SameCall

\* How often a command is repeated.
LEMMA AgainCounts ==
    ASSUME NEW nacks \in 0 .. MaxNacks
    PROVE  /\ Again(nacks) \in {"value", "command", "done"}
           /\ Again(nacks) = "value" => call.op = "write"
           /\ Again(nacks) = "command" => call.op # "write"
           /\ Again(nacks) # "done" => nacks < MaxNacks
BY Constants DEF Again
\* A count below the limit stays within it when one more answer is counted.
LEMMA CountsOn ==
    ASSUME NEW status, call.nacks \in 0 .. MaxNacks, call.nacks < MaxNacks
    PROVE  Count(status) \in 0 .. MaxNacks
BY Constants DEF Count, Refused

\* A step of a call keeps the shape of the call.
LEMMA CallStepsFit == Shape /\ ProgShape' /\ CallStep /\ UNCHANGED infoVars => CallShape'
<1>. SUFFICES ASSUME Shape, ProgShape', CallStep, UNCHANGED infoVars PROVE CallShape'
  OBVIOUS
<1>1. UNCHANGED <<prog, ebuf>>
  BY DEF infoVars
<1>2. /\ call.op \in CallsAt(prog.step) /\ call.pc \in PointsOf(call.op)
      /\ call.nacks \in 0 .. MaxNacks /\ call.r64 \in BOOLEAN /\ call.ok \in BOOLEAN
      /\ call.pc \in {"control", "wait", "value", "command", "await"} => call.nacks < MaxNacks
      /\ DOMAIN call.res = 0 .. 3
      /\ call.op = "none" => call.pc = "done"
  BY NoCallIs DEF Shape, CallShape
<1>3. call.op \in {"none", "collect", "issue", "word", "byte", "write", "dump"}
  BY <1>2 DEF CallsAt, Identity
<1>4. call.pc # "done"
  BY DEF CallStep, Control, Wait, Value, Command, Await, Data
<1>5. call.op # "none"
  BY <1>2, <1>4
<1>6. CASE Control
  <2>1. "wait" \in PointsOf(call.op) /\ SameCallButPc /\ call'.pc = "wait" /\ call.pc = "control"
    BY <1>2, <1>3, <1>6, ControlDoes DEF PointsOf
  <2>2. esislave' = esislave
    BY <1>6, ControlDoes
  <2>. QED
    BY <1>1, <1>2, <1>5, <2>1, <2>2, GoneOnFits DEF SameCallButPc
<1>7. CASE Wait
  <2>1. SameCallButPc /\ call.pc = "wait" /\ esislave' = esislave
    BY <1>7, WaitDoes
  <2>2. \/ call'.pc = "done"
        \/ call'.pc = IF call.op = "collect" THEN "data"
                      ELSE IF call.op = "write" THEN "value" ELSE "command"
    BY <1>7, WaitDoes
  <2>3. call'.pc \in PointsOf(call.op)
    BY <1>3, <1>5, <2>2 DEF PointsOf
  <2>. QED
    BY <1>1, <1>2, <1>5, <2>1, <2>2, <2>3, GoneOnFits DEF SameCallButPc
<1>8. CASE Value
  <2>1. SameCallButPc /\ call'.pc = "command" /\ call.pc = "value" /\ esislave' = esislave
    BY <1>8, ValueDoes
  <2>2. "command" \in PointsOf(call.op)
    BY <1>2, <1>3, <2>1 DEF PointsOf
  <2>. QED
    BY <1>1, <1>2, <1>5, <2>1, <2>2, GoneOnFits DEF SameCallButPc
<1>9. CASE Command
  <2>1. /\ SameCallButPc /\ call.pc = "command" /\ esislave' = esislave
        /\ call'.pc \in {IF call.op = "issue" THEN "done" ELSE "await",
                         IF call.op = "issue" THEN "done" ELSE Again(call.nacks)}
    BY <1>9, CommandDoes
  <2>2. call'.pc \in PointsOf(call.op)
    BY <1>2, <1>3, <2>1, AgainCounts DEF PointsOf
  <2>. QED
    BY <1>1, <1>2, <1>5, <2>1, <2>2, GoneOnFits DEF SameCallButPc
<1>10. CASE Await
  <2>1. /\ SameCall /\ call.pc = "await" /\ call'.res = call.res /\ esislave' = esislave
        /\ \E status \in {"silent", "idle", "nack", "busy"} :
                 /\ call'.nacks = Count(status)
                 /\ call'.r64 = (call.s \in EightByte /\ status # "silent")
                 /\ call'.ok = (call.op = "write" /\ ~Refused(status) /\ status # "busy")
                 /\ call'.pc = IF Refused(status) \/ status = "busy" THEN Again(Count(status))
                               ELSE IF call.op = "write" THEN "done" ELSE "data"
    BY <1>10, AwaitDoes
  <2>2. PICK status \in {"silent", "idle", "nack", "busy"} :
                 /\ call'.nacks = Count(status)
                 /\ call'.r64 = (call.s \in EightByte /\ status # "silent")
                 /\ call'.ok = (call.op = "write" /\ ~Refused(status) /\ status # "busy")
                 /\ call'.pc = IF Refused(status) \/ status = "busy" THEN Again(Count(status))
                               ELSE IF call.op = "write" THEN "done" ELSE "data"
    BY <2>1
  <2>3. call'.nacks \in 0 .. MaxNacks
    BY <1>2, <2>1, <2>2, CountsOn
  <2>4. /\ call'.pc \in PointsOf(call.op)
        /\ call'.pc \in {"control", "wait", "value", "command", "await"} => call'.nacks < MaxNacks
    BY <1>2, <1>3, <2>1, <2>2, <2>3, AgainCounts DEF PointsOf
  <2>5. call'.r64 \in BOOLEAN /\ call'.ok \in BOOLEAN
    BY <2>2
  <2>. QED
    BY <1>1, <1>2, <1>5, <2>1, <2>3, <2>4, <2>5, GoneOnFits
<1>11. CASE Data
  <2>1. /\ SameCall /\ call'.pc = "done" /\ call.pc = "data" /\ esislave' = esislave
        /\ call'.nacks = call.nacks /\ call'.r64 = call.r64 /\ call'.ok = call.ok
        /\ call'.res = Partly(node[call.s].reg, call.r64) \/ call'.res = call.res
    BY <1>11, DataDoes
  <2>2. "done" \in PointsOf(call.op) /\ DOMAIN call'.res = 0 .. 3
    BY <1>2, <1>3, <2>1 DEF PointsOf, Partly
  <2>. QED
    BY <1>1, <1>2, <1>5, <2>1, <2>2, GoneOnFits
<1>. QED
  BY <1>6, <1>7, <1>8, <1>9, <1>10, <1>11 DEF CallStep

-----------------------------------------------------------------------------
(* The steps of the program, field by field.                                *)

\* In which stage the program is at each step.
LEMMA WhereAt ==
    ASSUME Position
    PROVE  /\ prog.stage \in 1 .. 17 /\ prog.s \in Slaves
           /\ prog.step \in {"defaults", "width"} => prog.stage = 1
           /\ prog.step \in {"issue", "issuing"} => prog.stage \in 1 .. 7
           /\ prog.step \in {"collect", "collecting"} => prog.stage \in 2 .. 8
           /\ prog.step = "sii" => prog.stage = 8
           /\ prog.step = "bytes" => prog.stage \in {8, 9}
           /\ prog.step = "pdi" => prog.stage \in {8, 9, 10}
           /\ prog.step = "preop" => prog.stage \in {8, 10}
           /\ prog.step = "map" => prog.stage = 9
           /\ prog.step = "idle" => prog.stage \in {10, 12, 13, 15, 17}
           /\ prog.step \in {"control", "id", "man", "rev", "address", "refuse"} => prog.stage = 10
           /\ prog.step = "force" => prog.stage \in {11, 14, 16}
           /\ prog.step = "write" => prog.stage = 11
           /\ prog.step \in {"ainc", "by2", "by4"} => prog.stage = 14
           /\ prog.step = "alias" => prog.stage = 16
BY StageOf, StageNumbers DEF Position

\* Which call is under way.
LEMMA CallNow ==
    ASSUME CallShape
    PROVE  /\ call.s \in Slaves
           /\ prog.step \notin {"collecting", "issuing", "id", "man", "rev", "bytes", "write",
                                "alias", "by2", "by4"} => call.op = "none"
           /\ call.op = "none" => call = NoCall /\ call.pc = "done"
           /\ call.op # "none" => call.s = prog.s
           /\ prog.step = "collecting" <=> call.op = "collect"
           /\ prog.step = "issuing" <=> call.op = "issue"
           /\ prog.step \in Identity <=> call.op = "word"
           /\ prog.step = "bytes" => call.op \in {"none", "byte"}
           /\ call.op = "byte" => prog.step = "bytes"
           /\ prog.step \in {"write", "alias"} => call.op \in {"none", "write"}
           /\ call.op = "write" => prog.step \in {"write", "alias"}
           /\ prog.step \in {"by2", "by4"} => call.op \in {"none", "dump"}
           /\ call.op = "dump" => prog.step \in {"by2", "by4"}
BY NoCallIs DEF CallShape, CallsAt, Identity

\* Only prog.step changes; or the program goes on with the next slave.
StepTo(step) ==
    /\ DOMAIN prog' = {"stage", "s", "step"} /\ prog'.step = step
    /\ prog'.stage = prog.stage /\ prog'.s = prog.s
GoesOn ==
    /\ DOMAIN prog' = {"stage", "s", "step"}
    /\ \/ /\ prog.s < SlaveCount /\ prog'.s = prog.s + 1 /\ prog'.stage = prog.stage
          /\ prog'.step = IF prog.stage = 1 THEN "width"
                          ELSE IF prog.stage = MAPPING THEN "map" ELSE "collect"
       \/ /\ prog.s = SlaveCount /\ prog'.s = 1 /\ prog'.stage = prog.stage + 1
          /\ prog'.step = IF prog'.stage = RUNNING THEN "idle"
                          ELSE IF prog'.stage = MAPPING THEN "map" ELSE "collect"

\* What a step of the program needs to know of where it is.
LEMMA ProgIs ==
    ASSUME Shape
    PROVE  /\ ProgShape /\ Position /\ CallShape /\ NodeShape /\ ListShape /\ StoreShape
           /\ prog.s \in Slaves /\ call.s \in Slaves
           /\ \A step : Step(step) => StepTo(step)
           /\ NextSlave /\ prog.stage \in 1 .. 9 => GoesOn
<1>1. ProgShape /\ Position /\ CallShape /\ NodeShape /\ ListShape /\ StoreShape
  BY DEF Shape, ProgShape
<1>2. \A step : Step(step) => StepTo(step)
  BY <1>1, StepDoes DEF StepTo
<1>3. NextSlave /\ prog.stage \in 1 .. 9 => GoesOn
  BY <1>1, NextSlaveDoes, StageNumbers DEF GoesOn
<1>. QED
  BY <1>1, <1>2, <1>3, CallNow, WhereAt

\* The width of the data register is noted; a random one, if the exchange fails.
LEMMA WidthDoes ==
    ASSUME Shape, Width
    PROVE  /\ prog.step = "width" /\ prog.stage = 1 /\ StepTo("issue")
           /\ \A t \in Slaves : /\ slavelist'[t].word = slavelist[t].word
                                /\ slavelist'[t].eep_pdi = slavelist[t].eep_pdi
           /\ \A t \in Slaves \ {prog.s} : slavelist'[t] = slavelist[t]
           /\ slavelist'[prog.s].eep_8byte \in BOOLEAN
           /\ \/ Done(prog.s) /\ slavelist'[prog.s].eep_8byte = (prog.s \in EightByte)
              \/ Lost(prog.s) \/ Gone(prog.s)
           /\ UNCHANGED <<node, store, esislave, esibuf, call, first, asked, address, ebuf>>
BY ProgIs, WhereAt, WidthSet DEF Width

\* A word of the slave is asked for.
LEMMA IssueDoes ==
    ASSUME Shape, Issue
    PROVE  /\ prog.step = "issue" /\ prog.stage \in 1 .. 7
           /\ call = NoCall /\ call.op = "none"
           /\ \/ /\ Wanted(prog.s, Fields[prog.stage]) /\ StepTo("issuing")
                 /\ Begin("issue", prog.s, ECT_SII[Fields[prog.stage]], Zero)
              \/ /\ ~Wanted(prog.s, Fields[prog.stage]) /\ GoesOn /\ UNCHANGED call
           /\ UNCHANGED <<node, store, slavelist, esislave, esibuf, faults, disturbed,
                          first, asked, address, ebuf>>
<1>1. prog.step = "issue" /\ prog.stage \in 1 .. 7
  BY ProgIs, WhereAt DEF Issue
<1>2. call = NoCall /\ call.op = "none"
  BY <1>1, ProgIs, CallNow
<1>3. prog.stage \in 1 .. 9
  BY <1>1
<1>. QED
  BY <1>1, <1>2, <1>3, ProgIs DEF Issue

\* It has been asked for.
LEMMA IssuedDoes ==
    ASSUME Shape, Issued
    PROVE  /\ prog.step = "issuing" /\ prog.stage \in 1 .. 7
           /\ call.op = "issue" /\ call.pc = "done" /\ call.s = prog.s /\ call' = NoCall
           /\ GoesOn
           /\ UNCHANGED <<node, store, slavelist, esislave, esibuf, faults, disturbed,
                          first, asked, address, ebuf>>
<1>1. prog.step = "issuing" /\ prog.stage \in 1 .. 7
  BY ProgIs, WhereAt DEF Issued
<1>2. call.op = "issue" /\ call.s = prog.s
  BY <1>1, ProgIs, CallNow
<1>3. prog.stage \in 1 .. 9
  BY <1>1
<1>. QED
  BY <1>1, <1>2, <1>3, ProgIs DEF Issued, Idle

\* It is collected, unless it is not there.
LEMMA CollectDoes ==
    ASSUME Shape, Collect
    PROVE  /\ prog.step = "collect" /\ prog.stage \in 2 .. 8
           /\ call = NoCall /\ call.op = "none"
           /\ \/ /\ Wanted(prog.s, FieldNow) /\ StepTo("collecting")
                 /\ Begin("collect", prog.s, 0, Zero)
              \/ /\ ~Wanted(prog.s, FieldNow) /\ UNCHANGED call
                 /\ StepTo(IF prog.stage = 8 THEN "sii" ELSE "issue")
           /\ UNCHANGED <<node, store, slavelist, esislave, esibuf, faults, disturbed,
                          first, asked, address, ebuf>>
<1>1. prog.step = "collect" /\ prog.stage \in 2 .. 8
  BY ProgIs, WhereAt DEF Collect
<1>2. call = NoCall /\ call.op = "none"
  BY <1>1, ProgIs, CallNow
<1>. QED
  BY <1>1, <1>2, ProgIs DEF Collect, FieldNow

\* It has been collected and is filed.
LEMMA CollectedDoes ==
    ASSUME Shape, Collected
    PROVE  /\ prog.step = "collecting" /\ prog.stage \in 2 .. 8
           /\ call.op = "collect" /\ call.pc = "done" /\ call.s = prog.s /\ call' = NoCall
           /\ StepTo(IF prog.stage = 8 THEN "sii" ELSE "issue")
           /\ FieldNow \in Known /\ FieldNow = Fields[prog.stage - 1]
           /\ slavelist'[prog.s].word[FieldNow] = <<call.res[0], call.res[1]>>
           /\ \A g \in Known \ {FieldNow} : slavelist'[prog.s].word[g] = slavelist[prog.s].word[g]
           /\ \A t \in Slaves : /\ slavelist'[t].eep_8byte = slavelist[t].eep_8byte
                                /\ slavelist'[t].eep_pdi = slavelist[t].eep_pdi
           /\ \A t \in Slaves \ {prog.s} : slavelist'[t] = slavelist[t]
           /\ UNCHANGED <<node, store, esislave, esibuf, faults, disturbed,
                          first, asked, address, ebuf>>
<1>1. prog.step = "collecting" /\ prog.stage \in 2 .. 8
  BY ProgIs, WhereAt DEF Collected
<1>2. call.op = "collect" /\ call.s = prog.s
  BY <1>1, ProgIs, CallNow
<1>3. FieldNow \in Known
  BY <1>1, FieldNames DEF FieldNow
<1>4. /\ slavelist' = [slavelist EXCEPT ![prog.s].word[FieldNow] = <<call.res[0], call.res[1]>>]
      /\ call.pc = "done"
  BY DEF Collected, Idle
<1>5. FieldNow = Fields[prog.stage - 1]
  BY DEF FieldNow
<1>6. StepTo(IF prog.stage = 8 THEN "sii" ELSE "issue")
  BY ProgIs DEF Collected
<1>. DEFINE v == <<call.res[0], call.res[1]>>
            w == [slavelist[prog.s].word EXCEPT ![FieldNow] = v]
            e == [slavelist[prog.s] EXCEPT !.word = w]
<1>7. /\ slavelist'[prog.s].word[FieldNow] = v
      /\ \A g \in Known \ {FieldNow} : slavelist'[prog.s].word[g] = slavelist[prog.s].word[g]
      /\ \A t \in Slaves : /\ slavelist'[t].eep_8byte = slavelist[t].eep_8byte
                           /\ slavelist'[t].eep_pdi = slavelist[t].eep_pdi
      /\ \A t \in Slaves \ {prog.s} : slavelist'[t] = slavelist[t]
  <2>. HIDE DEF v
  <2>1. /\ DOMAIN slavelist = Slaves /\ prog.s \in Slaves
        /\ DOMAIN slavelist[prog.s] = {"eep_pdi", "eep_8byte", "word"}
        /\ DOMAIN slavelist[prog.s].word = Known
    BY ProgIs DEF ListShape
  <2>2. w[FieldNow] = v /\ \A g \in Known \ {FieldNow} : w[g] = slavelist[prog.s].word[g]
    BY <1>3, <2>1
  <2>3. slavelist' = [slavelist EXCEPT ![prog.s] = e]
    BY <1>4 DEF v
  <2>. HIDE DEF w
  <2>4. /\ e.eep_pdi = slavelist[prog.s].eep_pdi /\ e.eep_8byte = slavelist[prog.s].eep_8byte
        /\ e.word = w
    BY <2>1
  <2>. HIDE DEF e
  <2>5. slavelist'[prog.s] = e /\ \A t \in Slaves \ {prog.s} : slavelist'[t] = slavelist[t]
    BY <2>1, <2>3
  <2>. QED
    BY <2>2, <2>4, <2>5
<1>. QED
  BY <1>1, <1>2, <1>3, <1>4, <1>5, <1>6, <1>7 DEF Collected

\* The lookups for an earlier slave of the same kind.
LEMMA LookupsDo ==
    ASSUME Shape, LookupSii \/ LookupMapping
    PROVE  /\ call = NoCall /\ call.op = "none"
           /\ \/ prog.step = "sii" /\ prog.stage = 8 /\ (StepTo("pdi") \/ StepTo("bytes"))
              \/ prog.step = "map" /\ prog.stage = 9 /\ (GoesOn \/ StepTo("bytes"))
           /\ UNCHANGED <<eepromVars, first, asked, address, ebuf>>
<1>1. \/ prog.step = "sii" /\ prog.stage = 8 /\ (Step("pdi") \/ Step("bytes"))
      \/ prog.step = "map" /\ prog.stage = 9 /\ (NextSlave \/ Step("bytes"))
  BY ProgIs, WhereAt DEF LookupSii, LookupMapping
<1>2. call = NoCall /\ call.op = "none"
  BY <1>1, ProgIs, CallNow
<1>3. prog.stage \in 1 .. 9
  BY <1>1
<1>. QED
  BY <1>1, <1>2, <1>3, ProgIs DEF LookupSii, LookupMapping

\* A byte of the sections is asked for.
LEMMA ReadByteDoes ==
    ASSUME Shape, ReadByte
    PROVE  /\ prog.step = "bytes" /\ prog.stage \in {8, 9} /\ call.pc = "done"
           /\ esislave' = prog.s /\ esibuf' = FreshCache(prog.s)
           /\ \E a \in Nat : Begin("byte", prog.s, a, Zero)
           /\ UNCHANGED <<node, store, slavelist, faults, disturbed, infoVars>>
<1>1. prog.step = "bytes" /\ prog.stage \in {8, 9}
  BY ProgIs, WhereAt DEF ReadByte
<1>2. PICK b \in SiiBytes : ~Cached(prog.s, b) /\ GetByte(prog.s, b)
  BY DEF ReadByte
<1>3. b \div 2 \in Nat
  BY Constants
<1>4. \E a \in Nat : Begin("byte", prog.s, a, Zero)
  BY <1>2, <1>3 DEF GetByte
<1>. QED
  BY <1>1, <1>2, <1>4 DEF GetByte, Idle, ReadByte

\* It has come into the cache.
LEMMA ByteReadDoes ==
    ASSUME Shape, ByteRead
    PROVE  /\ prog.step = "bytes" /\ prog.stage \in {8, 9}
           /\ call.op = "byte" /\ call.pc = "done" /\ call.s = prog.s /\ call' = NoCall
           /\ esibuf' = Filled
           /\ UNCHANGED <<node, store, slavelist, esislave, faults, disturbed, infoVars>>
BY ProgIs, WhereAt, CallNow DEF ByteRead, FillCache, Idle

\* The sections have been read.
LEMMA SectionsReadDoes ==
    ASSUME Shape, SectionsRead
    PROVE  /\ prog.step = "bytes" /\ prog.stage \in {8, 9} /\ StepTo("pdi")
           /\ call = NoCall /\ call.op = "none"
           /\ UNCHANGED <<eepromVars, first, asked, address, ebuf>>
BY ProgIs, WhereAt, CallNow DEF SectionsRead

\* The EEPROM is given to the firmware in between, or at the end.
LEMMA GivesPdi ==
    ASSUME Shape, Found \/ GivePdi
    PROVE  /\ call = NoCall /\ call.op = "none"
           /\ \/ prog.step = "bytes" /\ prog.stage = 9 /\ UNCHANGED prog
              \/ prog.step = "pdi" /\ prog.stage = 9 /\ GoesOn
              \/ prog.step = "pdi" /\ prog.stage \in {8, 10} /\ StepTo("preop")
           /\ SameButOwner(prog.s) /\ SameButFlag(prog.s) /\ slavelist'[prog.s].eep_pdi
           /\ IF ~slavelist[prog.s].eep_pdi THEN Given(prog.s, "pdi")
              ELSE UNCHANGED <<node, slavelist, faults, disturbed>>
           /\ UNCHANGED <<store, esislave, esibuf, call, first, asked, address, ebuf>>
<1>1. CASE Found
  <2>1. prog.step = "bytes" /\ prog.stage = 9 /\ call.op = "none" /\ eeprom2pdi(prog.s)
    BY <1>1, StageNumbers DEF Found
  <2>. QED
    BY <1>1, <2>1, ProgIs, CallNow, GiveBackDoes DEF Found, infoVars
<1>2. CASE GivePdi
  <2>1. prog.step = "pdi" /\ prog.stage \in {8, 9, 10} /\ eeprom2pdi(prog.s)
    BY <1>2, ProgIs, WhereAt DEF GivePdi
  <2>2. call = NoCall /\ call.op = "none"
    BY <2>1, ProgIs, CallNow
  <2>3. \/ prog.stage = 9 /\ GoesOn
        \/ prog.stage \in {8, 10} /\ StepTo("preop")
    BY <1>2, <2>1, ProgIs, StageNumbers DEF GivePdi
  <2>. QED
    BY <1>2, <2>1, <2>2, <2>3, ProgIs, GiveBackDoes DEF GivePdi
<1>. QED
  BY <1>1, <1>2

\* The slave is asked for PRE_OP.
LEMMA AskPreOpDoes ==
    ASSUME Shape, AskPreOp
    PROVE  /\ prog.step = "preop" /\ call = NoCall /\ call.op = "none"
           /\ asked' = IF node[prog.s].present THEN asked \cup {prog.s} ELSE asked
           /\ \/ prog.stage = 10 /\ StepTo("idle")
              \/ prog.stage = 8 /\ GoesOn
           /\ UNCHANGED <<eepromVars, first, address, ebuf>>
<1>1. prog.step = "preop" /\ prog.stage \in {8, 10}
  BY ProgIs, WhereAt DEF AskPreOp
<1>2. call = NoCall /\ call.op = "none"
  BY <1>1, ProgIs, CallNow
<1>. QED
  BY <1>1, <1>2, ProgIs, StageNumbers DEF AskPreOp

\* A board gets the temporary address, and who has it loses it, or this fails.
LEMMA RecoverSlaveDoes ==
    ASSUME Shape, NEW s \in Slaves, RecoverSlave(s)
    PROVE  /\ prog.stage = 10 /\ prog.step = "idle" /\ node[s].present /\ address[s] = "none"
           /\ DOMAIN address' = Slaves
           /\ \A t \in Slaves \ {s} :
                 address'[t] = IF address[t] = "temp" THEN "none" ELSE address[t]
           /\ \/ /\ Done(s) /\ address'[s] = "temp"
                 /\ DOMAIN prog' = {"stage", "s", "step"} /\ prog'.stage = 10
                 /\ prog'.s = s /\ prog'.step = "control"
              \/ Lost(s) /\ UNCHANGED prog /\ address'[s] = "none"
           /\ UNCHANGED <<node, store, slavelist, esislave, esibuf, call, first, asked, ebuf>>
<1>1. DOMAIN prog = {"stage", "s", "step"} /\ DOMAIN address = Slaves
  BY DEF Shape, ProgShape, Position
<1>2. prog.stage = 10
  BY StageNumbers DEF RecoverSlave
<1>. DEFINE cleared == [i \in Slaves |-> IF address[i] = "temp" THEN "none" ELSE address[i]]
<1>3. \/ /\ Done(s) /\ address' = [cleared EXCEPT ![s] = "temp"]
         /\ prog' = [prog EXCEPT !.s = s, !.step = "control"]
      \/ Lost(s) /\ address' = cleared /\ UNCHANGED prog
  BY DEF RecoverSlave
<1>. QED
  BY <1>1, <1>2, <1>3 DEF RecoverSlave

\* A slave that lost its state is configured again.
LEMMA ReconfigureDoes ==
    ASSUME Shape, NEW s \in Slaves, Reconfigure(s)
    PROVE  /\ prog.stage = 10 /\ prog.step = "idle" /\ node[s].present /\ address[s] = "own"
           /\ s \notin asked
           /\ DOMAIN prog' = {"stage", "s", "step"} /\ prog'.stage = 10
           /\ prog'.s = s /\ prog'.step = "pdi"
           /\ UNCHANGED <<eepromVars, first, asked, address, ebuf>>
<1>1. DOMAIN prog = {"stage", "s", "step"}
  BY DEF Shape, ProgShape, Position
<1>. QED
  BY <1>1, StageNumbers DEF Reconfigure

\* The EEPROM of a board is taken, and its number asked for.
LEMMA TakeEepromDoes ==
    ASSUME Shape, TakeEeprom
    PROVE  /\ prog.step = "control" /\ prog.stage = 10 /\ call = NoCall /\ call.op = "none"
           /\ StepTo("id") /\ Begin("word", prog.s, ECT_SII["id"], Zero)
           /\ SameButOwner(prog.s) /\ SameButFlag(prog.s) /\ ~slavelist'[prog.s].eep_pdi
           /\ IF slavelist[prog.s].eep_pdi THEN Given(prog.s, "master")
              ELSE UNCHANGED <<node, slavelist, faults, disturbed>>
           /\ UNCHANGED <<store, esislave, esibuf, first, asked, address, ebuf>>
<1>1. prog.step = "control" /\ prog.stage = 10 /\ call = NoCall /\ call.op = "none"
  BY ProgIs, WhereAt, CallNow DEF TakeEeprom
<1>. QED
  BY <1>1, ProgIs, TakeDoes DEF TakeEeprom

\* A word of the board is compared.
LEMMA CompareWordDoes ==
    ASSUME Shape, CompareWord
    PROVE  /\ prog.step \in Identity /\ prog.stage = 10
           /\ call.op = "word" /\ call.pc = "done" /\ call.s = prog.s
           /\ \/ StepTo("refuse") /\ call' = NoCall
              \/ /\ <<call.res[0], call.res[1]>> = Read(prog.s, prog.step)
                 /\ \/ /\ prog.step = "id" /\ StepTo("man")
                       /\ Begin("word", prog.s, ECT_SII["man"], Zero)
                    \/ /\ prog.step = "man" /\ StepTo("rev")
                       /\ Begin("word", prog.s, ECT_SII["rev"], Zero)
                    \/ prog.step = "rev" /\ StepTo("address") /\ call' = NoCall
           /\ UNCHANGED <<node, store, slavelist, esislave, esibuf, faults, disturbed,
                          first, asked, address, ebuf>>
<1>1. PICK k \in 1 .. 3 :
        /\ prog.step = Compared[k] /\ Idle
        /\ IF <<call.res[0], call.res[1]>> # Read(prog.s, Compared[k])
           THEN Step("refuse") /\ call' = NoCall
           ELSE /\ Step(AfterField(k))
                /\ IF AfterField(k) = "address" THEN call' = NoCall
                   ELSE Begin("word", prog.s, ECT_SII[AfterField(k)], Zero)
        /\ UNCHANGED <<node, store, slavelist, esislave, esibuf, faults, disturbed,
                       first, asked, address, ebuf>>
  BY DEF CompareWord
<1>2. Compared[1] = "id" /\ Compared[2] = "man" /\ Compared[3] = "rev"
  BY DEF Compared
<1>3. /\ k = 1 => prog.step = "id" /\ AfterField(k) = "man"
      /\ k = 2 => prog.step = "man" /\ AfterField(k) = "rev"
      /\ k = 3 => prog.step = "rev" /\ AfterField(k) = "address"
  BY <1>1, <1>2 DEF AfterField
<1>4. prog.step \in Identity /\ prog.stage = 10
  BY <1>3, ProgIs, WhereAt DEF Identity
<1>5. call.op = "word" /\ call.s = prog.s /\ call.pc = "done"
  BY <1>1, <1>4, ProgIs, CallNow DEF Idle
<1>6. CASE <<call.res[0], call.res[1]>> # Read(prog.s, Compared[k])
  BY <1>1, <1>4, <1>5, <1>6, ProgIs
<1>7. CASE <<call.res[0], call.res[1]>> = Read(prog.s, Compared[k])
  BY <1>1, <1>3, <1>4, <1>5, <1>7, ProgIs
<1>. QED
  BY <1>6, <1>7

\* It gets its own address, or none, or this fails.
LEMMA GiveAddressDoes ==
    ASSUME Shape, GiveAddress
    PROVE  /\ prog.step \in {"address", "refuse"} /\ prog.stage = 10 /\ StepTo("idle")
           /\ call = NoCall /\ call.op = "none"
           /\ \/ /\ Done(prog.s) /\ DOMAIN address' = Slaves
                 /\ address'[prog.s] = IF prog.step = "address" THEN "own" ELSE "none"
                 /\ \A t \in Slaves \ {prog.s} : address'[t] = address[t]
              \/ (Lost(prog.s) \/ Gone(prog.s)) /\ UNCHANGED address
           /\ UNCHANGED <<node, store, slavelist, esislave, esibuf, call, first, asked, ebuf>>
<1>1. prog.step \in {"address", "refuse"} /\ prog.stage = 10 /\ call = NoCall /\ call.op = "none"
  BY ProgIs, WhereAt, CallNow DEF GiveAddress
<1>2. DOMAIN address = Slaves
  BY DEF Shape, ProgShape, Position
<1>. QED
  BY <1>1, <1>2, ProgIs DEF GiveAddress

\* The tool takes the EEPROM.
LEMMA ForceControlDoes ==
    ASSUME Shape, ForceControl
    PROVE  /\ prog.step = "force" /\ call = NoCall /\ call.op = "none"
           /\ \/ prog.stage = 11 /\ StepTo("write")
              \/ prog.stage = 14 /\ StepTo("ainc")
              \/ prog.stage = 16 /\ StepTo("alias")
           /\ SameButOwner(prog.s) /\ Given(prog.s, "master")
           /\ UNCHANGED <<store, slavelist, esislave, esibuf, call, first, asked, address, ebuf>>
<1>1. prog.step = "force" /\ prog.stage \in {11, 14, 16}
  BY ProgIs, WhereAt DEF ForceControl
<1>2. call = NoCall /\ call.op = "none"
  BY <1>1, ProgIs, CallNow
<1>3. \/ prog.stage = 11 /\ StepTo("write")
      \/ prog.stage = 14 /\ StepTo("ainc")
      \/ prog.stage = 16 /\ StepTo("alias")
  BY <1>1, ProgIs, StageNumbers DEF ForceControl
<1>. QED
  BY <1>1, <1>2, <1>3, ProgIs, GiveDoes DEF ForceControl, SameButOwner, Given

\* It looks how wide the data register is.
LEMMA AincDoes ==
    ASSUME Shape, Ainc
    PROVE  /\ prog.step = "ainc" /\ prog.stage = 14 /\ call = NoCall /\ call.op = "none"
           /\ \/ Done(prog.s) /\ StepTo(IF prog.s \in EightByte THEN "by4" ELSE "by2")
              \/ (Lost(prog.s) \/ Gone(prog.s)) /\ StepTo("by2")
           /\ UNCHANGED <<node, store, slavelist, esislave, esibuf, call, first, asked, address, ebuf>>
BY ProgIs, WhereAt, CallNow DEF Ainc

\* A step of the tool ends its stage, with which another begins or none.
StageTo(stage, step) ==
    /\ DOMAIN prog' = {"stage", "s", "step"} /\ prog'.stage = stage /\ prog'.s = prog.s
    /\ prog'.step = step

\* The next word of the image is written.
LEMMA WriteWordDoes ==
    ASSUME Shape, WriteWord
    PROVE  /\ prog.step = "write" /\ prog.stage = 11 /\ call.pc = "done"
           /\ call.op \in {"none", "write"}
           /\ call.op = "none" => NextAddress \in DOMAIN Image /\ \A a \in DOMAIN Image : NextAddress <= a
           /\ call.op = "write" => NextAddress = call.a + 1 /\ call.s = prog.s
           /\ \/ /\ NextAddress \in DOMAIN Image /\ UNCHANGED prog
                 /\ Begin("write", prog.s, NextAddress, Image[NextAddress])
              \/ NextAddress \notin DOMAIN Image /\ call' = NoCall /\ StageTo(12, "idle")
           /\ UNCHANGED <<node, store, slavelist, esislave, esibuf, faults, disturbed,
                          first, asked, address, ebuf>>
<1>1. prog.step = "write" /\ prog.stage = 11 /\ call.pc = "done" /\ call.op \in {"none", "write"}
  BY ProgIs, WhereAt, CallNow DEF WriteWord, Idle
<1>2. DOMAIN prog = {"stage", "s", "step"}
  BY DEF Shape, ProgShape, Position
<1>3. call.op = "write" => call.s = prog.s
  BY ProgIs, CallNow
<1>. QED
  BY <1>1, <1>2, <1>3, ImageAddress, StageNumbers DEF WriteWord, StageTo

\* The next words are read.
LEMMA ReadImageDoes ==
    ASSUME Shape, ReadImage
    PROVE  /\ prog.step \in {"by2", "by4"} /\ prog.stage = 14 /\ call.pc = "done"
           /\ call.op \in {"none", "dump"}
           /\ call.op = "dump" => call.s = prog.s
           /\ ebuf' = ReadSoFar
           /\ LET next == IF call.op = "none" THEN 0 ELSE call.a + WordsRead
              IN  \/ next < CRCBUF /\ Begin("dump", prog.s, next, Zero) /\ UNCHANGED prog
                  \/ /\ ~(next < CRCBUF) /\ call' = NoCall
                     /\ StageTo(15, "idle") \/ StageTo(16, "force")
           /\ UNCHANGED <<node, store, slavelist, esislave, esibuf, faults, disturbed, first,
                          asked, address>>
<1>1. prog.step \in {"by2", "by4"} /\ prog.stage = 14 /\ call.pc = "done" /\ call.op \in {"none", "dump"}
  BY ProgIs, WhereAt, CallNow DEF ReadImage, Idle
<1>2. DOMAIN prog = {"stage", "s", "step"}
  BY DEF Shape, ProgShape, Position
<1>3. call.op = "dump" => call.s = prog.s
  BY ProgIs, CallNow
<1>4. ebuf' = ReadSoFar /\ UNCHANGED <<node, store, slavelist, esislave, esibuf, faults, disturbed,
                                       first, asked, address>>
  BY DEF ReadImage
<1>5. \/ prog' = [prog EXCEPT !.stage = DUMPED, !.step = "idle"]
      \/ prog' = [prog EXCEPT !.stage = ALIASING, !.step = "force"]
      => StageTo(15, "idle") \/ StageTo(16, "force")
  BY <1>2, StageNumbers DEF StageTo
<1>. QED
  BY <1>1, <1>3, <1>4, <1>5 DEF ReadImage

\* The alias is written, and then the checksum.
LEMMA WriteAliasDoes ==
    ASSUME Shape, WriteAlias
    PROVE  /\ prog.step = "alias" /\ prog.stage = 16 /\ call.pc = "done"
           /\ call.op \in {"none", "write"}
           /\ call.op = "write" => call.s = prog.s
           /\ \/ call.op = "none" /\ Begin("write", prog.s, 4, Alias) /\ UNCHANGED prog
              \/ /\ call.op = "write" /\ call.a = 4 /\ call.ok /\ UNCHANGED prog
                 /\ Begin("write", prog.s, 7, Checksum([ebuf EXCEPT ![4] = Alias]))
              \/ /\ call.op = "write" /\ (call.a = 7 \/ ~call.ok)
                 /\ call' = NoCall /\ StageTo(17, "idle")
           /\ UNCHANGED <<node, store, slavelist, esislave, esibuf, faults, disturbed,
                          first, asked, address, ebuf>>
<1>1. prog.step = "alias" /\ prog.stage = 16 /\ call.pc = "done" /\ call.op \in {"none", "write"}
  BY ProgIs, WhereAt, CallNow DEF WriteAlias, Idle
<1>2. DOMAIN prog = {"stage", "s", "step"}
  BY DEF Shape, ProgShape, Position
<1>3. call.op = "write" => call.s = prog.s
  BY ProgIs, CallNow
<1>4. prog' = [prog EXCEPT !.stage = ALIASED, !.step = "idle"] => StageTo(17, "idle")
  BY <1>2, StageNumbers DEF StageTo
<1>. QED
  BY <1>1, <1>3, <1>4 DEF WriteAlias, Written

\* The steps at which there need not be a call.
LEMMA NoneAt ==
    ASSUME NEW step, step \notin {"collecting", "issuing", "id", "man", "rev"}
    PROVE  "none" \in CallsAt(step)
BY DEF CallsAt, Identity

\* The calls keep their fields, and fit the step of the program.
LEMMA CallKept == Shape /\ [Next]_vars => CallShape'
<1>. SUFFICES ASSUME Shape, [Next]_vars PROVE CallShape'
  OBVIOUS
<1>1. ProgShape'
  BY ProgKept
<1>2. ASSUME call' = NoCall, prog'.step \notin {"collecting", "issuing", "id", "man", "rev"}
      PROVE  CallShape'
  BY <1>1, <1>2, NoneAt, NoCallFits
<1>3. ASSUME GoesOn PROVE prog'.step \notin {"collecting", "issuing", "id", "man", "rev"}
  BY <1>3 DEF GoesOn
<1>4. UNCHANGED <<call, prog, esislave, ebuf>> => CallShape'
  BY ProgIs DEF CallShape
<1>5. CASE CallStep /\ UNCHANGED infoVars
  BY <1>1, <1>5, CallStepsFit
<1>6. CASE \/ \E s \in Slaves : (Finish(s) \/ Leave(s)) /\ UNCHANGED infoVars
           \/ \E s \in Slaves : Exchange(s)
           \/ Sizing \/ UNCHANGED vars
  <2>1. CASE \E s \in Slaves : (Finish(s) \/ Leave(s)) /\ UNCHANGED infoVars
    BY <1>4, <2>1, ExecuteDoes, RefuseDoes DEF Finish, infoVars
  <2>2. CASE \E s \in Slaves : Exchange(s)
    BY <1>4, <2>2, ExchangeDoes
  <2>3. CASE Sizing \/ UNCHANGED vars
    BY <1>4, <2>3 DEF Sizing, vars, infoVars, eepromVars
  <2>. QED
    BY <1>6, <2>1, <2>2, <2>3
<1>7. CASE SetDefaults
  <2>1. call' = call /\ prog'.step = "width" /\ prog.step = "defaults"
    BY <1>7, DefaultsDo
  <2>. QED
    BY <1>2, <2>1, ProgIs, CallNow
<1>8. CASE Width
  <2>1. call' = call /\ prog'.step = "issue" /\ prog.step = "width"
    BY <1>8, WidthDoes DEF StepTo
  <2>. QED
    BY <1>2, <2>1, ProgIs, CallNow
<1>9. CASE Collect
  <2>1. CASE StepTo("collecting") /\ Begin("collect", prog.s, 0, Zero)
    <3>1. prog'.step = "collecting" /\ prog'.s = prog.s
      BY <2>1 DEF StepTo
    <3>2. "collect" \in CallsAt(prog'.step)
      BY <3>1 DEF CallsAt, Identity
    <3>3. Begin("collect", prog'.s, 0, Zero)
      BY <2>1, <3>1
    <3>. QED
      BY <1>1, <3>2, <3>3, BegunFits
  <2>2. CASE call' = call /\ StepTo(IF prog.stage = 8 THEN "sii" ELSE "issue")
    <3>1. call' = NoCall /\ prog'.step \in {"sii", "issue"}
      BY <1>9, <2>2, CollectDoes DEF StepTo
    <3>. QED
      BY <1>2, <3>1
  <2>. QED
    BY <1>9, <2>1, <2>2, CollectDoes
<1>10. CASE Collected
  <2>1. call' = NoCall /\ prog'.step \in {"sii", "issue"}
    BY <1>10, CollectedDoes DEF StepTo
  <2>. QED
    BY <1>2, <2>1
<1>11. CASE Issue
  <2>1. CASE StepTo("issuing") /\ Begin("issue", prog.s, ECT_SII[Fields[prog.stage]], Zero)
    <3>1. prog'.step = "issuing" /\ prog'.s = prog.s /\ prog'.stage = prog.stage
      BY <2>1 DEF StepTo
    <3>2. "issue" \in CallsAt(prog'.step)
      BY <3>1 DEF CallsAt, Identity
    <3>. DEFINE a == ECT_SII[Fields[prog'.stage]]
    <3>3. Begin("issue", prog'.s, a, Zero)
      BY <2>1, <3>1
    <3>4. prog.stage \in 1 .. 7
      BY <1>11, IssueDoes
    <3>5. a \in Nat
      BY <3>1, <3>4, FieldPlaces
    <3>. HIDE DEF a
    <3>6. a = ECT_SII[Fields[prog'.stage]]
      BY DEF a
    <3>. QED
      BY <1>1, <3>2, <3>3, <3>5, <3>6, BegunFits
  <2>2. CASE call' = call /\ GoesOn
    BY <1>2, <1>3, <1>11, <2>2, IssueDoes
  <2>. QED
    BY <1>11, <2>1, <2>2, IssueDoes
<1>12. CASE Issued
  BY <1>2, <1>3, <1>12, IssuedDoes
<1>13. CASE LookupSii \/ LookupMapping
  <2>1. call' = NoCall /\ (GoesOn \/ StepTo("pdi") \/ StepTo("bytes"))
    BY <1>13, LookupsDo DEF eepromVars
  <2>. QED
    BY <1>2, <1>3, <2>1 DEF StepTo
<1>14. CASE ReadByte
  <2>1. prog' = prog /\ prog.step = "bytes" /\ esislave' = prog'.s
    BY <1>14, ReadByteDoes DEF infoVars
  <2>2. PICK a \in Nat : Begin("byte", prog'.s, a, Zero)
    BY <1>14, <2>1, ReadByteDoes
  <2>3. "byte" \in CallsAt(prog'.step)
    BY <2>1 DEF CallsAt
  <2>. QED
    BY <1>1, <2>1, <2>2, <2>3, BegunFits
<1>15. CASE ByteRead
  <2>1. prog'.step = "bytes" /\ call' = NoCall
    BY <1>15, ByteReadDoes DEF infoVars
  <2>. QED
    BY <1>2, <2>1
<1>16. CASE SectionsRead
  <2>1. prog'.step = "pdi" /\ call' = NoCall
    BY <1>16, SectionsReadDoes DEF StepTo, eepromVars
  <2>. QED
    BY <1>2, <2>1
<1>17. CASE Found \/ GivePdi
  <2>1. call' = NoCall /\ (GoesOn \/ prog'.step \in {"bytes", "preop"})
    BY <1>17, GivesPdi DEF StepTo
  <2>. QED
    BY <1>2, <1>3, <2>1
<1>18. CASE AskPreOp
  <2>1. call' = NoCall /\ (GoesOn \/ prog'.step = "idle")
    BY <1>18, AskPreOpDoes DEF StepTo, eepromVars
  <2>. QED
    BY <1>2, <1>3, <2>1
<1>19. ASSUME NEW s \in Slaves, RecoverSlave(s) \/ Reconfigure(s) PROVE CallShape'
  <2>1. prog.step = "idle" /\ prog'.step \in {"idle", "control", "pdi"} /\ call' = call
    BY <1>19, RecoverSlaveDoes, ReconfigureDoes DEF eepromVars
  <2>. QED
    BY <1>2, <2>1, ProgIs, CallNow
<1>20. CASE TakeEeprom
  <2>1. prog'.step = "id" /\ Begin("word", prog'.s, 10, Zero)
    BY <1>20, TakeEepromDoes, FieldPlaces DEF StepTo
  <2>2. "word" \in CallsAt(prog'.step)
    BY <2>1 DEF CallsAt, Identity
  <2>3. 10 = ECT_SII[prog'.step]
    BY <2>1, FieldPlaces
  <2>. QED
    BY <1>1, <2>1, <2>2, <2>3, BegunFits
<1>21. CASE CompareWord
  <2>1. \/ call' = NoCall /\ prog'.step \in {"refuse", "address"}
        \/ prog'.step = "man" /\ Begin("word", prog'.s, 8, Zero)
        \/ prog'.step = "rev" /\ Begin("word", prog'.s, 12, Zero)
    BY <1>21, CompareWordDoes, FieldPlaces DEF StepTo
  <2>2. ASSUME prog'.step = "man" /\ Begin("word", prog'.s, 8, Zero) PROVE CallShape'
    <3>1. "word" \in CallsAt(prog'.step) /\ 8 = ECT_SII[prog'.step]
      BY <2>2, FieldPlaces DEF CallsAt, Identity
    <3>. QED
      BY <1>1, <2>2, <3>1, BegunFits
  <2>3. ASSUME prog'.step = "rev" /\ Begin("word", prog'.s, 12, Zero) PROVE CallShape'
    <3>1. "word" \in CallsAt(prog'.step) /\ 12 = ECT_SII[prog'.step]
      BY <2>3, FieldPlaces DEF CallsAt, Identity
    <3>. QED
      BY <1>1, <2>3, <3>1, BegunFits
  <2>. QED
    BY <1>2, <2>1, <2>2, <2>3
<1>22. CASE GiveAddress
  <2>1. prog'.step = "idle" /\ call' = NoCall
    BY <1>22, GiveAddressDoes DEF StepTo
  <2>. QED
    BY <1>2, <2>1
<1>23. CASE ForceControl
  <2>1. prog'.step \in {"write", "ainc", "alias"} /\ call' = NoCall
    BY <1>23, ForceControlDoes DEF StepTo
  <2>. QED
    BY <1>2, <2>1
<1>24. CASE Ainc
  <2>1. prog'.step \in {"by2", "by4"} /\ call' = NoCall
    BY <1>24, AincDoes DEF StepTo
  <2>. QED
    BY <1>2, <2>1
<1>25. CASE WriteWord
  <2>1. CASE NextAddress \notin DOMAIN Image /\ call' = NoCall /\ StageTo(12, "idle")
    BY <1>2, <2>1 DEF StageTo
  <2>2. CASE /\ NextAddress \in DOMAIN Image /\ UNCHANGED prog
             /\ Begin("write", prog.s, NextAddress, Image[NextAddress])
    <3>. DEFINE a == NextAddress
    <3>1. "write" \in CallsAt(prog'.step) /\ prog'.stage = FLASHING
      BY <1>25, <2>2, WriteWordDoes, StageNumbers DEF CallsAt, Identity
    <3>2. a \in Nat /\ a \in DOMAIN Image /\ Begin("write", prog'.s, a, Image[a])
      BY <2>2, Constants
    <3>. HIDE DEF a
    <3>. QED
      BY <1>1, <3>1, <3>2, BegunFits
  <2>. QED
    BY <1>25, <2>1, <2>2, WriteWordDoes
<1>26. CASE ReadImage
  <2>. DEFINE next == IF call.op = "none" THEN 0 ELSE call.a + WordsRead
  <2>1. CASE call' = NoCall /\ (StageTo(15, "idle") \/ StageTo(16, "force"))
    BY <1>2, <2>1 DEF StageTo
  <2>2. CASE Begin("dump", prog.s, next, Zero) /\ UNCHANGED prog
    <3>1. "dump" \in CallsAt(prog'.step)
      BY <1>26, <2>2, ReadImageDoes DEF CallsAt, Identity
    <3>2. next \in Nat
      BY ProgIs DEF CallShape, WordsRead
    <3>. HIDE DEF next
    <3>. QED
      BY <1>1, <2>2, <3>1, <3>2, BegunFits
  <2>. QED
    BY <1>26, <2>1, <2>2, ReadImageDoes
<1>27. CASE WriteAlias
  <2>. DEFINE sum == Checksum([ebuf' EXCEPT ![4] = Alias])
  <2>1. CASE call' = NoCall /\ StageTo(17, "idle")
    BY <1>2, <2>1 DEF StageTo
  <2>2. CASE \/ Begin("write", prog.s, 4, Alias) /\ UNCHANGED prog
             \/ Begin("write", prog.s, 7, Checksum([ebuf EXCEPT ![4] = Alias])) /\ UNCHANGED prog
    <3>1. "write" \in CallsAt(prog'.step) /\ prog'.stage # FLASHING
      BY <1>27, <2>2, WriteAliasDoes, StageNumbers DEF CallsAt, Identity
    <3>2. Begin("write", prog'.s, 4, Alias) \/ Begin("write", prog'.s, 7, sum)
      BY <1>27, <2>2, WriteAliasDoes
    <3>3. CASE Begin("write", prog'.s, 4, Alias)
      BY <1>1, <3>1, <3>3, BegunFits
    <3>4. CASE Begin("write", prog'.s, 7, sum)
      <4>. HIDE DEF sum
      <4>1. sum = Checksum([ebuf' EXCEPT ![4] = Alias])
        BY DEF sum
      <4>. QED
        BY <1>1, <3>1, <3>4, <4>1, BegunFits
    <3>. QED
      BY <3>2, <3>3, <3>4
  <2>. QED
    BY <1>27, <2>1, <2>2, WriteAliasDoes
<1>. QED
  BY <1>5, <1>6, <1>7, <1>8, <1>9, <1>10, <1>11, <1>12, <1>13, <1>14, <1>15, <1>16, <1>17, <1>18,
     <1>19, <1>20, <1>21, <1>22, <1>23, <1>24, <1>25, <1>26, <1>27 DEF Next, Master

\* Only the controllers write the EEPROMs; another board has another one.
LEMMA StoreLeft ==
    ASSUME Shape, [Next]_vars,
           ~ \E s \in Slaves : Execute(s) /\ UNCHANGED infoVars,
           ~ \E s \in Slaves : Exchange(s)
    PROVE  store' = store
<1>1. CASE CallStep /\ UNCHANGED infoVars
  BY <1>1 DEF CallStep, Control, Wait, Value, Command, Await, Data
<1>2. CASE SetDefaults \/ Width \/ Collect \/ Collected \/ Issue \/ Issued
  BY <1>2 DEF SetDefaults, Width, Collect, Collected, Issue, Issued
<1>3. CASE LookupSii \/ LookupMapping \/ ReadByte \/ ByteRead \/ Found \/ SectionsRead
           \/ GivePdi \/ AskPreOp
  BY <1>3 DEF LookupSii, LookupMapping, ReadByte, GetByte, ByteRead, FillCache, Found, SectionsRead,
     GivePdi, AskPreOp, eepromVars
<1>4. CASE \/ \E s \in Slaves : RecoverSlave(s) \/ Reconfigure(s)
           \/ TakeEeprom \/ CompareWord \/ GiveAddress
  BY <1>4 DEF RecoverSlave, Reconfigure, TakeEeprom, CompareWord, GiveAddress, eepromVars
<1>5. CASE ForceControl \/ WriteWord \/ Ainc \/ ReadImage \/ WriteAlias
  BY <1>5 DEF ForceControl, WriteWord, Ainc, ReadImage, WriteAlias
<1>6. CASE \E s \in Slaves : (Refuse(s) \/ Leave(s)) /\ UNCHANGED infoVars
  BY <1>6 DEF Refuse, Leave
<1>7. CASE Sizing \/ UNCHANGED vars
  BY <1>7 DEF Sizing, vars, eepromVars
<1>. QED
  BY <1>1, <1>2, <1>3, <1>4, <1>5, <1>6, <1>7 DEF Next, Master, Finish

\* The stages come one after the other; what was in the EEPROMs is remembered.
LEMMA StagesKept ==
    ASSUME Shape, [Next]_vars
    PROVE  /\ first' = first
           /\ \/ prog'.stage = prog.stage
              \/ prog.stage \in 1 .. 9 /\ prog'.stage = prog.stage + 1 /\ GoesOn
              \/ prog.stage = 11 /\ prog'.stage = 12 /\ WriteWord
              \/ prog.stage = 14 /\ prog'.stage \in {15, 16} /\ ReadImage
              \/ prog.stage = 16 /\ prog'.stage = 17 /\ WriteAlias
<1>1. CASE \/ CallStep /\ UNCHANGED infoVars
           \/ \E s \in Slaves : (Finish(s) \/ Leave(s)) /\ UNCHANGED infoVars
           \/ Sizing \/ UNCHANGED vars
  BY <1>1 DEF infoVars, Sizing, vars
<1>2. CASE SetDefaults \/ Width \/ Collect \/ Collected
  BY <1>2, DefaultsDo, WidthDoes, CollectDoes, CollectedDoes DEF StepTo
<1>3. ASSUME GoesOn, prog.stage \in 1 .. 9
      PROVE  \/ prog'.stage = prog.stage
             \/ prog.stage \in 1 .. 9 /\ prog'.stage = prog.stage + 1 /\ GoesOn
  BY <1>3 DEF GoesOn
<1>4. CASE Issue \/ Issued
  <2>1. prog.stage \in 1 .. 9 /\ first' = first /\ (GoesOn \/ prog'.stage = prog.stage)
    BY <1>4, IssueDoes, IssuedDoes DEF StepTo
  <2>. QED
    BY <1>3, <2>1
<1>5. CASE LookupSii \/ LookupMapping \/ ReadByte \/ ByteRead \/ Found \/ SectionsRead
           \/ GivePdi \/ AskPreOp
  <2>1. first' = first /\ ((GoesOn /\ prog.stage \in 1 .. 9) \/ prog'.stage = prog.stage)
    BY <1>5, LookupsDo, ReadByteDoes, ByteReadDoes, GivesPdi, SectionsReadDoes, AskPreOpDoes
       DEF StepTo, infoVars
  <2>. QED
    BY <1>3, <2>1
<1>6. CASE \/ \E s \in Slaves : RecoverSlave(s) \/ Reconfigure(s) \/ Exchange(s)
           \/ TakeEeprom \/ CompareWord \/ GiveAddress
  BY <1>6, RecoverSlaveDoes, ReconfigureDoes, ExchangeDoes, TakeEepromDoes, CompareWordDoes,
     GiveAddressDoes DEF StepTo
<1>7. CASE ForceControl \/ WriteWord \/ Ainc \/ ReadImage \/ WriteAlias
  BY <1>7, ForceControlDoes, WriteWordDoes, AincDoes, ReadImageDoes, WriteAliasDoes
     DEF StepTo, StageTo
<1>. QED
  BY <1>1, <1>2, <1>4, <1>5, <1>6, <1>7 DEF Next, Master

\* In particular a tool does not begin in the middle.
LEMMA SetUpKept ==
    ASSUME Shape, [Next]_vars
    PROVE  /\ SetUp' <=> SetUp
           /\ Writing => Writing'
           /\ Writing => ~SetUp
           /\ Writing' /\ ~Writing => prog.stage = 14 /\ prog'.stage = 16 /\ ReadImage
<1>1. prog.stage \in 1 .. 17
  BY ProgIs, WhereAt
<1>2. DOMAIN prog' = {"stage", "s", "step"}
  BY PositionKept DEF Position
<1>3. Writing' <=> prog'.stage \in {11, 12, 16, 17}
  BY StageNumbers DEF Writing
<1>4. SetUp' <=> prog'.stage \in 1 .. 10
  BY StageNumbers DEF SetUp
<1>. QED
  BY <1>1, <1>3, <1>4, StagesKept, StageNumbers DEF SetUp, Writing

\* The EEPROMs keep their size.
LEMMA StoreKept == Shape /\ ReadInv /\ [Next]_vars => StoreShape'
<1>. SUFFICES ASSUME Shape, ReadInv, [Next]_vars PROVE StoreShape'
  OBVIOUS
<1>1. StoreShape /\ first' = first /\ (SetUp' <=> SetUp) /\ (Writing => ~SetUp)
  BY ProgIs, StagesKept, SetUpKept
<1>2. CASE store' = store
  BY <1>1, <1>2 DEF StoreShape
<1>3. ASSUME NEW s \in Slaves, Execute(s) PROVE StoreShape'
  <2>1. CASE node[s].comm = "read"
    BY <1>2, <1>3, <2>1, ExecuteDoes
  <2>2. CASE node[s].comm # "read"
    <3>1. Writing
      BY <1>3, <2>2, ExecuteDoes DEF ReadInv
    <3>2. /\ DOMAIN store' = Slaves /\ DOMAIN store'[s] = DOMAIN store[s]
          /\ \A t \in Slaves \ {s} : store'[t] = store[t]
      BY <1>3, ExecuteDoes
    <3>3. ~SetUp'
      BY <1>1, <3>1
    <3>. QED
      BY <1>1, <3>2, <3>3 DEF StoreShape
  <2>. QED
    BY <2>1, <2>2
<1>4. ASSUME NEW s \in Slaves, Exchange(s) PROVE StoreShape'
  <2>1. /\ \E k \in Kinds : store'[s] = Contents[k]
        /\ DOMAIN store' = Slaves
        /\ \A t \in Slaves \ {s} : store'[t] = store[t]
    BY <1>4, ExchangeDoes
  <2>2. \E k \in Kinds : DOMAIN store'[s] = DOMAIN Contents[k]
    BY <2>1
  <2>. QED
    BY <1>1, <2>1, <2>2 DEF StoreShape
<1>. QED
  BY <1>2, <1>3, <1>4, StoreLeft

\* All records keep their fields.
LEMMA ShapeKept == Shape /\ ReadInv /\ [Next]_vars => Shape'
BY NodesKept, ListKept, StoreKept, ProgKept, CallKept DEF Shape

-----------------------------------------------------------------------------
(* Who is where.                                                            *)

\* Whoever has been disturbed stays so.
LEMMA DisturbedGrows == Shape /\ [Next]_vars => disturbed \subseteq disturbed'
<1>. SUFFICES ASSUME Shape, [Next]_vars PROVE disturbed \subseteq disturbed'
  OBVIOUS
<1>1. disturbed \subseteq Slaves /\ prog.s \in Slaves /\ call.s \in Slaves
  BY ProgIs DEF ProgShape
<1>2. \A s : Done(s) \/ Lost(s) \/ Gone(s) => disturbed \subseteq disturbed'
  BY DEF Done, Lost, Gone
<1>3. \A s, owner : Given(s, owner) => disturbed \subseteq disturbed'
  BY <1>2 DEF Given
<1>4. CASE CallStep
  <2>1. CASE Control
    BY <1>3, <2>1, ControlDoes
  <2>2. CASE Wait \/ Await
    BY <2>2, WaitDoes, AwaitDoes DEF Waited
  <2>3. CASE Value \/ Command \/ Data
    BY <1>2, <2>3, ValueDoes, CommandDoes, DataDoes
  <2>. QED
    BY <1>4, <2>1, <2>2, <2>3 DEF CallStep
<1>5. CASE \E s \in Slaves : Finish(s) \/ Leave(s) \/ Exchange(s)
  BY <1>5, ExecuteDoes, RefuseDoes, ExchangeDoes DEF Finish
<1>6. CASE SetDefaults
  BY <1>1, <1>6, DefaultsDo
<1>7. CASE Width \/ Collect \/ Collected \/ Issue \/ Issued
  BY <1>2, <1>7, WidthDoes, CollectDoes, CollectedDoes, IssueDoes, IssuedDoes
<1>8. CASE LookupSii \/ LookupMapping \/ ReadByte \/ ByteRead \/ SectionsRead \/ AskPreOp
  BY <1>8, LookupsDo, ReadByteDoes, ByteReadDoes, SectionsReadDoes, AskPreOpDoes DEF eepromVars
<1>9. CASE Found \/ GivePdi \/ TakeEeprom \/ ForceControl
  BY <1>3, <1>9, GivesPdi, TakeEepromDoes, ForceControlDoes
<1>10. CASE (\E s \in Slaves : RecoverSlave(s) \/ Reconfigure(s)) \/ CompareWord \/ GiveAddress
  BY <1>2, <1>10, RecoverSlaveDoes, ReconfigureDoes, CompareWordDoes, GiveAddressDoes DEF eepromVars
<1>11. CASE WriteWord \/ Ainc \/ ReadImage \/ WriteAlias \/ Sizing \/ UNCHANGED vars
  BY <1>2, <1>11, WriteWordDoes, AincDoes, ReadImageDoes, WriteAliasDoes
     DEF Sizing, vars, eepromVars
<1>. QED
  BY <1>4, <1>5, <1>6, <1>7, <1>8, <1>9, <1>10, <1>11 DEF Next, Master

\* All of a controller but its owner.
SameController(s) ==
    /\ node'[s].present = node[s].present /\ node'[s].busy = node[s].busy
    /\ node'[s].comm = node[s].comm /\ node'[s].at = node[s].at
    /\ node'[s].nack = node[s].nack /\ node'[s].reg = node[s].reg

\* Who changes a controller, apart from its owner.
LEMMA Controllers ==
    ASSUME Shape, [Next]_vars
    PROVE  \/ \A s \in Slaves : SameController(s)
           \/ (Value \/ Command) /\ UNCHANGED infoVars
           \/ \E s \in Slaves : (Execute(s) \/ Refuse(s) \/ Leave(s)) /\ UNCHANGED infoVars
           \/ \E s \in Slaves : Exchange(s)
<1>1. \A s \in Slaves : SameButOwner(s) => \A t \in Slaves : SameController(t)
  BY DEF SameButOwner, SameController
<1>2. prog.s \in Slaves /\ call.s \in Slaves
  BY ProgIs
<1>3. node' = node => \A t \in Slaves : SameController(t)
  BY DEF SameController
<1>4. CASE Control
  BY <1>1, <1>2, <1>4, ControlDoes
<1>5. CASE SetDefaults
  BY <1>5, DefaultsDo DEF SameController
<1>6. CASE Found \/ GivePdi \/ TakeEeprom \/ ForceControl
  BY <1>1, <1>2, <1>6, GivesPdi, TakeEepromDoes, ForceControlDoes
<1>. QED
  BY <1>3, <1>4, <1>5, <1>6, NodesAlone DEF Next, Master, CallStep, Finish

\* The addresses change when a board is exchanged and when it is recovered.
LEMMA AddressLeft ==
    ASSUME [Next]_vars
    PROVE  \/ address' = address
           \/ \E s \in Slaves : Exchange(s) \/ RecoverSlave(s)
           \/ GiveAddress
<1>1. CASE \/ CallStep /\ UNCHANGED infoVars
           \/ \E s \in Slaves : (Finish(s) \/ Leave(s)) /\ UNCHANGED infoVars
           \/ Sizing \/ UNCHANGED vars
  BY <1>1 DEF infoVars, Sizing, vars
<1>2. CASE SetDefaults \/ Width \/ Collect \/ Collected \/ Issue \/ Issued
  BY <1>2 DEF SetDefaults, Width, Collect, Collected, Issue, Issued
<1>3. CASE LookupSii \/ LookupMapping \/ ReadByte \/ ByteRead \/ Found \/ SectionsRead
           \/ GivePdi \/ AskPreOp
  BY <1>3 DEF LookupSii, LookupMapping, ReadByte, ByteRead, Found, SectionsRead, GivePdi, AskPreOp,
     infoVars
<1>4. CASE (\E s \in Slaves : Reconfigure(s)) \/ TakeEeprom \/ CompareWord
  BY <1>4 DEF Reconfigure, TakeEeprom, CompareWord
<1>5. CASE ForceControl \/ WriteWord \/ Ainc \/ ReadImage \/ WriteAlias
  BY <1>5 DEF ForceControl, WriteWord, Ainc, ReadImage, WriteAlias
<1>. QED
  BY <1>1, <1>2, <1>3, <1>4, <1>5 DEF Next, Master

\* The parts of it.
Whereabouts ==
    /\ prog.step \in {"control", "id", "man", "rev", "address", "refuse"} => address[prog.s] = "temp"
    /\ prog.step \in {"pdi", "preop"} => address[prog.s] = "own"

\* Who is configured has an address, who is recovered the temporary one.
LEMMA WhereaboutsKept == Shape /\ PlaceInv /\ [Next]_vars => Whereabouts'
<1>. SUFFICES ASSUME Shape, PlaceInv, [Next]_vars PROVE Whereabouts'
  OBVIOUS
<1>. DEFINE Recovering == {"control", "id", "man", "rev", "address", "refuse"}
<1>1. /\ prog.s \in Slaves
      /\ prog.stage # 10 => \A s \in Slaves : address[s] = "own"
  BY ProgIs, StageNumbers DEF PlaceInv
<1>2. UNCHANGED <<prog, address>> => Whereabouts'
  BY DEF PlaceInv, Whereabouts
<1>3. prog'.step \notin Recovering \cup {"pdi", "preop"} => Whereabouts'
  BY DEF Whereabouts
<1>4. GoesOn => Whereabouts'
  BY <1>3 DEF GoesOn
<1>5. CASE \/ CallStep /\ UNCHANGED infoVars
           \/ \E s \in Slaves : (Finish(s) \/ Leave(s)) /\ UNCHANGED infoVars
           \/ Sizing \/ UNCHANGED vars \/ ReadByte \/ ByteRead \/ Found
  BY <1>2, <1>5 DEF infoVars, Sizing, vars, ReadByte, ByteRead, Found
<1>6. CASE SetDefaults \/ Width
  BY <1>3, <1>6, DefaultsDo, WidthDoes DEF StepTo
<1>7. CASE Collect \/ Collected
  <2>1. prog'.step \in {"sii", "issue", "collecting"}
    BY <1>7, CollectDoes, CollectedDoes DEF StepTo
  <2>. QED
    BY <1>3, <2>1
<1>8. CASE Issue \/ Issued
  <2>1. GoesOn \/ prog'.step = "issuing"
    BY <1>8, IssueDoes, IssuedDoes DEF StepTo
  <2>. QED
    BY <1>3, <1>4, <2>1
<1>9. CASE LookupSii \/ LookupMapping \/ SectionsRead
  <2>1. /\ prog.stage # 10 /\ address' = address
        /\ GoesOn \/ StepTo("pdi") \/ StepTo("bytes")
    BY <1>9, LookupsDo, SectionsReadDoes
  <2>. QED
    BY <1>1, <1>3, <1>4, <2>1 DEF StepTo, Whereabouts
<1>10. CASE GivePdi
  <2>1. /\ prog.step = "pdi" /\ address' = address
        /\ GoesOn \/ StepTo("preop")
    <3>1. prog.step = "pdi"
      BY <1>10 DEF GivePdi
    <3>. QED
      BY <1>10, <3>1, GivesPdi
  <2>2. address[prog.s] = "own"
    BY <2>1 DEF PlaceInv
  <2>. QED
    BY <1>4, <2>1, <2>2 DEF StepTo, Whereabouts
<1>11. CASE AskPreOp
  BY <1>3, <1>4, <1>11, AskPreOpDoes DEF StepTo
<1>12. ASSUME NEW s \in Slaves, RecoverSlave(s) PROVE Whereabouts'
  <2>1. CASE UNCHANGED prog
    BY <1>3, <1>12, <2>1, RecoverSlaveDoes
  <2>2. CASE prog'.s = s /\ prog'.step = "control" /\ address'[s] = "temp"
    BY <2>2 DEF Whereabouts
  <2>. QED
    BY <1>12, <2>1, <2>2, RecoverSlaveDoes
<1>13. ASSUME NEW s \in Slaves, Reconfigure(s) PROVE Whereabouts'
  BY <1>13, ReconfigureDoes DEF Whereabouts
<1>14. CASE TakeEeprom \/ CompareWord
  <2>1. /\ prog.step \in Recovering /\ prog'.s = prog.s /\ address' = address
        /\ prog'.step \in Recovering
    <3>1. CASE TakeEeprom
      BY <3>1, TakeEepromDoes DEF StepTo
    <3>2. CASE CompareWord
      BY <3>2, CompareWordDoes DEF StepTo, Identity
    <3>. QED
      BY <1>14, <3>1, <3>2
  <2>2. address'[prog'.s] = "temp"
    BY <2>1 DEF PlaceInv
  <2>. QED
    BY <2>1, <2>2 DEF Whereabouts
<1>15. CASE GiveAddress
  BY <1>3, <1>15, GiveAddressDoes DEF StepTo
<1>16. ASSUME NEW s \in Slaves, Exchange(s) PROVE Whereabouts'
  BY <1>3, <1>16, ExchangeDoes
<1>17. CASE ForceControl \/ Ainc
  <2>1. prog'.step \in {"write", "ainc", "alias", "by2", "by4"}
    BY <1>17, ForceControlDoes, AincDoes DEF StepTo
  <2>. QED
    BY <1>3, <2>1
<1>18. CASE WriteWord \/ ReadImage \/ WriteAlias
  <2>1. prog'.step \in {"idle", "force", "write", "by2", "by4", "alias"}
    BY <1>18, WriteWordDoes, ReadImageDoes, WriteAliasDoes DEF StageTo
  <2>. QED
    BY <1>3, <2>1
<1>. QED
  BY <1>5, <1>6, <1>7, <1>8, <1>9, <1>10, <1>11, <1>12, <1>13, <1>14, <1>15, <1>16, <1>17, <1>18
     DEF Next, Master

\* All of the first part.
LEMMA PlaceKept == Shape /\ ReadInv /\ PlaceInv /\ [Next]_vars => PlaceInv'
<1>. SUFFICES ASSUME Shape, ReadInv, PlaceInv, [Next]_vars PROVE PlaceInv'
  OBVIOUS
<1>1. /\ DOMAIN address = Slaves /\ prog.stage \in 1 .. 17
      /\ \A s \in Slaves : node[s].present \/ s \in disturbed
      /\ prog.stage # 10 => address = [s \in Slaves |-> "own"]
      /\ prog.stage # 10 /\ ~Writing => store = first
  BY ProgIs, WhereAt, StageNumbers DEF PlaceInv, ProgShape
<1>2. \A s \in Slaves : node'[s].present \/ s \in disturbed'
  <2>1. ASSUME NEW s \in Slaves, \A t \in Slaves : SameController(t)
        PROVE  node'[s].present \/ s \in disturbed'
    BY <1>1, <2>1, DisturbedGrows DEF SameController
  <2>2. ASSUME NEW s \in Slaves, Value \/ Command PROVE node'[s].present \/ s \in disturbed'
    BY <1>1, <2>2, ValueDoes, CommandDoes, DisturbedGrows
  <2>3. ASSUME NEW s \in Slaves, NEW t \in Slaves, Execute(t) \/ Refuse(t) \/ Leave(t)
        PROVE  node'[s].present \/ s \in disturbed'
    BY <1>1, <2>3, ExecuteDoes, RefuseDoes, DisturbedGrows
  <2>4. ASSUME NEW s \in Slaves, NEW t \in Slaves, Exchange(t)
        PROVE  node'[s].present \/ s \in disturbed'
    BY <1>1, <2>4, ExchangeDoes, PoweredUpIs
  <2>. QED
    BY <2>1, <2>2, <2>3, <2>4, Controllers
<1>3. prog'.stage # 10 => prog.stage # 10
  BY <1>1, StagesKept, GivesPdi
<1>4. prog'.stage # 10 => address' = [s \in Slaves |-> "own"]
  BY <1>1, <1>3, AddressLeft, ExchangeDoes, RecoverSlaveDoes, GiveAddressDoes, StageNumbers
     DEF StepTo
<1>5. prog'.stage # 10 /\ ~Writing' => store' = first'
  <2>1. SUFFICES ASSUME prog'.stage # 10, ~Writing' PROVE store' = first'
    OBVIOUS
  <2>2. ~Writing
    BY <2>1, SetUpKept
  <2>3. store = first /\ first' = first
    BY <1>1, <1>3, <2>1, <2>2, StagesKept
  <2>4. \A s \in Slaves : Execute(s) => store' = store
    BY <2>2, ExecuteDoes DEF ReadInv
  <2>5. \A s \in Slaves : ~Exchange(s)
    BY <1>3, <2>1, StageNumbers DEF Exchange
  <2>. QED
    BY <2>3, <2>4, <2>5, StoreLeft
<1>6. Whereabouts'
  BY WhereaboutsKept
<1>. QED
  BY <1>2, <1>4, <1>5, <1>6, StageNumbers DEF PlaceInv, Whereabouts

-----------------------------------------------------------------------------
(* What may be read.                                                        *)

\* The steps of the program up to the mapping.
LEMMA ProgMoves ==
    ASSUME Shape, [Next]_vars, prog.stage \in 1 .. 9
    PROVE  \/ prog' = prog
           \/ /\ GoesOn
              /\ \/ prog.stage \in 1 .. 7 /\ prog.step \in {"issue", "issuing"}
                 \/ prog.stage = 8 /\ prog.step = "preop"
                 \/ prog.stage = 9 /\ prog.step \in {"map", "pdi"}
           \/ /\ prog'.stage = prog.stage /\ prog'.s = prog.s
              /\ \/ prog.step = "defaults" /\ prog'.step = "width"
                 \/ prog.step = "width" /\ prog'.step = "issue"
                 \/ prog.step = "issue" /\ prog'.step = "issuing"
                 \/ prog.step = "collect" /\ prog'.step = "collecting"
                 \/ /\ prog.step \in {"collect", "collecting"}
                    /\ prog'.step = IF prog.stage = 8 THEN "sii" ELSE "issue"
                 \/ prog.step = "sii" /\ prog'.step \in {"pdi", "bytes"}
                 \/ prog.step = "map" /\ prog'.step = "bytes"
                 \/ prog.step = "bytes" /\ prog'.step = "pdi"
                 \/ prog.step = "pdi" /\ prog'.step = "preop"
<1>1. CASE \/ CallStep /\ UNCHANGED infoVars
           \/ \E s \in Slaves : (Finish(s) \/ Leave(s)) /\ UNCHANGED infoVars
           \/ Sizing \/ UNCHANGED vars \/ ReadByte \/ ByteRead \/ Found
  BY <1>1 DEF infoVars, Sizing, vars, ReadByte, ByteRead, Found
<1>2. CASE SetDefaults \/ Width
  BY <1>2, DefaultsDo, WidthDoes DEF StepTo
<1>3. CASE Collect \/ Collected
  BY <1>3, CollectDoes, CollectedDoes DEF StepTo
<1>4. CASE Issue \/ Issued
  BY <1>4, IssueDoes, IssuedDoes DEF StepTo
<1>5. CASE LookupSii \/ LookupMapping \/ SectionsRead
  BY <1>5, LookupsDo, SectionsReadDoes DEF StepTo
<1>6. CASE GivePdi
  <2>1. prog.step = "pdi"
    BY <1>6 DEF GivePdi
  <2>. QED
    BY <1>6, <2>1, GivesPdi DEF StepTo
<1>7. CASE AskPreOp
  BY <1>7, AskPreOpDoes DEF StepTo
<1>8. CASE \/ \E s \in Slaves : RecoverSlave(s) \/ Reconfigure(s) \/ Exchange(s)
           \/ TakeEeprom \/ CompareWord \/ GiveAddress
  BY <1>8, RecoverSlaveDoes, ReconfigureDoes, ExchangeDoes, TakeEepromDoes, CompareWordDoes,
     GiveAddressDoes, StageNumbers
<1>9. CASE ForceControl \/ WriteWord \/ Ainc \/ ReadImage \/ WriteAlias
  BY <1>9, ForceControlDoes, WriteWordDoes, AincDoes, ReadImageDoes, WriteAliasDoes
<1>. QED
  BY <1>1, <1>2, <1>3, <1>4, <1>5, <1>6, <1>7, <1>8, <1>9 DEF Next, Master

\* How calls begin and end.
LEMMA CallMoves ==
    ASSUME Shape, [Next]_vars
    PROVE  \/ /\ UNCHANGED call
              /\ \/ call.op = "none" \/ Sizing \/ UNCHANGED vars
                 \/ \E s \in Slaves : (Finish(s) \/ Leave(s)) /\ UNCHANGED infoVars
           \/ CallStep /\ UNCHANGED infoVars
           \/ call' = NoCall
           \/ Issue /\ Begin("issue", prog.s, ECT_SII[Fields[prog.stage]], Zero) /\ StepTo("issuing")
           \/ Collect /\ Begin("collect", prog.s, 0, Zero) /\ StepTo("collecting")
           \/ ReadByte
           \/ /\ TakeEeprom \/ CompareWord
              /\ \E f \in Identity : Begin("word", prog.s, ECT_SII[f], Zero) /\ StepTo(f)
           \/ /\ WriteWord /\ NextAddress \in DOMAIN Image /\ UNCHANGED prog
              /\ Begin("write", prog.s, NextAddress, Image[NextAddress])
           \/ /\ ReadImage /\ UNCHANGED prog
              /\ Begin("dump", prog.s, IF call.op = "none" THEN 0 ELSE call.a + WordsRead, Zero)
           \/ /\ WriteAlias /\ UNCHANGED prog
              /\ \E a \in {4, 7} : \E value : Begin("write", prog.s, a, value)
<1>1. CASE \/ \E s \in Slaves : (Finish(s) \/ Leave(s)) /\ UNCHANGED infoVars
           \/ Sizing \/ UNCHANGED vars
  BY <1>1, ExecuteDoes, RefuseDoes DEF Finish, Sizing, vars, eepromVars
<1>2. CASE SetDefaults \/ Width
  BY <1>2, DefaultsDo, WidthDoes, ProgIs, CallNow
<1>3. CASE Collect \/ Collected
  BY <1>3, CollectDoes, CollectedDoes
<1>4. CASE Issue \/ Issued
  BY <1>4, IssueDoes, IssuedDoes
<1>5. CASE LookupSii \/ LookupMapping \/ SectionsRead \/ ByteRead \/ Found \/ GivePdi \/ AskPreOp
  BY <1>5, LookupsDo, SectionsReadDoes, ByteReadDoes, GivesPdi, AskPreOpDoes DEF eepromVars
<1>6. CASE \/ \E s \in Slaves : RecoverSlave(s) \/ Reconfigure(s) \/ Exchange(s)
           \/ GiveAddress
  BY <1>6, RecoverSlaveDoes, ReconfigureDoes, ExchangeDoes, GiveAddressDoes, ProgIs, CallNow
     DEF eepromVars
<1>7. CASE TakeEeprom
  BY <1>7, TakeEepromDoes DEF Identity
<1>8. CASE CompareWord
  BY <1>8, CompareWordDoes DEF Identity
<1>9. CASE ForceControl \/ WriteWord \/ Ainc \/ ReadImage
  BY <1>9, ForceControlDoes, WriteWordDoes, AincDoes, ReadImageDoes
<1>10. CASE WriteAlias
  BY <1>10, WriteAliasDoes
<1>. QED
  BY <1>1, <1>2, <1>3, <1>4, <1>5, <1>6, <1>7, <1>8, <1>9, <1>10 DEF Next, Master

\* The program goes on.
LEMMA HeaderPassed ==
    ASSUME Shape, [Next]_vars, NEW s \in Slaves, HeaderOnly(s)'
    PROVE  HeaderOnly(s)
<1>1. prog.stage \in 1 .. 17 /\ prog.s \in Nat /\ s \in Nat
  BY ProgIs, WhereAt, Constants
<1>2. prog'.stage \in 1 .. 8
  <2>1. prog'.stage \in 1 .. 17
    BY PositionKept, StageNumbers DEF Position
  <2>. QED
    BY <2>1 DEF HeaderOnly
<1>3. prog.stage \in 1 .. 8
  BY <1>1, <1>2, StagesKept
<1>. QED
  BY <1>1, <1>2, <1>3, ProgMoves, StageNumbers DEF HeaderOnly, GoesOn

\* A slave keeps its address until it is exchanged.
LEMMA OwnStays ==
    ASSUME Shape, PlaceInv, [Next]_vars, NEW s \in Slaves, ~Exchange(s), address[s] = "own"
    PROVE  address'[s] = "own"
<1>1. ASSUME NEW t \in Slaves, Exchange(t) PROVE address'[s] = "own"
  <2>1. t # s
    BY <1>1
  <2>. QED
    BY <1>1, <2>1, ExchangeDoes
<1>2. ASSUME NEW t \in Slaves, RecoverSlave(t) PROVE address'[s] = "own"
  BY <1>2, RecoverSlaveDoes
<1>3. ASSUME GiveAddress PROVE address'[s] = "own"
  <2>1. address[prog.s] = "temp"
    BY <1>3, GiveAddressDoes DEF PlaceInv
  <2>. QED
    BY <1>3, <2>1, GiveAddressDoes
<1>. QED
  BY <1>1, <1>2, <1>3, AddressLeft

\* More and more may be read of a slave, until it is exchanged.
LEMMA ReadAtGrows ==
    ASSUME Shape, PlaceInv, [Next]_vars, NEW s \in Slaves, ~Exchange(s)
    PROVE  ReadAt(s) \subseteq ReadAt(s)'
<1>1. HeaderAt \subseteq Nat /\ IdentityAt \subseteq Nat
  BY FieldPlaces, FieldNames DEF HeaderAt, IdentityAt, Identity
<1>2. HeaderOnly(s)' => HeaderOnly(s)
  BY HeaderPassed
<1>3. CASE HeaderOnly(s)
  <2>1. HeaderOnly(s) => prog.stage <= 8
    BY ProgIs, WhereAt DEF HeaderOnly
  <2>2. prog.stage # 10 /\ prog'.stage # 10
    BY <1>3, <2>1, ProgIs, WhereAt, StagesKept
  <2>3. address = [t \in Slaves |-> "own"]
    BY <2>2, StageNumbers DEF PlaceInv
  <2>4. address'[s] = "own"
    BY <2>2, <2>3, AddressLeft, ExchangeDoes, RecoverSlaveDoes, GiveAddressDoes
  <2>. QED
    BY <1>1, <1>3, <2>4 DEF ReadAt
<1>4. CASE ~HeaderOnly(s)
  <2>1. address[s] = "own" => address'[s] = "own"
    BY OwnStays
  <2>. QED
    BY <1>1, <1>2, <1>4, <2>1 DEF ReadAt
<1>. QED
  BY <1>3, <1>4

\* Nothing is written.
LEMMA StoreReadOnly ==
    ASSUME Shape, ReadInv, [Next]_vars, ~Writing, NEW s \in Slaves, ~Exchange(s)
    PROVE  store'[s] = store[s]
<1>1. \A t \in Slaves : Execute(t) => store' = store
  BY ExecuteDoes DEF ReadInv
<1>2. ASSUME NEW t \in Slaves, Exchange(t) PROVE store'[s] = store[s]
  <2>1. t # s
    BY <1>2
  <2>. QED
    BY <1>2, <2>1, ExchangeDoes
<1>. QED
  BY <1>1, <1>2, StoreLeft

\* So what could be read before can still be read.
LEMMA ReadableGrows ==
    ASSUME Shape, ReadInv, PlaceInv, [Next]_vars, ~Writing, NEW s \in Slaves, ~Exchange(s)
    PROVE  Readable(s) \subseteq Readable(s)'
<1>1. store'[s] = store[s] /\ ReadAt(s) \subseteq ReadAt(s)'
  BY StoreReadOnly, ReadAtGrows
<1>. QED
  BY <1>1 DEF Readable

\* A register after power-on, or after a lost call.
LEMMA NoDataReadable ==
    /\ \A s \in Slaves : NoData \in Readable(s) /\ NoData \in Readable(s)'
    /\ \A wide : NoData = Partly(NoData, wide)
BY RecordFields DEF Readable, Partly, NoData

\* The controllers read and have read what they may.
LEMMA ReadingKept ==
    ASSUME Shape, ReadInv, PlaceInv, [Next]_vars, ~Writing, NEW s \in Slaves
    PROVE  /\ node'[s].busy => node'[s].comm = "read" /\ node'[s].at \in ReadAt(s)'
           /\ node'[s].reg \in Readable(s)'
<1>1. /\ node[s].busy => node[s].comm = "read" /\ node[s].at \in ReadAt(s)
      /\ node[s].reg \in Readable(s)
  BY DEF ReadInv
<1>2. ~Exchange(s) => ReadAt(s) \subseteq ReadAt(s)' /\ Readable(s) \subseteq Readable(s)'
  BY ReadAtGrows, ReadableGrows
<1>3. CASE \E t \in Slaves : Exchange(t)
  <2>1. CASE Exchange(s)
    BY <2>1, ExchangeDoes, PoweredUpIs, NoDataReadable
  <2>2. CASE ~Exchange(s)
    <3>1. node'[s] = node[s]
      BY <1>3, <2>2, ExchangeDoes
    <3>. QED
      BY <1>1, <1>2, <2>2, <3>1
  <2>. QED
    BY <2>1, <2>2
<1>4. CASE \A t \in Slaves : ~Exchange(t)
  <2>1. CASE SameController(s)
    BY <1>1, <1>2, <1>4, <2>1 DEF SameController
  <2>2. CASE Value
    <3>1. call.op = "write"
      BY <2>2, ProgIs, ValueDoes DEF CallShape, PointsOf
    <3>2. Writing
      BY <3>1, ProgIs, CallNow, WhereAt, StageNumbers DEF Writing
    <3>. QED
      BY <3>2
  <2>3. CASE Command
    <3>1. call.op \in {"issue", "word", "byte", "dump", "write"}
      BY <2>3, ProgIs, CommandDoes DEF CallShape, PointsOf
    <3>2. call.op # "write"
      BY ProgIs, CallNow, WhereAt, StageNumbers DEF Writing
    <3>3. call.a \in ReadAt(call.s)
      BY <3>1, <3>2 DEF ReadInv
    <3>4. CASE s = call.s
      <4>1. node'[s] = node[s] \/ (node'[s].comm = "read" /\ node'[s].at = call.a)
        BY <2>3, <3>2, <3>4, CommandDoes DEF Told, Ignored
      <4>2. node'[s].reg = node[s].reg
        BY <2>3, <3>4, CommandDoes
      <4>. QED
        BY <1>1, <1>2, <1>4, <3>3, <3>4, <4>1, <4>2
    <3>5. CASE s # call.s
      BY <1>1, <1>2, <1>4, <2>3, <3>5, CommandDoes
    <3>. QED
      BY <3>4, <3>5
  <2>4. ASSUME NEW t \in Slaves, Execute(t)
        PROVE  /\ node'[s].busy => node'[s].comm = "read" /\ node'[s].at \in ReadAt(s)'
               /\ node'[s].reg \in Readable(s)'
    <3>1. CASE s = t
      <4>1. node[s].busy /\ ~node'[s].busy
        BY <2>4, <3>1, ExecuteDoes
      <4>2. node[s].comm = "read" /\ node[s].at \in ReadAt(s)
        BY <1>1, <4>1
      <4>3. node'[s].reg = Window(store[s], node[s].at)
        BY <2>4, <3>1, <4>2, ExecuteDoes
      <4>4. node'[s].reg \in Readable(s)
        BY <4>2, <4>3 DEF Readable
      <4>. QED
        BY <1>2, <1>4, <4>1, <4>4
    <3>2. CASE s # t
      BY <1>1, <1>2, <1>4, <2>4, <3>2, ExecuteDoes
    <3>. QED
      BY <3>1, <3>2
  <2>5. ASSUME NEW t \in Slaves, Refuse(t) \/ Leave(t)
        PROVE  /\ node'[s].busy => node'[s].comm = "read" /\ node'[s].at \in ReadAt(s)'
               /\ node'[s].reg \in Readable(s)'
    <3>1. /\ node'[s].comm = node[s].comm /\ node'[s].at = node[s].at /\ node'[s].reg = node[s].reg
          /\ node'[s].busy => node[s].busy
      BY <2>5, RefuseDoes
    <3>. QED
      BY <1>1, <1>2, <1>4, <3>1
  <2>. QED
    BY <1>4, <2>1, <2>2, <2>3, <2>4, <2>5, Controllers
<1>. QED
  BY <1>3, <1>4

\* So does the call.
LEMMA ResultKept ==
    ASSUME Shape, ReadInv, PlaceInv, [Next]_vars, ~Writing, NEW s \in Slaves, s = call'.s
    PROVE  /\ \E w \in Readable(s)' : call'.res = Partly(w, call'.r64)
           /\ call'.pc # "done" => call'.res = NoData
<1>1. /\ \E w \in Readable(call.s) : call.res = Partly(w, call.r64)
      /\ call.pc # "done" => call.res = NoData
  BY DEF ReadInv
<1>3. ASSUME call'.res = NoData
      PROVE  /\ \E w \in Readable(s)' : call'.res = Partly(w, call'.r64)
             /\ call'.pc # "done" => call'.res = NoData
  BY <1>3, NoDataReadable
<1>4. ASSUME call.s = s, call'.r64 = call.r64, call'.res = call.res,
             call'.pc # "done" => call.pc # "done"
      PROVE  /\ \E w \in Readable(s)' : call'.res = Partly(w, call'.r64)
             /\ call'.pc # "done" => call'.res = NoData
  <2>1. CASE Exchange(s)
    <3>1. call'.res = NoData
      BY <2>1, ExchangeDoes, ProgIs, CallNow, NoCallIs
    <3>. QED
      BY <1>3, <3>1
  <2>2. CASE ~Exchange(s)
    <3>1. PICK w \in Readable(s) : call.res = Partly(w, call.r64)
      BY <1>1, <1>4
    <3>2. w \in Readable(s)'
      BY <2>2, <3>1, ReadableGrows
    <3>. QED
      BY <1>1, <1>4, <3>1, <3>2
  <2>. QED
    BY <2>1, <2>2
<1>5. CASE CallStep /\ UNCHANGED infoVars
  <2>1. CASE Control \/ Wait \/ Value \/ Command
    <3>1. SameCallButPc /\ call.pc # "done"
      BY <2>1, ControlDoes, WaitDoes, ValueDoes, CommandDoes
    <3>. QED
      BY <1>4, <3>1 DEF SameCallButPc, SameCall
  <2>2. CASE Await
    <3>1. call'.res = NoData
      BY <1>1, <2>2, AwaitDoes
    <3>. QED
      BY <1>3, <3>1
  <2>3. CASE Data
    <3>1. CASE call'.res = call.res
      BY <1>4, <2>3, <3>1, DataDoes DEF SameCall
    <3>2. CASE call'.res = Partly(node[call.s].reg, call.r64)
      <4>1. s = call.s /\ call'.pc = "done" /\ call'.r64 = call.r64 /\ UNCHANGED node
        BY <2>3, DataDoes DEF SameCall
      <4>2. node'[s].reg \in Readable(s)'
        BY ReadingKept
      <4>. QED
        BY <3>2, <4>1, <4>2
    <3>. QED
      BY <2>3, <3>1, <3>2, DataDoes
  <2>. QED
    BY <1>5, <2>1, <2>2, <2>3 DEF CallStep
<1>6. CASE UNCHANGED call
  BY <1>4, <1>6
<1>7. CASE call' = NoCall \/ \E op, t, a, value : Begin(op, t, a, value)
  <2>1. call'.res = NoData
    BY <1>7, NoCallIs, BeginDoes
  <2>. QED
    BY <1>3, <2>1
<1>. QED
  BY <1>5, <1>6, <1>7, CallMoves, ReadByteDoes

\* And what is asked for.
LEMMA AskedKept ==
    ASSUME Shape, ReadInv, PlaceInv, [Next]_vars, ~Writing, ~Writing', NEW s \in Slaves, s = call'.s,
           call'.op \in {"issue", "word", "byte", "dump"}
    PROVE  call'.a \in ReadAt(s)'
<1>1. call.op \in {"issue", "word", "byte", "dump"} => call.a \in ReadAt(call.s)
  BY DEF ReadInv
<1>2. ASSUME s = call.s, call'.a = call.a, call'.op = call.op PROVE call'.a \in ReadAt(s)'
  <2>1. ~Exchange(s)
    BY <1>2, ExchangeDoes, ProgIs, CallNow
  <2>2. ReadAt(s) \subseteq ReadAt(s)'
    BY <2>1, ReadAtGrows
  <2>. QED
    BY <1>1, <1>2, <2>2
<1>3. CASE CallStep
  <2>1. SameCall
    BY <1>3, ControlDoes, WaitDoes, ValueDoes, CommandDoes, AwaitDoes, DataDoes
       DEF CallStep, SameCallButPc
  <2>. QED
    BY <1>2, <2>1 DEF SameCall
<1>4. CASE UNCHANGED call
  BY <1>2, <1>4
<1>5. CASE Issue /\ Begin("issue", prog.s, ECT_SII[Fields[prog.stage]], Zero) /\ StepTo("issuing")
  <2>1. /\ prog.stage \in 1 .. 7 /\ prog'.stage = prog.stage
        /\ call'.a = ECT_SII[Fields[prog.stage]]
    <3>1. prog.stage \in 1 .. 7
      BY <1>5, IssueDoes
    <3>2. call'.a = ECT_SII[Fields[prog.stage]]
      BY <1>5, BeginAsks
    <3>. QED
      BY <1>5, <3>1, <3>2 DEF StepTo
  <2>2. HeaderOnly(s)'
    BY <2>1 DEF HeaderOnly
  <2>3. call'.a \in HeaderAt
    BY <2>1, FieldPlaces DEF HeaderAt
  <2>. QED
    BY <2>2, <2>3 DEF ReadAt
<1>6. CASE ReadByte
  <2>1. /\ prog.step = "bytes" /\ prog.stage \in {8, 9} /\ prog' = prog /\ address' = address
    BY <1>6, ReadByteDoes DEF infoVars
  <2>2. PICK a \in Nat : Begin("byte", prog.s, a, Zero)
    BY <1>6, ReadByteDoes
  <2>3. s = prog.s /\ call'.a \in Nat
    BY <2>2, BeginAsks
  <2>4. address'[s] = "own"
    BY <2>1, StageNumbers DEF PlaceInv
  <2>5. prog.s \in Nat
    BY ProgIs, Constants
  <2>6. ~HeaderOnly(s)'
    BY <2>1, <2>3, <2>5 DEF HeaderOnly
  <2>. QED
    BY <2>3, <2>4, <2>6 DEF ReadAt
<1>7. CASE /\ TakeEeprom \/ CompareWord
           /\ \E f \in Identity : Begin("word", prog.s, ECT_SII[f], Zero) /\ StepTo(f)
  <2>1. /\ prog.step \in {"control", "id", "man", "rev"} /\ prog.stage = 10 /\ address' = address
    BY <1>7, TakeEepromDoes, CompareWordDoes DEF Identity
  <2>2. PICK f \in Identity : Begin("word", prog.s, ECT_SII[f], Zero) /\ StepTo(f)
    BY <1>7
  <2>6. call'.s = prog.s /\ call'.a = ECT_SII[f]
    BY <2>2, BeginAsks
  <2>3. s = prog.s /\ call'.a \in IdentityAt /\ prog'.stage = 10
    BY <2>1, <2>2, <2>6 DEF StepTo, IdentityAt
  <2>4. address'[s] = "temp"
    BY <2>1, <2>3 DEF PlaceInv
  <2>5. ~HeaderOnly(s)'
    BY <2>3 DEF HeaderOnly
  <2>. QED
    BY <2>3, <2>4, <2>5 DEF ReadAt
<1>8. CASE /\ ReadImage /\ UNCHANGED prog
           /\ Begin("dump", prog.s, IF call.op = "none" THEN 0 ELSE call.a + WordsRead, Zero)
  <2>1. prog.stage = 14 /\ prog' = prog /\ address' = address
    BY <1>8, ReadImageDoes
  <2>2. call'.a = IF call.op = "none" THEN 0 ELSE call.a + WordsRead
    BY <1>8, BeginAsks
  <2>3. call'.a \in Nat
    BY <2>2, ProgIs DEF CallShape, WordsRead
  <2>4. address'[s] = "own"
    BY <2>1, StageNumbers DEF PlaceInv
  <2>5. ~HeaderOnly(s)'
    BY <2>1 DEF HeaderOnly
  <2>. QED
    BY <2>3, <2>4, <2>5 DEF ReadAt
<1>9. CASE \/ call' = NoCall
           \/ \E t, a, value : Begin("collect", t, a, value) \/ Begin("write", t, a, value)
  BY <1>9, NoCallIs, BeginAsks
<1>. QED
  BY <1>3, <1>4, <1>5, <1>6, <1>7, <1>8, <1>9, CallMoves

\* All of this part; a tool that goes on to write has no call.
LEMMA ReadKept == Shape /\ ReadInv /\ PlaceInv /\ [Next]_vars => ReadInv'
<1>. SUFFICES ASSUME Shape, ReadInv, PlaceInv, [Next]_vars, ~Writing' PROVE ReadInv'
  BY DEF ReadInv
<1>1. ~Writing
  BY SetUpKept
<1>2. \A s \in Slaves : /\ node'[s].busy => node'[s].comm = "read" /\ node'[s].at \in ReadAt(s)'
                        /\ node'[s].reg \in Readable(s)'
  BY <1>1, ReadingKept
<1>3. PICK s \in Slaves : s = call'.s
  BY CallKept DEF CallShape
<1>4. /\ \E w \in Readable(s)' : call'.res = Partly(w, call'.r64)
      /\ call'.pc # "done" => call'.res = NoData
      /\ call'.op \in {"issue", "word", "byte", "dump"} => call'.a \in ReadAt(s)'
  BY <1>1, <1>3, ResultKept, AskedKept
<1>. QED
  BY <1>2, <1>3, <1>4 DEF ReadInv, Readable, ReadAt, HeaderOnly

-----------------------------------------------------------------------------
(* Who has the EEPROM.                                                      *)

\* Who changes owner or flag.
LEMMA OwnersLeft ==
    ASSUME Shape, [Next]_vars
    PROVE  \/ \A s \in Slaves : /\ node'[s].owner = node[s].owner
                                /\ slavelist'[s].eep_pdi = slavelist[s].eep_pdi
           \/ Control /\ UNCHANGED infoVars
           \/ SetDefaults \/ Found \/ GivePdi \/ TakeEeprom \/ ForceControl
           \/ \E s \in Slaves : Exchange(s)
<1>1. CASE CallStep /\ UNCHANGED infoVars
  BY <1>1, WaitDoes, ValueDoes, CommandDoes, AwaitDoes, DataDoes DEF CallStep
<1>2. CASE \E s \in Slaves : (Finish(s) \/ Leave(s)) /\ UNCHANGED infoVars
  BY <1>2, ExecuteDoes, RefuseDoes DEF Finish
<1>3. CASE Width \/ Collect \/ Collected \/ Issue \/ Issued
  BY <1>3, WidthDoes, CollectDoes, CollectedDoes, IssueDoes, IssuedDoes
<1>4. CASE LookupSii \/ LookupMapping \/ ReadByte \/ ByteRead \/ SectionsRead \/ AskPreOp
  BY <1>4, LookupsDo, ReadByteDoes, ByteReadDoes, SectionsReadDoes, AskPreOpDoes DEF eepromVars
<1>5. CASE (\E s \in Slaves : RecoverSlave(s) \/ Reconfigure(s)) \/ CompareWord \/ GiveAddress
  BY <1>5, RecoverSlaveDoes, ReconfigureDoes, CompareWordDoes, GiveAddressDoes DEF eepromVars
<1>6. CASE WriteWord \/ Ainc \/ ReadImage \/ WriteAlias \/ Sizing \/ UNCHANGED vars
  BY <1>6, WriteWordDoes, AincDoes, ReadImageDoes, WriteAliasDoes DEF Sizing, vars, eepromVars
<1>. QED
  BY <1>1, <1>2, <1>3, <1>4, <1>5, <1>6 DEF Next, Master

\* Which steps of the program come and go with which action.
LEMMA StepsBy ==
    ASSUME Shape, [Next]_vars, prog' # prog
    PROVE  /\ prog.step = "defaults" => SetDefaults
           /\ prog.step = "width" => Width
           /\ prog.step = "collect" => Collect
           /\ prog.step = "collecting" => Collected
           /\ prog.step = "issue" => Issue
           /\ prog.step = "issuing" => Issued
           /\ prog.step = "control" => TakeEeprom
           /\ prog.step = "force" => ForceControl
           /\ prog.step = "pdi" => GivePdi
           /\ prog'.step # "defaults"
           /\ prog'.step = "control" => \E s \in Slaves : RecoverSlave(s) /\ prog'.s = s
           /\ prog'.step = "preop" => GivePdi
           /\ prog'.step \in {"man", "rev", "address"} => CompareWord
<1>1. CASE SetDefaults \/ Width \/ Collect \/ Collected
  BY <1>1, DefaultsDo, WidthDoes, CollectDoes, CollectedDoes DEF StepTo
<1>2. CASE Issue \/ Issued
  BY <1>2, IssueDoes, IssuedDoes DEF StepTo, GoesOn
<1>3. CASE LookupSii \/ LookupMapping \/ SectionsRead
  BY <1>3, LookupsDo, SectionsReadDoes DEF StepTo, GoesOn
<1>4. CASE GivePdi
  BY <1>4, GivesPdi DEF StepTo, GoesOn
<1>5. CASE AskPreOp
  BY <1>5, AskPreOpDoes DEF StepTo, GoesOn
<1>6. CASE \E s \in Slaves : RecoverSlave(s) \/ Reconfigure(s)
  BY <1>6, RecoverSlaveDoes, ReconfigureDoes
<1>7. CASE TakeEeprom \/ CompareWord \/ GiveAddress
  BY <1>7, TakeEepromDoes, CompareWordDoes, GiveAddressDoes DEF StepTo, Identity
<1>8. CASE ForceControl \/ Ainc
  BY <1>8, ForceControlDoes, AincDoes DEF StepTo
<1>9. CASE WriteWord \/ ReadImage \/ WriteAlias
  BY <1>9, WriteWordDoes, ReadImageDoes, WriteAliasDoes DEF StageTo
<1>10. CASE \/ CallStep /\ UNCHANGED infoVars
            \/ \E s \in Slaves : (Finish(s) \/ Leave(s)) /\ UNCHANGED infoVars
            \/ \E s \in Slaves : Exchange(s)
            \/ Sizing \/ UNCHANGED vars \/ ReadByte \/ ByteRead \/ Found
  BY <1>10 DEF infoVars, Sizing, vars, ReadByte, ByteRead, Found, Exchange
<1>. QED
  BY <1>1, <1>2, <1>3, <1>4, <1>5, <1>6, <1>7, <1>8, <1>9, <1>10 DEF Next, Master

\* An exchange that does not disturb a slave that is there.
LEMMA GivenTo ==
    ASSUME PlaceInv, NEW s \in Slaves, NEW owner, Given(s, owner), s \notin disturbed'
    PROVE  node'[s].owner = owner
BY DEF Given, Done, Lost, Gone, PlaceInv

\* The flag still says who has it.
LEMMA FlagTellsKept ==
    ASSUME Shape, PlaceInv, OwnerInv, [Next]_vars, NEW s \in Slaves, s \notin disturbed'
    PROVE  FlagTells(s)'
<1>1. /\ s \notin disturbed /\ FlagTells(s) /\ prog.s \in Slaves /\ call.s \in Slaves
      /\ node[s].present
  BY DisturbedGrows, ProgIs DEF OwnerInv, PlaceInv
<1>2. SetUp' <=> SetUp
  BY SetUpKept
<1>3. CASE /\ node'[s].owner = node[s].owner /\ slavelist'[s].eep_pdi = slavelist[s].eep_pdi
           /\ ~SetDefaults /\ ~TakeEeprom /\ ~Exchange(s)
  <2>1. prog.step = "defaults" \/ prog.step = "control" => prog' = prog
    BY <1>3, StepsBy
  <2>2. address'[s] # "none" /\ ~(prog'.step = "control" /\ prog'.s = s) => address[s] # "none"
    <3>1. ASSUME NEW t \in Slaves, Exchange(t), address[s] = "none" PROVE address'[s] = "none"
      BY <1>3, <3>1, ExchangeDoes
    <3>2. ASSUME NEW t \in Slaves, RecoverSlave(t), address[s] = "none"
          PROVE  address'[s] = "none" \/ (prog'.step = "control" /\ prog'.s = s)
      BY <3>2, RecoverSlaveDoes
    <3>3. ASSUME GiveAddress, address[s] = "none" PROVE address'[s] = "none"
      <4>1. address[prog.s] = "temp"
        BY <3>3, GiveAddressDoes DEF PlaceInv
      <4>. QED
        BY <3>3, <4>1, GiveAddressDoes
    <3>. QED
      BY <3>1, <3>2, <3>3, AddressLeft
  <2>3. prog'.step # "defaults" => prog.step # "defaults"
    BY <2>1
  <2>. QED
    BY <1>1, <1>2, <1>3, <2>1, <2>2, <2>3 DEF FlagTells
<1>4. CASE Control /\ UNCHANGED infoVars
  <2>1. CASE s # call.s
    <3>1. /\ node'[s].owner = node[s].owner /\ slavelist'[s].eep_pdi = slavelist[s].eep_pdi
      BY <1>4, <2>1, ControlDoes DEF SameButOwner, SameButFlag
    <3>2. UNCHANGED <<prog, address>>
      BY <1>4 DEF infoVars
    <3>. QED
      BY <1>1, <1>2, <3>1, <3>2 DEF FlagTells
  <2>2. CASE s = call.s
    <3>1. ~slavelist'[s].eep_pdi
      BY <1>4, <2>2, ControlDoes
    <3>2. UNCHANGED <<prog, address>>
      BY <1>4 DEF infoVars
    <3>3. CASE slavelist[s].eep_pdi
      <4>1. node'[s].owner = "master"
        BY <1>4, <2>2, <3>3, ControlDoes, GivenTo
      <4>. QED
        BY <3>1, <4>1 DEF FlagTells
    <3>4. CASE ~slavelist[s].eep_pdi
      <4>1. node' = node
        BY <1>4, <2>2, <3>4, ControlDoes
      <4>. QED
        BY <1>1, <1>2, <3>1, <3>2, <3>4, <4>1 DEF FlagTells
    <3>. QED
      BY <3>3, <3>4
  <2>. QED
    BY <2>1, <2>2
<1>5. CASE SetDefaults
  <2>1. node'[s].owner = "master"
    BY <1>1, <1>5, DefaultsDo
  <2>2. prog.step = "defaults" /\ slavelist' = slavelist
    BY <1>5, DefaultsDo
  <2>3. ~slavelist'[s].eep_pdi
    BY <2>2 DEF OwnerInv
  <2>. QED
    BY <2>1, <2>3 DEF FlagTells
<1>6. CASE Found \/ GivePdi
  <2>1. CASE s # prog.s
    <3>1. /\ node'[s].owner = node[s].owner /\ slavelist'[s].eep_pdi = slavelist[s].eep_pdi
      BY <1>6, <2>1, GivesPdi DEF SameButOwner, SameButFlag
    <3>2. address' = address /\ prog.step # "defaults" /\ prog.step # "control"
      BY <1>6, GivesPdi
    <3>. QED
      BY <1>1, <1>2, <3>1, <3>2 DEF FlagTells
  <2>2. CASE s = prog.s
    <3>1. slavelist'[s].eep_pdi
      BY <1>6, <2>2, GivesPdi
    <3>2. CASE ~slavelist[s].eep_pdi
      <4>1. node'[s].owner = "pdi"
        BY <1>6, <2>2, <3>2, GivesPdi, GivenTo
      <4>. QED
        BY <3>1, <4>1 DEF FlagTells
    <3>3. CASE slavelist[s].eep_pdi
      <4>1. node' = node /\ address' = address
        BY <1>6, <2>2, <3>3, GivesPdi
      <4>2. address[s] = "own"
        <5>1. (prog.step = "bytes" /\ prog.stage = 9) \/ prog.step = "pdi"
          BY <1>6, GivesPdi
        <5>. QED
          BY <2>2, <5>1, StageNumbers DEF PlaceInv
      <4>3. prog.step # "control"
        BY <1>6, GivesPdi
      <4>. QED
        BY <1>1, <3>1, <3>3, <4>1, <4>2, <4>3 DEF FlagTells
    <3>. QED
      BY <3>2, <3>3
  <2>. QED
    BY <2>1, <2>2
<1>7. CASE TakeEeprom
  <2>1. CASE s # prog.s
    <3>1. /\ node'[s].owner = node[s].owner /\ slavelist'[s].eep_pdi = slavelist[s].eep_pdi
      BY <1>7, <2>1, TakeEepromDoes DEF SameButOwner, SameButFlag
    <3>2. address' = address /\ prog.step # "defaults" /\ prog.s # s
      BY <1>7, <2>1, TakeEepromDoes
    <3>. QED
      BY <1>1, <1>2, <3>1, <3>2 DEF FlagTells
  <2>2. CASE s = prog.s
    <3>1. ~slavelist'[s].eep_pdi /\ prog.step # "defaults"
      BY <1>7, <2>2, TakeEepromDoes
    <3>2. CASE slavelist[s].eep_pdi
      <4>1. node'[s].owner = "master"
        BY <1>7, <2>2, <3>2, TakeEepromDoes, GivenTo
      <4>. QED
        BY <3>1, <4>1 DEF FlagTells
    <3>3. CASE ~slavelist[s].eep_pdi
      <4>1. node' = node
        BY <1>7, <2>2, <3>3, TakeEepromDoes
      <4>. QED
        BY <1>1, <1>2, <3>1, <3>3, <4>1 DEF FlagTells
    <3>. QED
      BY <3>2, <3>3
  <2>. QED
    BY <2>1, <2>2
<1>8. CASE ForceControl
  <2>1. ~SetUp /\ slavelist' = slavelist
    BY <1>8, ForceControlDoes, StageNumbers DEF SetUp
  <2>2. ~slavelist'[s].eep_pdi
    BY <2>1 DEF OwnerInv
  <2>. QED
    BY <1>2, <2>1, <2>2 DEF FlagTells
<1>9. ASSUME NEW t \in Slaves, Exchange(t) PROVE FlagTells(s)'
  <2>1. CASE s = t
    BY <1>9, <2>1, ExchangeDoes, PoweredUpIs DEF FlagTells
  <2>2. CASE s # t
    <3>1. /\ node'[s] = node[s] /\ slavelist' = slavelist /\ address'[s] = address[s]
          /\ prog' = prog
      BY <1>9, <2>2, ExchangeDoes
    <3>. QED
      BY <1>1, <1>2, <3>1 DEF FlagTells
  <2>. QED
    BY <2>1, <2>2
<1>. QED
  BY <1>3, <1>4, <1>5, <1>6, <1>7, <1>8, <1>9, OwnersLeft

\* The tool still has it.
LEMMA ToolOwnsKept == Shape /\ PlaceInv /\ OwnerInv /\ [Next]_vars => ToolOwns'
<1>. SUFFICES ASSUME Shape, PlaceInv, OwnerInv, [Next]_vars,
                     prog'.stage \in {11, 14, 16}, prog'.step # "force", prog'.s \notin disturbed'
              PROVE  node'[prog'.s].owner = "master"
  BY StageNumbers DEF ToolOwns
<1>1. prog.stage = prog'.stage
  <2>1. CASE ReadImage
    BY <2>1, ReadImageDoes DEF StageTo
  <2>2. CASE ~ReadImage
    BY <2>2, StagesKept
  <2>. QED
    BY <2>1, <2>2
<1>2. prog'.s = prog.s /\ (prog.step = "force" => ForceControl)
  <2>1. CASE prog' = prog
    BY <2>1
  <2>2. CASE ForceControl \/ Ainc
    BY <2>2, ForceControlDoes, AincDoes DEF StepTo
  <2>3. CASE WriteWord \/ ReadImage \/ WriteAlias
    BY <2>3, WriteWordDoes, ReadImageDoes, WriteAliasDoes DEF StageTo
  <2>4. CASE SetDefaults \/ Width \/ Collect \/ Collected \/ Issue \/ Issued
    BY <1>1, <2>4, DefaultsDo, WidthDoes, CollectDoes, CollectedDoes, IssueDoes, IssuedDoes,
       ProgIs, WhereAt
  <2>5. CASE LookupSii \/ LookupMapping \/ SectionsRead \/ GivePdi \/ AskPreOp
    BY <1>1, <2>5, LookupsDo, SectionsReadDoes, GivesPdi, AskPreOpDoes
  <2>6. CASE \/ \E s \in Slaves : RecoverSlave(s) \/ Reconfigure(s)
             \/ TakeEeprom \/ CompareWord \/ GiveAddress
    BY <1>1, <2>6, RecoverSlaveDoes, ReconfigureDoes, TakeEepromDoes, CompareWordDoes,
       GiveAddressDoes
  <2>7. CASE \/ CallStep /\ UNCHANGED infoVars
             \/ \E s \in Slaves : (Finish(s) \/ Leave(s)) /\ UNCHANGED infoVars
             \/ \E s \in Slaves : Exchange(s)
             \/ Sizing \/ UNCHANGED vars \/ ReadByte \/ ByteRead \/ Found
    BY <2>1, <2>7 DEF infoVars, Sizing, vars, ReadByte, ByteRead, Found, Exchange
  <2>. QED
    BY <2>2, <2>3, <2>4, <2>5, <2>6, <2>7 DEF Next, Master
<1>3. prog.s \in Slaves /\ prog.s \notin disturbed
  BY <1>2, DisturbedGrows, ProgIs
<1>4. CASE ForceControl
  BY <1>2, <1>3, <1>4, ForceControlDoes, GivenTo
<1>5. CASE ~ForceControl
  <2>1. node[prog.s].owner = "master"
    BY <1>1, <1>2, <1>3, <1>5, StageNumbers DEF OwnerInv, ToolOwns
  <2>2. ~SetDefaults /\ ~Found /\ ~GivePdi /\ ~TakeEeprom /\ \A s \in Slaves : ~Exchange(s)
    BY <1>1, DefaultsDo, GivesPdi, TakeEepromDoes, ExchangeDoes, ProgIs, WhereAt, StageNumbers
  <2>3. ~Control
    <3>1. call.op \in {"none", "dump", "write"}
      BY <1>1, ProgIs, CallNow, WhereAt DEF CallShape, CallsAt
    <3>. QED
      BY <3>1, ProgIs, ControlDoes DEF CallShape, PointsOf
  <2>. QED
    BY <1>2, <1>3, <1>5, <2>1, <2>2, <2>3, OwnersLeft
<1>. QED
  BY <1>4, <1>5

\* Who is asked for PRE_OP.
LEMMA AskedLeft ==
    ASSUME [Next]_vars
    PROVE  asked' = asked \/ AskPreOp \/ \E s \in Slaves : Exchange(s)
<1>1. CASE \/ CallStep /\ UNCHANGED infoVars
           \/ \E s \in Slaves : (Finish(s) \/ Leave(s)) /\ UNCHANGED infoVars
           \/ Sizing \/ UNCHANGED vars
  BY <1>1 DEF infoVars, Sizing, vars
<1>2. CASE SetDefaults \/ Width \/ Collect \/ Collected \/ Issue \/ Issued
  BY <1>2 DEF SetDefaults, Width, Collect, Collected, Issue, Issued
<1>3. CASE LookupSii \/ LookupMapping \/ ReadByte \/ ByteRead \/ Found \/ SectionsRead \/ GivePdi
  BY <1>3 DEF LookupSii, LookupMapping, ReadByte, ByteRead, Found, SectionsRead, GivePdi, infoVars
<1>4. CASE \/ \E s \in Slaves : RecoverSlave(s) \/ Reconfigure(s)
           \/ TakeEeprom \/ CompareWord \/ GiveAddress
  BY <1>4 DEF RecoverSlave, Reconfigure, TakeEeprom, CompareWord, GiveAddress
<1>5. CASE ForceControl \/ WriteWord \/ Ainc \/ ReadImage \/ WriteAlias
  BY <1>5 DEF ForceControl, WriteWord, Ainc, ReadImage, WriteAlias
<1>. QED
  BY <1>1, <1>2, <1>3, <1>4, <1>5 DEF Next, Master

\* The flags of those who have been asked.
LEMMA AskedFlags ==
    ASSUME Shape, PlaceInv, OwnerInv, [Next]_vars, NEW s \in asked, ~Exchange(s)
    PROVE  slavelist'[s].eep_pdi \/ (prog'.stage = 9 /\ prog'.s = s /\ prog'.step # "map")
<1>1. /\ s \in Slaves /\ address[s] = "own"
      /\ (prog.stage = 8 /\ s < prog.s) \/ prog.stage \in {9, 10}
      /\ slavelist[s].eep_pdi \/ (prog.stage = 9 /\ prog.s = s /\ prog.step # "map")
      /\ prog.s \in Slaves /\ prog.s \in Nat /\ call.s \in Slaves
  BY ProgIs, Constants, StageNumbers DEF ProgShape, OwnerInv, AskedFits
<1>2. CASE prog.stage = 9 /\ prog.s = s /\ prog.step # "map" /\ ~GivePdi /\ ~Found
  <2>1. prog.step # "issue" /\ prog.step # "issuing" /\ prog.step # "preop"
    BY <1>2, ProgIs, WhereAt
  <2>2. prog.step = "pdi" => prog' = prog
    BY <1>2, StepsBy
  <2>3. prog'.stage = 9 /\ prog'.s = s /\ prog'.step # "map"
    BY <1>2, <2>1, <2>2, ProgMoves
  <2>. QED
    BY <2>3
<1>3. CASE slavelist[s].eep_pdi /\ slavelist'[s].eep_pdi = slavelist[s].eep_pdi
  BY <1>3
<1>4. CASE Found \/ GivePdi
  <2>1. CASE s = prog.s
    BY <1>4, <2>1, GivesPdi
  <2>2. CASE s # prog.s
    <3>1. slavelist'[s] = slavelist[s]
      BY <1>1, <1>4, <2>2, GivesPdi DEF SameButFlag
    <3>. QED
      BY <1>1, <2>2, <3>1
  <2>. QED
    BY <2>1, <2>2
<1>5. CASE Control /\ UNCHANGED infoVars
  <2>1. CASE s = call.s
    <3>1. call.op \in {"issue", "word", "byte"}
      BY <1>5, ProgIs, ControlDoes DEF CallShape, PointsOf
    <3>2. prog' = prog /\ call.s = prog.s
      BY <1>5, <3>1, ProgIs, CallNow DEF infoVars
    <3>3. call.op # "issue"
      BY <1>1, ProgIs, CallNow, WhereAt
    <3>4. call.op # "word"
      <4>1. call.op = "word" => address[prog.s] = "temp"
        BY ProgIs, CallNow DEF PlaceInv, Identity
      <4>. QED
        BY <1>1, <2>1, <3>2, <4>1
    <3>5. prog.step = "bytes" /\ prog.stage \in {8, 9}
      BY <3>1, <3>3, <3>4, ProgIs, CallNow, WhereAt
    <3>. QED
      BY <1>1, <2>1, <3>2, <3>5
  <2>2. CASE s # call.s
    <3>1. slavelist'[s] = slavelist[s] /\ prog' = prog
      BY <1>1, <1>5, <2>2, ControlDoes DEF SameButFlag, infoVars
    <3>. QED
      BY <1>1, <3>1
  <2>. QED
    BY <2>1, <2>2
<1>6. CASE SetDefaults \/ ForceControl
  BY <1>1, <1>6, DefaultsDo, ForceControlDoes, ProgIs, WhereAt
<1>7. CASE TakeEeprom
  <2>1. prog.stage = 10 /\ address[prog.s] = "temp"
    BY <1>7, TakeEepromDoes DEF PlaceInv
  <2>2. s # prog.s /\ slavelist[s].eep_pdi
    BY <1>1, <2>1
  <2>. QED
    BY <1>1, <1>7, <2>2, TakeEepromDoes DEF SameButFlag
<1>8. ASSUME NEW t \in Slaves, Exchange(t)
      PROVE  slavelist'[s].eep_pdi \/ (prog'.stage = 9 /\ prog'.s = s /\ prog'.step # "map")
  BY <1>1, <1>8, ExchangeDoes
<1>. QED
  BY <1>1, <1>2, <1>3, <1>4, <1>5, <1>6, <1>7, <1>8, OwnersLeft

\* They still fit.
LEMMA AskedFitsKept ==
    ASSUME Shape, PlaceInv, OwnerInv, [Next]_vars, NEW s \in asked'
    PROVE  AskedFits(s)'
<1>1. ASSUME s \in asked, ~Exchange(s) PROVE AskedFits(s)'
  <2>1. /\ s \in Slaves /\ s \in Nat /\ address[s] = "own"
        /\ (prog.stage = 8 /\ s < prog.s) \/ prog.stage \in {9, 10}
        /\ prog.s \in Nat /\ prog.stage \in 1 .. 17
    BY <1>1, ProgIs, WhereAt, Constants, StageNumbers DEF ProgShape, OwnerInv, AskedFits
  <2>2. address'[s] = "own"
    BY <1>1, <2>1, OwnStays
  <2>3. CASE prog.stage = 8
    <3>1. (prog'.stage = 8 /\ s < prog'.s) \/ prog'.stage = 9
      BY <2>1, <2>3, ProgMoves DEF GoesOn
    <3>. QED
      BY <1>1, <2>2, <3>1, AskedFlags, StageNumbers DEF AskedFits
  <2>4. CASE prog.stage \in {9, 10}
    <3>1. prog'.stage \in {9, 10}
      BY <2>4, StagesKept
    <3>. QED
      BY <1>1, <2>2, <3>1, AskedFlags, StageNumbers DEF AskedFits
  <2>. QED
    BY <2>1, <2>3, <2>4
<1>2. CASE s \notin asked
  <2>1. AskPreOp
    BY <1>2, AskedLeft, ExchangeDoes
  <2>2. s = prog.s /\ prog.step = "preop"
    BY <1>2, <2>1, AskPreOpDoes
  <2>3. address'[s] = "own" /\ slavelist'[s].eep_pdi
    BY <2>1, <2>2, AskPreOpDoes DEF PlaceInv, OwnerInv, eepromVars
  <2>4. (prog'.stage = 8 /\ s < prog'.s) \/ prog'.stage \in {9, 10}
    <3>1. prog.s \in Nat
      BY ProgIs, Constants
    <3>2. \/ prog.stage = 10 /\ StepTo("idle")
          \/ prog.stage = 8 /\ GoesOn
      BY <2>1, AskPreOpDoes
    <3>. QED
      BY <2>2, <3>1, <3>2 DEF StepTo, GoesOn
  <2>. QED
    BY <2>3, <2>4, StageNumbers DEF AskedFits
<1>3. CASE Exchange(s)
  <2>1. s \in Slaves
    BY ProgKept DEF ProgShape
  <2>. QED
    BY <1>3, <2>1, ExchangeDoes
<1>. QED
  BY <1>1, <1>2, <1>3

\* All of this part.
LEMMA OwnerKept == Shape /\ PlaceInv /\ OwnerInv /\ [Next]_vars => OwnerInv'
<1>. SUFFICES ASSUME Shape, PlaceInv, OwnerInv, [Next]_vars PROVE OwnerInv'
  OBVIOUS
<1>1. \A s \in Slaves \ disturbed' : FlagTells(s)'
  BY FlagTellsKept
<1>2. ToolOwns'
  BY ToolOwnsKept
<1>3. \A s \in asked' : AskedFits(s)'
  BY AskedFitsKept
<1>4. prog'.step = "preop" => slavelist'[prog'.s].eep_pdi
  <2>1. CASE prog' # prog /\ prog'.step = "preop"
    <3>1. GivePdi
      BY <2>1, StepsBy
    <3>. QED
      BY <2>1, <3>1, GivesPdi DEF StepTo, GoesOn
  <2>2. CASE prog' = prog /\ prog.step = "preop"
    <3>1. slavelist[prog.s].eep_pdi /\ prog.s \in Slaves
      BY <2>2, ProgIs DEF OwnerInv
    <3>2. call.op = "none" /\ call.pc = "done"
      BY <2>2, ProgIs, CallNow
    <3>3. ~Control /\ ~SetDefaults /\ ~TakeEeprom /\ ~ForceControl
      BY <2>2, <3>2, ControlDoes, DefaultsDo, TakeEepromDoes, ForceControlDoes
    <3>. QED
      BY <2>2, <3>1, <3>3, OwnersLeft, GivesPdi, ExchangeDoes
  <2>. QED
    BY <2>1, <2>2
<1>5. ~SetUp' \/ prog'.step = "defaults" => \A s \in Slaves : ~slavelist'[s].eep_pdi
  <2>1. SUFFICES ASSUME ~SetUp' \/ prog'.step = "defaults", NEW s \in Slaves
                 PROVE  ~slavelist'[s].eep_pdi
    OBVIOUS
  <2>2. prog'.step = "defaults" => prog.step = "defaults"
    BY StepsBy
  <2>3. (~SetUp \/ prog.step = "defaults") /\ ~slavelist[s].eep_pdi
    BY <2>1, <2>2, SetUpKept DEF OwnerInv
  <2>4. ~Found /\ ~GivePdi
    BY <2>3, GivesPdi, StageNumbers DEF SetUp
  <2>5. CASE Control
    BY <2>3, <2>5, ControlDoes, ProgIs DEF SameButFlag
  <2>6. CASE TakeEeprom
    BY <2>3, <2>6, TakeEepromDoes, ProgIs DEF SameButFlag
  <2>7. CASE SetDefaults \/ ForceControl \/ \E t \in Slaves : Exchange(t)
    BY <2>3, <2>7, DefaultsDo, ForceControlDoes, ExchangeDoes
  <2>. QED
    BY <2>3, <2>4, <2>5, <2>6, <2>7, OwnersLeft
<1>. QED
  BY <1>1, <1>2, <1>3, <1>4, <1>5 DEF OwnerInv

-----------------------------------------------------------------------------
(* What a call is told.                                                     *)

\* A controller that has been told to read a word has it in the end.
LEMMA HasReadKept ==
    ASSUME Shape, ReadInv, [Next]_vars, ~Writing, NEW s \in Slaves, NEW a, HasRead(s, a),
           ~Exchange(s), Value \/ Command => node'[s] = node[s]
    PROVE  HasRead(s, a)'
<1>1. store'[s] = store[s]
  BY StoreReadOnly
<1>2. CASE SameController(s)
  BY <1>1, <1>2 DEF SameController, HasRead
<1>3. CASE node'[s] = node[s]
  BY <1>1, <1>3 DEF HasRead
<1>4. CASE Execute(s)
  <2>1. node[s].busy /\ ~node'[s].busy
    BY <1>4, ExecuteDoes
  <2>2. node[s].comm = "read" /\ node[s].at = a
    BY <2>1 DEF HasRead
  <2>3. node'[s].reg = Window(store[s], a)
    BY <1>4, <2>2, ExecuteDoes
  <2>. QED
    BY <1>1, <2>1, <2>3 DEF HasRead
<1>5. CASE Refuse(s) \/ Leave(s)
  BY <1>1, <1>5, RefuseDoes DEF HasRead
<1>6. CASE Value \/ Command
  BY <1>3, <1>6
<1>7. ASSUME NEW t \in Slaves, t # s, Execute(t) \/ Refuse(t) \/ Leave(t) \/ Exchange(t) PROVE node'[s] = node[s]
  BY <1>7, ExecuteDoes, RefuseDoes, ExchangeDoes
<1>. QED
  BY <1>2, <1>3, <1>4, <1>5, <1>6, <1>7, Controllers

\* A tool writes only to its image, to the alias and to the checksum.
LEMMA WordThere ==
    ASSUME Shape, call.op = "write"
    PROVE  \A s \in Slaves : call.a \in DOMAIN store[s]
<1>1. call.a \in DOMAIN Image \/ call.a = 4 \/ call.a = 7
  BY DEF Shape, CallShape
<1>2. \A s \in Slaves : \E k \in Kinds : DOMAIN store[s] = DOMAIN Contents[k]
  BY DEF Shape, StoreShape
<1>3. ASSUME NEW k \in Kinds PROVE call.a \in DOMAIN Contents[k]
  <2>1. (0 .. 15) \cup DOMAIN Image \subseteq DOMAIN Contents[k]
    BY InfoAssumption
  <2>. QED
    BY <1>1, <2>1
<1>. QED
  BY <1>2, <1>3

\* It has written, in the end.
LEMMA HasWrittenKept ==
    ASSUME Shape, NEW s \in Slaves, NEW t \in Slaves, NEW a \in DOMAIN store[s], NEW value,
           HasWritten(s, a, value), Execute(t) \/ Refuse(t) \/ Leave(t)
    PROVE  HasWritten(s, a, value)'
<1>1. CASE t # s
  <2>1. node'[s] = node[s] /\ store'[s] = store[s]
    BY <1>1, ExecuteDoes, RefuseDoes
  <2>. QED
    BY <2>1 DEF HasWritten
<1>2. CASE t = s /\ Execute(t)
  <2>1. node[s].busy /\ ~node'[s].busy
    BY <1>2, ExecuteDoes
  <2>2. node[s].comm = "write" /\ node[s].at = a /\ node[s].reg[0] = value
    BY <2>1 DEF HasWritten
  <2>3. store'[s][a] = value
    BY <1>2, <2>2, ExecuteDoes
  <2>. QED
    BY <2>1, <2>3 DEF HasWritten
<1>3. CASE t = s /\ (Refuse(t) \/ Leave(t))
  BY <1>3, RefuseDoes DEF HasWritten
<1>. QED
  BY <1>1, <1>2, <1>3

\* A step of the call itself.
LEMMA CallGoesOn ==
    ASSUME Shape, PlaceInv, OwnerInv, CallInv, CallStep, UNCHANGED infoVars, [Next]_vars,
           NEW s \in Slaves, s \notin disturbed', call'.op # "none", call'.s = s
    PROVE  CallGoes(s)'
<1>1. /\ s \notin disturbed /\ node[s].present /\ prog' = prog
      /\ node[s].busy \in BOOLEAN /\ node[s].nack \in BOOLEAN /\ disturbed \subseteq Slaves
  BY DisturbedGrows, ProgIs DEF PlaceInv, infoVars, NodeShape, ProgShape
<1>2. SameCall
  BY ControlDoes, WaitDoes, ValueDoes, CommandDoes, AwaitDoes, DataDoes DEF CallStep, SameCallButPc
<1>3. call.op # "none" /\ call.s = s /\ CallGoes(s)
  BY <1>1, <1>2 DEF SameCall, CallInv
<1>4. ReadFrom' = ReadFrom
  BY <1>1, <1>2 DEF ReadFrom, FieldNow, SameCall
<1>5. call.op \in {"collect", "issue", "word", "byte", "dump", "write"}
      /\ call.pc \in PointsOf(call.op) /\ call.nacks \in 0 .. MaxNacks
      /\ (call.pc = "await" => call.nacks < MaxNacks)
  BY <1>3, ProgIs DEF CallShape, CallsAt, Identity
<1>6. CASE Control
  <2>1. call.pc = "control" /\ call'.pc = "wait" /\ SameCallButPc
    BY <1>6, ControlDoes
  <2>2. call.op \in {"issue", "word", "byte"}
    BY <1>5, <2>1 DEF PointsOf
  <2>3. node'[s].owner = "master"
    <3>1. CASE slavelist[s].eep_pdi
      BY <1>3, <1>6, <3>1, ControlDoes, GivenTo
    <3>2. CASE ~slavelist[s].eep_pdi
      <4>1. SetUp /\ prog.step # "defaults"
        BY <2>2, ProgIs, CallNow, WhereAt, StageNumbers DEF SetUp, Identity
      <4>2. node' = node
        BY <1>3, <1>6, <3>2, ControlDoes
      <4>. QED
        BY <1>1, <3>2, <4>1, <4>2 DEF OwnerInv, FlagTells
    <3>. QED
      BY <3>1, <3>2
  <2>. QED
    BY <2>1, <2>2, <2>3 DEF CallGoes, SameCallButPc, SameCall
<1>7. CASE Wait
  <2>1. PICK status \in {"silent", "idle", "nack", "busy"} :
           /\ Waited(s, status, call.op = "collect" /\ status = "nack")
           /\ call'.pc = IF status = "busy" THEN "done"
                         ELSE IF call.op = "collect" THEN "data"
                         ELSE IF call.op = "write" THEN "value" ELSE "command"
    BY <1>3, <1>7, WaitDoes
  <2>2. /\ ~(call.op = "collect" /\ status = "nack") /\ ~node[s].busy
        /\ status = IF node[s].nack THEN "nack" ELSE "idle"
    BY <1>1, <2>1, WaitTells
  <2>3. call.pc = "wait" /\ SameCallButPc /\ node' = node /\ store' = store
    BY <1>7, WaitDoes
  <2>4. CASE call.op = "collect"
    <3>1. call'.pc = "data" /\ ~node[s].nack
      BY <2>1, <2>2, <2>4
    <3>2. node[s].reg = Window(store[s], ReadFrom)
      BY <1>3, <2>2, <2>3, <2>4, <3>1 DEF CallGoes, HasRead
    <3>. QED
      BY <1>3, <1>4, <2>2, <2>3, <2>4, <3>1, <3>2 DEF CallGoes, SameCallButPc, SameCall
  <2>5. CASE call.op = "write"
    <3>1. call'.pc = "value"
      BY <2>1, <2>2, <2>5
    <3>. QED
      BY <1>3, <2>2, <2>3, <2>5, <3>1 DEF CallGoes, SameCallButPc, SameCall
  <2>6. CASE call.op \notin {"collect", "write"}
    <3>1. call'.pc = "command"
      BY <2>1, <2>2, <2>6
    <3>. QED
      BY <1>3, <2>2, <2>3, <2>6, <3>1 DEF CallGoes, SameCallButPc, SameCall
  <2>. QED
    BY <2>4, <2>5, <2>6
<1>8. CASE Value
  <2>1. /\ call.pc = "value" /\ call'.pc = "command" /\ SameCallButPc
        /\ node'[s].busy = node[s].busy /\ node'[s].owner = node[s].owner
    BY <1>3, <1>8, ValueDoes
  <2>2. call.op = "write"
    BY <1>5, <2>1 DEF PointsOf
  <2>3. node'[s].reg[0] = call.value
    BY <1>1, <1>3, <1>8, ValueDoes DEF Done, Lost, Gone
  <2>. QED
    BY <1>3, <2>1, <2>2, <2>3 DEF CallGoes, SameCallButPc, SameCall
<1>9. CASE Command
  <2>1. /\ call.pc = "command" /\ SameCallButPc
        /\ node'[s].owner = node[s].owner /\ node'[s].reg = node[s].reg
    BY <1>3, <1>9, CommandDoes
  <2>2. call.op # "collect"
    BY <1>5, <2>1 DEF PointsOf
  <2>3. node[s].owner = "master" /\ ~node[s].busy
    BY <1>3, <2>1, <2>2 DEF CallGoes
  <2>4. /\ Told(s) \/ Ignored(s)
        /\ call'.pc = IF call.op = "issue" THEN "done" ELSE "await"
    BY <1>1, <1>3, <1>9, CommandDoes DEF Lost, Gone, Done
  <2>5. /\ node'[s].busy /\ node'[s].at = call.a
        /\ node'[s].comm = (IF call.op = "write" THEN "write" ELSE "read")
    BY <2>3, <2>4 DEF Told, Ignored
  <2>6. CASE call.op = "write"
    <3>1. node'[s].reg[0] = call.value
      BY <1>3, <2>1, <2>6 DEF CallGoes
    <3>2. HasWritten(s, call.a, call.value)'
      BY <1>2, <2>5, <2>6, <3>1 DEF HasWritten, SameCall
    <3>. QED
      BY <1>3, <2>1, <2>3, <2>4, <2>6, <3>2 DEF CallGoes, SameCallButPc, SameCall
  <2>7. CASE call.op # "write"
    <3>1. HasRead(s, ReadFrom)'
      BY <1>2, <2>2, <2>5, <2>7 DEF HasRead, ReadFrom, SameCall
    <3>. QED
      BY <1>3, <2>1, <2>2, <2>3, <2>4, <2>7, <3>1 DEF CallGoes, SameCallButPc, SameCall
  <2>. QED
    BY <2>6, <2>7
<1>10. CASE Await
  <2>1. PICK status \in {"silent", "idle", "nack", "busy"} :
           /\ Waited(s, status, status = "nack" /\ Count(status) = MaxNacks)
           /\ call'.nacks = Count(status)
           /\ call'.r64 = (s \in EightByte /\ status # "silent")
           /\ call'.ok = (call.op = "write" /\ ~Refused(status) /\ status # "busy")
           /\ call'.pc = IF Refused(status) \/ status = "busy" THEN Again(Count(status))
                         ELSE IF call.op = "write" THEN "done" ELSE "data"
    BY <1>3, <1>10, AwaitDoes
  <2>2. /\ ~(status = "nack" /\ Count(status) = MaxNacks) /\ ~node[s].busy
        /\ status = IF node[s].nack THEN "nack" ELSE "idle"
    BY <1>1, <2>1, WaitTells
  <2>3. call.pc = "await" /\ node' = node /\ store' = store
    BY <1>10, AwaitDoes
  <2>4. call.op # "collect"
    BY <1>5, <2>3 DEF PointsOf
  <2>5. node[s].owner = "master"
    BY <1>3, <2>3, <2>4 DEF CallGoes
  <2>6. CASE status = "nack"
    <3>1. Count(status) = call.nacks + 1 /\ Count(status) # MaxNacks /\ Refused(status)
      BY <2>2, <2>6 DEF Count, Refused
    <3>2. Count(status) \in 1 .. MaxNacks - 1
      BY <1>5, <2>3, <3>1, Constants
    <3>3. call'.pc = IF call.op = "write" THEN "value" ELSE "command"
      BY <2>1, <3>1, <3>2 DEF Again
    <3>. QED
      BY <1>2, <2>2, <2>3, <2>4, <2>5, <3>3 DEF CallGoes, SameCall
  <2>7. CASE status = "idle"
    <3>1. ~Refused(status) /\ ~node[s].nack
      BY <2>2, <2>7 DEF Refused
    <3>2. CASE call.op = "write"
      <4>1. call'.pc = "done" /\ call'.ok
        BY <2>1, <2>7, <3>1, <3>2
      <4>2. store[s][call.a] = call.value
        BY <1>3, <2>2, <2>3, <3>1, <3>2 DEF CallGoes, HasWritten
      <4>. QED
        BY <1>2, <2>3, <3>2, <4>1, <4>2 DEF CallGoes, SameCall
    <3>3. CASE call.op # "write"
      <4>1. call'.pc = "data" /\ call'.r64 = (s \in EightByte)
        BY <2>1, <2>7, <3>1, <3>3
      <4>2. node[s].reg = Window(store[s], ReadFrom)
        BY <1>3, <2>2, <2>3, <3>1, <3>3 DEF CallGoes, HasRead
      <4>. QED
        BY <1>2, <1>4, <2>2, <2>3, <2>4, <3>3, <4>1, <4>2 DEF CallGoes, SameCall
    <3>. QED
      BY <3>2, <3>3
  <2>. QED
    BY <2>2, <2>6, <2>7
<1>11. CASE Data
  <2>1. /\ call.pc = "data" /\ call'.pc = "done" /\ node' = node /\ store' = store
        /\ call'.r64 = call.r64
    BY <1>11, DataDoes
  <2>2. call'.res = Partly(node[s].reg, call.r64)
    BY <1>1, <1>3, <1>11, DataDoes DEF Done, Lost, Gone
  <2>3. call.op \in {"collect", "word", "byte", "dump"}
    BY <1>5, <2>1 DEF PointsOf
  <2>4. node[s].reg = Window(store[s], ReadFrom)
    BY <1>3, <2>1, <2>3 DEF CallGoes
  <2>5. /\ call.op = "collect" => ~call.r64
        /\ call.op # "collect" => call.r64 = (s \in EightByte)
    BY <1>3, <2>1, <2>3 DEF CallGoes
  <2>6. CASE call.op = "collect"
    <3>1. Partly(node[s].reg, call.r64) = Partly(Window(store[s], ReadFrom), FALSE)
      BY <2>4, <2>5, <2>6 DEF Partly
    <3>. QED
      BY <1>2, <1>4, <2>1, <2>2, <2>3, <2>5, <2>6, <3>1 DEF CallGoes, SameCall
  <2>7. CASE call.op # "collect"
    <3>1. Partly(node[s].reg, call.r64) = Partly(Window(store[s], ReadFrom), s \in EightByte)
      BY <2>4, <2>5, <2>7
    <3>. QED
      BY <1>2, <1>4, <2>1, <2>2, <2>3, <2>7, <3>1 DEF CallGoes, SameCall
  <2>. QED
    BY <2>6, <2>7
<1>. QED
  BY <1>6, <1>7, <1>8, <1>9, <1>10, <1>11 DEF CallStep

\* What others do leaves it.
LEMMA CallGoesStill ==
    ASSUME NEW s \in Slaves, CallGoes(s), UNCHANGED <<node, store, call, prog>>
    PROVE  CallGoes(s)'
BY DEF CallGoes, HasRead, HasWritten, ReadFrom, FieldNow

\* So does the controller itself, and the call waits for it.
LEMMA CallGoesMeanwhile ==
    ASSUME Shape, ReadInv, CallInv, ToolInv, [Next]_vars, NEW t \in Slaves,
           Finish(t) \/ Leave(t), UNCHANGED infoVars, UNCHANGED call,
           NEW s \in Slaves, s \notin disturbed', call.op # "none", call.s = s
    PROVE  CallGoes(s)'
<1>1. s \notin disturbed /\ prog' = prog
  BY DisturbedGrows DEF infoVars
<1>2. CallGoes(s)
  BY <1>1 DEF CallInv
<1>3. /\ node'[s].owner = node[s].owner
      /\ ~node[s].busy => ~node'[s].busy /\ node'[s].reg = node[s].reg /\ store'[s] = store[s]
      /\ Execute(t) \/ Refuse(t) \/ Leave(t)
  BY ExecuteDoes, RefuseDoes DEF Finish
<1>4. ReadFrom' = ReadFrom
  BY <1>1 DEF ReadFrom, FieldNow
<1>5. /\ prog.step \in {"collecting", "issuing", "id", "man", "rev", "bytes", "write", "alias",
                        "by2", "by4"}
      /\ call.op = "write" => ~SetUp
      /\ call.op # "write" => ~Writing
  BY ProgIs, CallNow, WhereAt, StageNumbers DEF Identity, SetUp, Writing
<1>6. CASE call.op = "write"
  <2>1. call.pc = "await" => HasWritten(s, call.a, call.value)'
    <3>1. call.a \in DOMAIN store[s]
      BY <1>6, WordThere
    <3>2. call.pc = "await" => HasWritten(s, call.a, call.value)
      BY <1>2, <1>6 DEF CallGoes
    <3>. DEFINE a == call.a
                value == call.value
    <3>3. call.pc = "await" => HasWritten(s, a, value)
      BY <3>2
    <3>4. a' = a /\ value' = value
      OBVIOUS
    <3>5. ASSUME NEW b \in DOMAIN store[s], NEW v, HasWritten(s, b, v) PROVE HasWritten(s, b, v)'
      BY <1>3, <3>5, HasWrittenKept
    <3>. HIDE DEF a, value
    <3>6. call.pc = "await" => HasWritten(s, a, value)'
      BY <3>1, <3>3, <3>4, <3>5 DEF HasWritten, a
    <3>. QED
      BY <3>6 DEF a, value
  <2>2. call.pc = "done" => ~node[s].busy
    BY <1>1, <1>5, <1>6 DEF ToolInv, BusyAwaited
  <2>. QED
    BY <1>2, <1>3, <1>6, <2>1, <2>2 DEF CallGoes
<1>7. CASE call.op # "write"
  <2>1. ~Exchange(s) /\ store'[s] = store[s]
    BY <1>5, <1>7, ExchangeDoes, StoreReadOnly
  <2>2. call.pc \in {"wait", "await", "done"} => ~Value /\ ~Command
    BY ValueDoes, CommandDoes
  <2>3. ASSUME NEW a, call.pc \in {"wait", "await", "done"}, HasRead(s, a) PROVE HasRead(s, a)'
    BY <1>5, <1>7, <2>1, <2>2, <2>3, HasReadKept
  <2>4. ASSUME call.pc \in {"wait", "await", "done"}, HasRead(s, ReadFrom) PROVE HasRead(s, ReadFrom)'
    <3>. DEFINE a == ReadFrom
    <3>1. a' = a
      BY <1>4
    <3>2. HasRead(s, a)
      BY <2>4
    <3>. HIDE DEF a
    <3>3. HasRead(s, a)'
      BY <2>3, <2>4, <3>1, <3>2 DEF HasRead
    <3>. QED
      BY <3>3 DEF a
  <2>5. /\ call.op = "collect" /\ call.pc = "wait" => HasRead(s, ReadFrom)'
        /\ call.op = "issue" /\ call.pc = "done" => HasRead(s, ReadFrom)'
        /\ call.pc = "await" => HasRead(s, ReadFrom)'
    BY <1>2, <1>7, <2>4 DEF CallGoes
  <2>6. call.pc = "data" => node'[s].reg = Window(store[s], ReadFrom) /\ ~node'[s].busy
    BY <1>2, <1>3, <1>7 DEF CallGoes
  <2>. QED
    BY <1>2, <1>3, <1>4, <1>7, <2>1, <2>5, <2>6 DEF CallGoes
<1>. QED
  BY <1>6, <1>7

\* A call begins when the controller can do what it asks for.
LEMMA CallGoesBegun ==
    ASSUME Shape, WordInv, OwnerInv, [Next]_vars, NEW s \in Slaves, s \notin disturbed', s = call'.s,
           NEW op \in {"collect", "issue", "word", "byte", "dump", "write"}, NEW a, NEW value,
           Begin(op, prog.s, a, value),
           op = "collect" => Collect /\ StepTo("collecting"),
           op = "write" => (WriteWord \/ WriteAlias) /\ UNCHANGED prog,
           op = "dump" => ReadImage /\ UNCHANGED prog
    PROVE  CallGoes(s)'
<1>1. /\ call'.op = op /\ s = prog.s /\ call'.r64 = FALSE
      /\ call'.pc = (IF op \in {"collect", "write", "dump"} THEN "wait" ELSE "control")
  BY BeginDoes
<1>2. s \notin disturbed
  BY DisturbedGrows
<1>3. CASE op = "collect"
  <2>1. /\ prog.step = "collect" /\ prog.stage \in 2 .. 8 /\ prog'.stage = prog.stage
        /\ Wanted(s, FieldNow) /\ UNCHANGED <<node, store>>
    BY <1>1, <1>3, CollectDoes, ProgIs DEF StepTo, Collect, Begin, NoCall
  <2>2. prog.stage - 1 \in 1 .. 7 /\ SetUp /\ FieldNow = Fields[prog.stage - 1]
    BY <2>1, StageNumbers DEF SetUp, FieldNow
  <2>3. WordState(s, prog.stage - 1) /\ Outstanding(s, prog.stage - 1)
    BY <1>1, <2>1, <2>2 DEF WordInv, Outstanding
  <2>4. HasRead(s, ECT_SII[FieldNow])
    BY <1>2, <2>1, <2>2, <2>3 DEF WordState
  <2>5. ReadFrom' = ECT_SII[FieldNow]
    BY <1>1, <1>3, <2>1 DEF ReadFrom, FieldNow
  <2>6. HasRead(s, ReadFrom)'
    BY <2>1, <2>4, <2>5 DEF HasRead
  <2>. QED
    BY <1>1, <1>3, <2>6 DEF CallGoes
<1>4. CASE op \in {"write", "dump"}
  <2>1. prog.stage \in {11, 14, 16} /\ prog.step # "force" /\ node' = node
    BY <1>4, WriteWordDoes, WriteAliasDoes, ReadImageDoes
  <2>2. node'[s].owner = "master"
    BY <1>1, <1>2, <2>1, StageNumbers DEF OwnerInv, ToolOwns
  <2>. QED
    BY <1>1, <1>4, <2>2 DEF CallGoes
<1>5. CASE op \notin {"collect", "write", "dump"}
  BY <1>1, <1>5 DEF CallGoes
<1>. QED
  BY <1>3, <1>4, <1>5

\* All of this part.
LEMMA CallInvKept ==
    Shape /\ PlaceInv /\ ReadInv /\ OwnerInv /\ CallInv /\ WordInv /\ ToolInv /\ [Next]_vars => CallInv'
<1>. SUFFICES ASSUME Shape, PlaceInv, ReadInv, OwnerInv, CallInv, WordInv, ToolInv, [Next]_vars,
                     NEW s \in Slaves, s \notin disturbed', call'.op # "none", s = call'.s
              PROVE  CallGoes(s)'
  BY DEF CallInv
<1>1. CASE CallStep /\ UNCHANGED infoVars
  BY <1>1, CallGoesOn
<1>2. CASE UNCHANGED call /\ \/ call.op = "none" \/ Sizing \/ UNCHANGED vars
                             \/ \E t \in Slaves : (Finish(t) \/ Leave(t)) /\ UNCHANGED infoVars
  <2>1. CASE Sizing \/ UNCHANGED vars
    <3>1. UNCHANGED <<node, store, call, prog, disturbed>>
      BY <2>1 DEF Sizing, vars, eepromVars, infoVars
    <3>2. CallGoes(s)
      BY <3>1 DEF CallInv
    <3>. QED
      BY <3>1, <3>2, CallGoesStill
  <2>2. CASE \E t \in Slaves : (Finish(t) \/ Leave(t)) /\ UNCHANGED infoVars
    BY <1>2, <2>2, CallGoesMeanwhile
  <2>. QED
    BY <1>2, <2>1, <2>2
<1>3. CASE call' = NoCall
  BY <1>3, NoCallIs
<1>4. CASE Collect /\ Begin("collect", prog.s, 0, Zero) /\ StepTo("collecting")
  BY <1>4, CallGoesBegun
<1>5. CASE Issue /\ Begin("issue", prog.s, ECT_SII[Fields[prog.stage]], Zero)
  BY <1>5, CallGoesBegun
<1>6. CASE ReadByte
  BY <1>6, ReadByteDoes, CallGoesBegun
<1>7. CASE \E f \in Identity : Begin("word", prog.s, ECT_SII[f], Zero)
  BY <1>7, CallGoesBegun
<1>8. CASE /\ WriteWord \/ WriteAlias
           /\ UNCHANGED prog
           /\ \E a, value : Begin("write", prog.s, a, value)
  BY <1>8, CallGoesBegun
<1>9. CASE /\ ReadImage /\ UNCHANGED prog
           /\ \E a : Begin("dump", prog.s, a, Zero)
  BY <1>9, CallGoesBegun
<1>. QED
  BY <1>1, <1>2, <1>3, <1>4, <1>5, <1>6, <1>7, <1>8, <1>9, CallMoves

-----------------------------------------------------------------------------
(* The words of the header.                                                 *)

\* Words are filed, and the width is noted; nothing else changes them.
LEMMA WordsLeft ==
    ASSUME Shape, [Next]_vars
    PROVE  \/ \A s \in Slaves : /\ slavelist'[s].word = slavelist[s].word
                                /\ slavelist'[s].eep_8byte = slavelist[s].eep_8byte
           \/ Width \/ Collected
<1>1. CASE CallStep /\ UNCHANGED infoVars
  <2>1. Control => SameButFlag(call.s)
    BY ControlDoes
  <2>. QED
    BY <1>1, <2>1, WaitDoes, ValueDoes, CommandDoes, AwaitDoes, DataDoes DEF CallStep, SameButFlag
<1>2. CASE \E s \in Slaves : (Finish(s) \/ Leave(s)) /\ UNCHANGED infoVars
  BY <1>2, ExecuteDoes, RefuseDoes DEF Finish
<1>3. CASE SetDefaults \/ Collect \/ Issue \/ Issued
  BY <1>3, DefaultsDo, CollectDoes, IssueDoes, IssuedDoes
<1>4. CASE LookupSii \/ LookupMapping \/ ReadByte \/ ByteRead \/ SectionsRead \/ AskPreOp
  BY <1>4, LookupsDo, ReadByteDoes, ByteReadDoes, SectionsReadDoes, AskPreOpDoes DEF eepromVars
<1>5. CASE \/ \E s \in Slaves : RecoverSlave(s) \/ Reconfigure(s) \/ Exchange(s)
           \/ CompareWord \/ GiveAddress
  BY <1>5, RecoverSlaveDoes, ReconfigureDoes, ExchangeDoes, CompareWordDoes, GiveAddressDoes
     DEF eepromVars
<1>6. CASE ForceControl \/ WriteWord \/ Ainc \/ ReadImage \/ WriteAlias \/ Sizing \/ UNCHANGED vars
  BY <1>6, ForceControlDoes, WriteWordDoes, AincDoes, ReadImageDoes, WriteAliasDoes
     DEF Sizing, vars, eepromVars
<1>7. CASE Found \/ GivePdi \/ TakeEeprom
  <2>1. SameButFlag(prog.s)
    BY <1>7, GivesPdi, TakeEepromDoes
  <2>. QED
    BY <2>1 DEF SameButFlag
<1>. QED
  BY <1>1, <1>2, <1>3, <1>4, <1>5, <1>6, <1>7 DEF Next, Master

\* The stages of the fields.
LEMMA FieldStages ==
    /\ \A m, n \in 1 .. 7 : Fields[m] = Fields[n] => m = n
    /\ \A n \in 1 .. 7 : Fields[n] \in MailboxOnly <=> n \in {6, 7}
    /\ \A n \in 1 .. 7 : Fields[n] = "mbx" <=> n = 5
    /\ \A f \in Known : \E n \in 1 .. 7 : f = Fields[n]
<1>1. \A n \in 1 .. 7 : n = 1 \/ n = 2 \/ n = 3 \/ n = 4 \/ n = 5 \/ n = 6 \/ n = 7
  OBVIOUS
<1>. QED
  BY <1>1, FieldNames DEF MailboxOnly

\* What one step files: the field of the read that is under way.
LEMMA WordsChange ==
    ASSUME Shape, [Next]_vars, NEW s \in Slaves, NEW n \in 1 .. 7,
           ~(Collected /\ s = prog.s /\ n = prog.stage - 1)
    PROVE  Read(s, Fields[n])' = Read(s, Fields[n])
<1>1. \/ slavelist'[s].word = slavelist[s].word
      \/ Collected /\ s = prog.s /\ n # prog.stage - 1
  BY WordsLeft, WidthDoes, CollectedDoes
<1>2. CASE Collected /\ s = prog.s /\ n # prog.stage - 1
  <2>1. /\ prog.stage - 1 \in 1 .. 7 /\ FieldNow = Fields[prog.stage - 1]
        /\ \A g \in Known \ {FieldNow} : slavelist'[s].word[g] = slavelist[s].word[g]
    BY <1>2, CollectedDoes
  <2>2. Fields[n] # FieldNow /\ Fields[n] \in Known
    BY <1>2, <2>1, FieldStages, FieldPlaces
  <2>. QED
    BY <2>1, <2>2 DEF Read
<1>3. CASE slavelist'[s].word = slavelist[s].word
  BY <1>3 DEF Read
<1>. QED
  BY <1>1, <1>2, <1>3

\* Whether a field is asked for is decided when the mailbox is known, before it is asked for.
LEMMA WantedChanges ==
    ASSUME Shape, [Next]_vars, NEW s \in Slaves, NEW n \in 1 .. 7,
           ~(Collected /\ s = prog.s /\ prog.stage = 6 /\ n \in {6, 7})
    PROVE  Wanted(s, Fields[n])' <=> Wanted(s, Fields[n])
<1>1. CASE n \in {6, 7}
  <2>1. ~(Collected /\ s = prog.s /\ 5 = prog.stage - 1)
    BY <1>1
  <2>2. Read(s, Fields[5])' = Read(s, Fields[5])
    BY <2>1, WordsChange
  <2>3. Read(s, "mbx")' = Read(s, "mbx")
    BY <2>2, FieldNames
  <2>. QED
    BY <2>3 DEF Wanted
<1>2. CASE n \notin {6, 7}
  BY <1>2, FieldStages DEF Wanted
<1>. QED
  BY <1>1, <1>2

\* Fields that are filed stay filed; those of one slave are, when its read is collected.
LEMMA FiledGrows ==
    ASSUME Shape, [Next]_vars, SetUp, NEW s \in Slaves, NEW n \in 1 .. 7
    PROVE  /\ Filed(s, n) => Filed(s, n)'
           /\ Filed(s, n)' /\ ~Filed(s, n) =>
                 s = prog.s /\ n = prog.stage - 1 /\ (Collect \/ Collected)
<1>1. /\ prog.stage \in 1 .. 10 /\ prog.s \in 1 .. SlaveCount /\ s \in 1 .. SlaveCount
      /\ SlaveCount \in Nat
  BY ProgIs, Constants, StageNumbers DEF SetUp, Slaves
<1>2. CASE prog.stage = 10
  <2>1. prog'.stage = 10
    BY <1>2, StagesKept
  <2>. QED
    BY <1>2, <2>1 DEF Filed
<1>3. CASE prog.stage \in 1 .. 9
  <2>1. CASE prog' = prog
    BY <2>1 DEF Filed
  <2>2. CASE GoesOn /\ prog' # prog
    <3>1. prog.step \notin {"collect", "collecting"}
      BY <1>1, <1>3, <2>2, ProgMoves DEF GoesOn
    <3>2. CASE prog.s < SlaveCount /\ prog'.s = prog.s + 1 /\ prog'.stage = prog.stage
      <4>1. prog'.step \in {"width", "map", "collect"}
        BY <1>1, <2>2, <3>2 DEF GoesOn
      <4>. QED
        BY <1>1, <1>3, <2>2, <3>1, <3>2, <4>1, StageNumbers DEF Filed, GoesOn
    <3>3. CASE prog.s = SlaveCount /\ prog'.s = 1 /\ prog'.stage = prog.stage + 1
      BY <1>1, <1>3, <2>2, <3>1, <3>3, StageNumbers DEF Filed, GoesOn
    <3>. QED
      BY <2>2, <3>2, <3>3 DEF GoesOn
  <2>3. CASE prog' # prog /\ ~GoesOn
    <3>1. prog'.stage = prog.stage /\ prog'.s = prog.s
      BY <1>3, <2>3, ProgMoves
    <3>2. CASE prog.step \in {"collect", "collecting"}
      <4>1. Collect \/ Collected
        BY <2>3, <3>2, StepsBy
      <4>. QED
        BY <1>1, <1>3, <3>1, <3>2, <4>1 DEF Filed
    <3>3. CASE prog.step \notin {"collect", "collecting"}
      <4>1. prog'.step \notin {"collect", "collecting"}
        BY <1>3, <2>3, <3>3, ProgMoves
      <4>. QED
        BY <3>1, <3>3, <4>1 DEF Filed
    <3>. QED
      BY <3>2, <3>3
  <2>. QED
    BY <2>1, <2>2, <2>3
<1>. QED
  BY <1>1, <1>2, <1>3

\* A read is outstanding from its issue on.
LEMMA OutstandingGrows ==
    ASSUME Shape, [Next]_vars, SetUp, NEW s \in Slaves, NEW n \in 1 .. 7, Outstanding(s, n)'
    PROVE  /\ prog.stage \in 1 .. 8
           /\ \/ Outstanding(s, n)
              \/ s = prog.s /\ n = prog.stage /\ (Issue \/ Issued) /\ GoesOn
<1>1. /\ prog.stage \in 1 .. 10 /\ prog.s \in 1 .. SlaveCount /\ s \in 1 .. SlaveCount
      /\ SlaveCount \in Nat
  BY ProgIs, Constants, StageNumbers DEF SetUp, Slaves
<1>2. prog'.stage \in {n, n + 1}
  BY PositionKept DEF Outstanding, Position
<1>3. prog.stage \in 1 .. 8
  BY <1>1, <1>2, StagesKept
<1>4. CASE prog' = prog
  BY <1>3, <1>4 DEF Outstanding
<1>5. CASE GoesOn /\ prog' # prog
  <2>1. CASE prog.stage = 8
    <3>1. prog'.stage = 8 /\ n = 7 /\ prog'.s = prog.s + 1
      BY <1>2, <1>5, <2>1 DEF GoesOn
    <3>. QED
      BY <1>1, <1>3, <2>1, <3>1 DEF Outstanding
  <2>2. CASE prog.stage \in 1 .. 7
    <3>1. prog.step \in {"issue", "issuing"}
      BY <1>1, <1>5, <2>2, ProgMoves DEF GoesOn
    <3>2. Issue \/ Issued
      BY <1>5, <3>1, StepsBy
    <3>3. CASE prog'.s = prog.s + 1 /\ prog'.stage = prog.stage
      BY <1>1, <1>3, <1>5, <3>2, <3>3 DEF Outstanding
    <3>4. CASE prog.s = SlaveCount /\ prog'.s = 1 /\ prog'.stage = prog.stage + 1
      BY <1>1, <1>3, <1>5, <3>2, <3>4 DEF Outstanding
    <3>. QED
      BY <1>5, <3>3, <3>4 DEF GoesOn
  <2>. QED
    BY <1>3, <2>1, <2>2
<1>6. CASE prog' # prog /\ ~GoesOn
  <2>1. prog'.stage = prog.stage /\ prog'.s = prog.s /\ prog'.step # "collect"
    BY <1>3, <1>6, ProgMoves
  <2>. QED
    BY <1>1, <1>3, <2>1 DEF Outstanding
<1>. QED
  BY <1>4, <1>5, <1>6

\* What has been collected of a slave that is not disturbed.
LEMMA CollectedTrue ==
    ASSUME Shape, PlaceInv, CallInv, Collected, prog.s \notin disturbed
    PROVE  slavelist'[prog.s].word[FieldNow] = Words(first[prog.s], ECT_SII[FieldNow])
<1>1. /\ call.op = "collect" /\ call.pc = "done" /\ call.s = prog.s /\ prog.stage \in 2 .. 8
      /\ prog.s \in Slaves
      /\ slavelist'[prog.s].word[FieldNow] = <<call.res[0], call.res[1]>>
  BY CollectedDoes, ProgIs
<1>2. store = first
  BY <1>1, StageNumbers DEF PlaceInv, Writing
<1>3. CallGoes(prog.s)
  BY <1>1 DEF CallInv
<1>4. call.res = Partly(Window(store[prog.s], ECT_SII[FieldNow]), FALSE)
  BY <1>1, <1>3 DEF CallGoes, ReadFrom
<1>. QED
  BY <1>1, <1>2, <1>4 DEF Partly, Words

\* What has been collected of any slave: two words of its own header, or nothing.
LEMMA CollectedWords ==
    ASSUME Shape, PlaceInv, ReadInv, Collected
    PROVE  slavelist'[prog.s].word[FieldNow] \in HeaderWords(prog.s)
<1>1. /\ call.s = prog.s /\ prog.stage \in 2 .. 8 /\ prog.step = "collecting"
      /\ slavelist'[prog.s].word[FieldNow] = <<call.res[0], call.res[1]>>
  BY CollectedDoes
<1>2. store = first /\ ~Writing
  BY <1>1, StageNumbers DEF PlaceInv, Writing
<1>3. PICK w \in Readable(prog.s) : call.res = Partly(w, call.r64)
  BY <1>1, <1>2 DEF ReadInv
<1>4. <<call.res[0], call.res[1]>> = <<w[0], w[1]>>
  BY <1>3 DEF Partly
<1>5. HeaderOnly(prog.s)
  BY <1>1 DEF HeaderOnly
<1>6. CASE w = NoData
  BY <1>1, <1>4, <1>6, RecordFields DEF HeaderWords, NoWord
<1>7. CASE \E a \in HeaderAt : w = Window(first[prog.s], a)
  BY <1>1, <1>4, <1>7 DEF HeaderWords, Words
<1>. QED
  BY <1>2, <1>3, <1>5, <1>6, <1>7 DEF Readable, ReadAt

\* All words are words of the slave's header.
LEMMA HeaderWordsKept ==
    ASSUME Shape, PlaceInv, ReadInv, WordInv, [Next]_vars, NEW s \in Slaves, NEW f \in Known
    PROVE  Read(s, f)' \in HeaderWords(s)'
<1>1. PICK n \in 1 .. 7 : f = Fields[n]
  BY FieldStages
<1>2. HeaderWords(s)' = HeaderWords(s)
  BY StagesKept DEF HeaderWords
<1>3. Read(s, f) \in HeaderWords(s)
  BY DEF WordInv
<1>4. CASE Collected /\ s = prog.s /\ n = prog.stage - 1
  <2>1. FieldNow = f /\ slavelist'[s].word[FieldNow] \in HeaderWords(s)
    BY <1>1, <1>4, CollectedWords, CollectedDoes
  <2>. QED
    BY <1>2, <2>1 DEF Read
<1>5. CASE ~(Collected /\ s = prog.s /\ n = prog.stage - 1)
  BY <1>1, <1>2, <1>3, <1>5, WordsChange
<1>. QED
  BY <1>4, <1>5

\* The controller of a slave whose read is outstanding does nothing else.
LEMMA OutstandingKept ==
    ASSUME Shape, ReadInv, CallInv, WordInv, SetUp, [Next]_vars, NEW s \in Slaves, s \notin disturbed',
           NEW n \in 1 .. 7, Wanted(s, Fields[n]), Outstanding(s, n)'
    PROVE  HasRead(s, ECT_SII[Fields[n]])'
<1>1. s \notin disturbed /\ prog.stage \in 1 .. 8 /\ ~Writing /\ prog.s \in Nat /\ s \in Nat
  BY DisturbedGrows, OutstandingGrows, SetUpKept, ProgIs, Constants
<1>2. CASE Outstanding(s, n)
  <2>1. HasRead(s, ECT_SII[Fields[n]])
    BY <1>1, <1>2 DEF WordInv, WordState
  <2>2. ~Exchange(s)
    BY <1>1, ExchangeDoes, StageNumbers
  <2>3. Value \/ Command => node'[s] = node[s]
    <3>1. ASSUME Value \/ Command PROVE s # call.s
      <4>1. call.op # "none" /\ prog.step # "collect"
        BY <3>1, ValueDoes, CommandDoes, ProgIs, CallNow
      <4>2. call.s = prog.s
        BY <4>1, ProgIs, CallNow
      <4>. QED
        BY <1>1, <1>2, <4>1, <4>2 DEF Outstanding
    <3>. QED
      BY <3>1, ValueDoes, CommandDoes
  <2>. QED
    BY <1>1, <2>1, <2>2, <2>3, HasReadKept
<1>3. CASE s = prog.s /\ n = prog.stage /\ (Issue \/ Issued) /\ GoesOn
  <2>1. CASE Issue
    <3>1. prog.stage = prog'.stage /\ prog.s = prog'.s
      BY <1>3, <2>1, IssueDoes DEF StepTo
    <3>. QED
      BY <1>1, <1>3, <3>1 DEF GoesOn
  <2>2. CASE Issued
    <3>1. /\ call.op = "issue" /\ call.pc = "done" /\ call.s = s /\ node' = node /\ store' = store
      BY <1>3, <2>2, IssuedDoes
    <3>2. CallGoes(s) /\ call.a = ECT_SII[Fields[n]]
      BY <1>1, <1>3, <3>1, ProgIs DEF CallInv, CallShape
    <3>3. HasRead(s, ECT_SII[Fields[n]])
      BY <3>1, <3>2 DEF CallGoes, ReadFrom
    <3>. QED
      BY <3>1, <3>3 DEF HasRead
  <2>. QED
    BY <1>3, <2>1, <2>2
<1>. QED
  BY <1>2, <1>3, OutstandingGrows

\* What is known of one field of one slave.
LEMMA WordStateKept ==
    ASSUME Shape, PlaceInv, ReadInv, CallInv, WordInv, SetUp, [Next]_vars, NEW s \in Slaves,
           NEW n \in 1 .. 7
    PROVE  WordState(s, n)'
<1>1. /\ WordState(s, n) /\ first'[s] = first[s]
      /\ Filed(s, n) => Filed(s, n)'
      /\ s \in disturbed => s \in disturbed'
  BY FiledGrows, StagesKept, DisturbedGrows DEF WordInv
<1>2. CASE Collected /\ s = prog.s /\ n = prog.stage - 1
  <2>1. /\ FieldNow = Fields[n] /\ prog.step = "collecting" /\ prog.stage \in 2 .. 8
        /\ prog'.stage = prog.stage /\ prog'.s = prog.s /\ prog'.step \in {"sii", "issue"}
    BY <1>2, CollectedDoes DEF StepTo
  <2>2. Filed(s, n)' /\ ~Outstanding(s, n)'
    BY <1>2, <2>1, ProgIs, Constants DEF Filed, Outstanding
  <2>3. Wanted(s, Fields[n])
    BY <1>2, <2>1 DEF WordInv
  <2>4. CASE n \notin {6, 7}
    <3>1. Wanted(s, Fields[n])'
      BY <1>2, <2>3, <2>4, WantedChanges
    <3>2. s \notin disturbed => Read(s, Fields[n])' = Words(first[s], ECT_SII[Fields[n]])
      BY <1>2, <2>1, CollectedTrue DEF Read
    <3>. QED
      BY <1>1, <2>2, <3>1, <3>2 DEF WordState
  <2>5. CASE n \in {6, 7}
    <3>1. Wanted(s, Fields[n])'
      BY <1>2, <2>1, <2>3, <2>5, WantedChanges
    <3>2. s \notin disturbed => Read(s, Fields[n])' = Words(first[s], ECT_SII[Fields[n]])
      BY <1>2, <2>1, CollectedTrue DEF Read
    <3>. QED
      BY <1>1, <2>2, <3>1, <3>2 DEF WordState
  <2>. QED
    BY <2>4, <2>5
<1>3. CASE ~(Collected /\ s = prog.s /\ n = prog.stage - 1)
  <2>1. Read(s, Fields[n])' = Read(s, Fields[n])
    BY <1>3, WordsChange
  <2>2. CASE Collected /\ s = prog.s /\ prog.stage = 6 /\ n \in {6, 7}
    <3>1. /\ prog.step = "collecting" /\ prog'.stage = prog.stage /\ prog'.s = prog.s
          /\ prog'.step = "issue"
      BY <2>2, CollectedDoes DEF StepTo
    <3>2. ~Filed(s, n) /\ ~Filed(s, n)' /\ ~Outstanding(s, n)'
      BY <2>2, <3>1, ProgIs, Constants DEF Filed, Outstanding
    <3>3. Read(s, Fields[n])' = NoWord
      BY <1>1, <2>1, <3>2 DEF WordState
    <3>. QED
      BY <3>2, <3>3 DEF WordState, NoWord
  <2>3. CASE ~(Collected /\ s = prog.s /\ prog.stage = 6 /\ n \in {6, 7})
    <3>1. Wanted(s, Fields[n])' <=> Wanted(s, Fields[n])
      BY <2>3, WantedChanges
    <3>2. ~Filed(s, n)' => Read(s, Fields[n])' = NoWord'
      BY <1>1, <2>1 DEF WordState, NoWord
    <3>3. s \notin disturbed' /\ ~Wanted(s, Fields[n])' => Read(s, Fields[n])' = NoWord'
      BY <1>1, <2>1, <3>1 DEF WordState, NoWord
    <3>4. s \notin disturbed' /\ Wanted(s, Fields[n])' /\ Outstanding(s, n)'
             => HasRead(s, ECT_SII[Fields[n]])'
      BY <3>1, OutstandingKept
    <3>5. ASSUME s \notin disturbed', Wanted(s, Fields[n])', Filed(s, n)'
          PROVE  Read(s, Fields[n])' = Words(first[s], ECT_SII[Fields[n]])'
      <4>1. Wanted(s, Fields[n])
        BY <3>1, <3>5
      <4>2. Filed(s, n)
        <5>1. SUFFICES ASSUME ~Filed(s, n) PROVE FALSE
          OBVIOUS
        <5>2. s = prog.s /\ n = prog.stage - 1 /\ Collect
          BY <1>3, <3>5, <5>1, FiledGrows
        <5>3. prog.stage \in 2 .. 8 /\ FieldNow = Fields[n] /\ prog.step = "collect"
          BY <5>2, CollectDoes DEF FieldNow
        <5>4. StepTo("collecting")
          BY <4>1, <5>2, <5>3, CollectDoes
        <5>. QED
          BY <3>5, <5>2, <5>3, <5>4, ProgIs, Constants DEF Filed, StepTo
      <4>. QED
        BY <1>1, <2>1, <3>5, <4>1, <4>2 DEF WordState, Words
    <3>. QED
      BY <3>2, <3>3, <3>4, <3>5 DEF WordState
  <2>. QED
    BY <2>2, <2>3
<1>. QED
  BY <1>2, <1>3

\* Whether the data register has four words.
LEMMA WidthKept ==
    ASSUME Shape, PlaceInv, WordInv, SetUp, [Next]_vars, NEW s \in Slaves, s \notin disturbed',
           WidthKnown(s)'
    PROVE  slavelist'[s].eep_8byte = (s \in EightByte)
<1>1. s \notin disturbed /\ node[s].present
  BY DisturbedGrows DEF PlaceInv
<1>2. WidthKnown(s) => slavelist[s].eep_8byte = (s \in EightByte)
  BY <1>1 DEF WordInv
<1>3. /\ prog.stage \in 1 .. 10 /\ prog.s \in 1 .. SlaveCount /\ s \in 1 .. SlaveCount
      /\ SlaveCount \in Nat
  BY ProgIs, Constants, StageNumbers DEF SetUp, Slaves
<1>4. CASE Width
  <2>1. CASE s = prog.s
    BY <1>1, <1>4, <2>1, WidthDoes DEF Lost, Gone
  <2>2. CASE s # prog.s
    <3>1. WidthKnown(s)
      BY <1>3, <1>4, <2>2, WidthDoes DEF WidthKnown, StepTo
    <3>. QED
      BY <1>2, <1>4, <2>2, <3>1, WidthDoes
  <2>. QED
    BY <2>1, <2>2
<1>5. CASE ~Width
  <2>1. slavelist'[s].eep_8byte = slavelist[s].eep_8byte
    BY <1>5, WordsLeft, CollectedDoes
  <2>2. WidthKnown(s)
    <3>1. CASE prog.stage > 1
      BY <3>1 DEF WidthKnown
    <3>2. CASE prog' = prog
      BY <3>2 DEF WidthKnown
    <3>3. CASE prog.stage = 1 /\ prog' # prog /\ GoesOn
      <4>1. prog.step \in {"issue", "issuing"}
        BY <1>3, <3>3, ProgMoves DEF GoesOn
      <4>2. CASE prog'.stage = 1
        BY <1>3, <3>3, <4>1, <4>2 DEF WidthKnown, GoesOn
      <4>3. CASE prog.s = SlaveCount
        BY <1>3, <4>1, <4>3 DEF WidthKnown
      <4>. QED
        BY <1>3, <3>3, <4>2, <4>3 DEF GoesOn
    <3>4. CASE prog.stage = 1 /\ prog' # prog /\ ~GoesOn
      <4>1. prog.step # "width"
        BY <1>5, <3>4, StepsBy
      <4>2. prog'.stage = prog.stage /\ prog'.s = prog.s
        BY <1>3, <3>4, ProgMoves
      <4>3. prog.step = "issue" \/ prog'.step \notin {"issue", "issuing"}
        BY <1>3, <3>4, <4>1, WhereAt, ProgIs, ProgMoves
      <4>. QED
        BY <1>3, <3>4, <4>2, <4>3 DEF WidthKnown
    <3>. QED
      BY <1>3, <3>1, <3>2, <3>3, <3>4
  <2>. QED
    BY <1>2, <2>1, <2>2
<1>. QED
  BY <1>4, <1>5

\* Only what is wanted is collected.
LEMMA CollectingKept ==
    ASSUME Shape, WordInv, [Next]_vars, NEW s \in Slaves, s = prog'.s, prog'.step = "collecting"
    PROVE  Wanted(s, FieldNow)'
<1>1. prog'.stage \in 2 .. 8
  <2>1. prog'.stage \in 1 .. 17 /\ prog'.step \in StepsOf(prog'.stage)
    BY PositionKept, StageNumbers DEF Position
  <2>. QED
    BY <2>1, StageOf
<1>2. CASE prog' = prog
  <2>1. Wanted(s, FieldNow)
    BY <1>2 DEF WordInv
  <2>2. \A t \in Slaves : slavelist'[t].word = slavelist[t].word
    BY <1>2, WordsLeft, WidthDoes, CollectedDoes DEF StepTo
  <2>. QED
    BY <1>2, <2>1, <2>2 DEF Wanted, Read, FieldNow
<1>3. CASE prog' # prog
  <2>1. prog.stage \in 1 .. 8
    BY <1>1, StagesKept, ProgIs, WhereAt
  <2>2. prog.step = "collect"
    BY <1>3, <2>1, ProgMoves DEF GoesOn
  <2>3. Collect
    BY <1>3, <2>2, StepsBy
  <2>4. Wanted(s, FieldNow) /\ slavelist' = slavelist /\ prog'.stage = prog.stage
    BY <2>3, CollectDoes DEF StepTo
  <2>. QED
    BY <2>4 DEF Wanted, Read, FieldNow
<1>. QED
  BY <1>2, <1>3

\* All of this part.
LEMMA WordInvKept ==
    Shape /\ PlaceInv /\ ReadInv /\ CallInv /\ WordInv /\ [Next]_vars => WordInv'
<1>. SUFFICES ASSUME Shape, PlaceInv, ReadInv, CallInv, WordInv, [Next]_vars PROVE WordInv'
  OBVIOUS
<1>1. SetUp' => SetUp
  BY SetUpKept
<1>2. \A s \in Slaves, f \in Known : Read(s, f)' \in HeaderWords(s)'
  BY HeaderWordsKept
<1>3. SetUp' => \A s \in Slaves, n \in 1 .. 7 : WordState(s, n)'
  BY <1>1, WordStateKept
<1>4. SetUp' => \A s \in Slaves : s \notin disturbed' /\ WidthKnown(s)' =>
                   slavelist'[s].eep_8byte = (s \in EightByte)
  BY <1>1, WidthKept
<1>5. PICK s \in Slaves : s = prog'.s
  BY PositionKept DEF Position
<1>6. prog'.step = "collecting" => Wanted(s, FieldNow)'
  BY <1>5, CollectingKept
<1>7. prog'.step = "collecting" => Wanted(prog.s, FieldNow)'
  BY <1>5, <1>6 DEF Wanted, Read
<1>. QED
  BY <1>2, <1>3, <1>4, <1>7 DEF WordInv

-----------------------------------------------------------------------------
(* The cache of bytes.                                                      *)

\* Who changes the cache.
LEMMA CacheLeft ==
    ASSUME Shape, [Next]_vars
    PROVE  UNCHANGED <<esislave, esibuf>> \/ ReadByte \/ ByteRead
<1>1. CASE CallStep /\ UNCHANGED infoVars
  BY <1>1, ControlDoes, WaitDoes, ValueDoes, CommandDoes, AwaitDoes, DataDoes DEF CallStep
<1>2. CASE \E s \in Slaves : (Finish(s) \/ Leave(s)) /\ UNCHANGED infoVars
  BY <1>2, ExecuteDoes, RefuseDoes DEF Finish
<1>3. CASE SetDefaults \/ Width \/ Collect \/ Collected \/ Issue \/ Issued
  BY <1>3, DefaultsDo, WidthDoes, CollectDoes, CollectedDoes, IssueDoes, IssuedDoes
<1>4. CASE LookupSii \/ LookupMapping \/ Found \/ SectionsRead \/ GivePdi \/ AskPreOp
  BY <1>4, LookupsDo, SectionsReadDoes, GivesPdi, AskPreOpDoes DEF eepromVars
<1>5. CASE \/ \E s \in Slaves : RecoverSlave(s) \/ Reconfigure(s) \/ Exchange(s)
           \/ TakeEeprom \/ CompareWord \/ GiveAddress
  BY <1>5, RecoverSlaveDoes, ReconfigureDoes, ExchangeDoes, TakeEepromDoes, CompareWordDoes,
     GiveAddressDoes DEF eepromVars
<1>6. CASE ForceControl \/ WriteWord \/ Ainc \/ ReadImage \/ WriteAlias \/ Sizing \/ UNCHANGED vars
  BY <1>6, ForceControlDoes, WriteWordDoes, AincDoes, ReadImageDoes, WriteAliasDoes
     DEF Sizing, vars, eepromVars
<1>. QED
  BY <1>1, <1>2, <1>3, <1>4, <1>5, <1>6 DEF Next, Master

\* A byte of the EEPROM, or of a disturbed slave any of its words, or nothing.
ByteTrue(s, b, byte) ==
    \/ byte = Byte(first[s], b)
    \/ /\ s \in disturbed
       /\ byte[1] = Zero \/ \E a \in DOMAIN first[s] : byte[1] = first[s][a]

\* Two bytes to the word.
LEMMA Halves ==
    ASSUME NEW a \in Nat, NEW b \in Nat, 2 * a <= b, b <= 2 * a + 7
    PROVE  /\ (b - 2 * a) \div 2 \in 0 .. 3
           /\ b \div 2 = a + (b - 2 * a) \div 2
           /\ b <= 2 * a + 3 => (b - 2 * a) \div 2 < 2
OBVIOUS

\* What has been read of a slave that is not disturbed.
LEMMA WordOfByte ==
    ASSUME NEW content, NEW a \in Nat, NEW wide \in BOOLEAN, NEW b \in Nat, NEW k \in 0 .. 3,
           b \div 2 = a + k, k < 2 \/ wide
    PROVE  <<Partly(Window(content, a), wide)[k], b % 2>> = Byte(content, b)
<1>1. Partly(Window(content, a), wide)[k] = Window(content, a)[k]
  BY DEF Partly
<1>2. Window(content, a)[k] = IF a + k \in DOMAIN content THEN content[a + k] ELSE Zero
  BY DEF Window
<1>3. Window(content, b \div 2)[0] = IF a + k \in DOMAIN content THEN content[a + k] ELSE Zero
  BY DEF Window
<1>. QED
  BY <1>1, <1>2, <1>3 DEF Byte

\* What has been read of any slave.
LEMMA AnyWord ==
    ASSUME NEW s \in Slaves, NEW w \in Readable(s), NEW wide \in BOOLEAN, NEW k \in 0 .. 3
    PROVE  Partly(w, wide)[k] = Zero \/ \E a \in DOMAIN store[s] : Partly(w, wide)[k] = store[s][a]
<1>1. Partly(w, wide)[k] = Zero \/ Partly(w, wide)[k] = w[k]
  BY DEF Partly
<1>2. CASE w = NoData
  BY <1>1, <1>2, RecordFields
<1>3. ASSUME NEW a, w = Window(store[s], a)
      PROVE  w[k] = Zero \/ \E b \in DOMAIN store[s] : w[k] = store[s][b]
  BY <1>3 DEF Window
<1>4. CASE \E a \in ReadAt(s) : w = Window(store[s], a)
  BY <1>1, <1>3, <1>4
<1>. QED
  BY <1>2, <1>4 DEF Readable

\* The bytes that come into the cache are true.
LEMMA ByteReadTrue ==
    ASSUME Shape, PlaceInv, ReadInv, CallInv, WordInv, ByteInv, ByteRead
    PROVE  /\ \A b \in DOMAIN Filled : b \in Nat /\ ByteTrue(esislave, b, Filled[b])
           /\ esislave \in Slaves
<1>1. /\ call.op = "byte" /\ call.pc = "done" /\ call.s = prog.s /\ prog.stage \in {8, 9}
      /\ prog.s \in Slaves /\ esislave = prog.s
      /\ call.a \in Nat /\ call.r64 \in BOOLEAN
  BY ByteReadDoes, ProgIs DEF CallShape
<1>2. store = first /\ ~Writing /\ SetUp
  BY <1>1, StageNumbers DEF PlaceInv, Writing, SetUp
<1>. DEFINE s == prog.s
            wide == slavelist[s].eep_8byte
            from == 2 * call.a
            got == from .. from + (IF wide THEN 7 ELSE 3)
<1>3. /\ wide \in BOOLEAN
      /\ s \notin disturbed => wide = (s \in EightByte)
  BY <1>1, <1>2, ProgIs DEF ListShape, WordInv, WidthKnown
<1>4. /\ DOMAIN Filled = got \cup DOMAIN esibuf
      /\ \A b \in got : Filled[b] = <<call.res[(b - from) \div 2], b % 2>>
      /\ \A b \in DOMAIN esibuf \ got : Filled[b] = esibuf[b]
  BY <1>1 DEF Filled
<1>5. ASSUME NEW b \in got PROVE b \in Nat /\ ByteTrue(s, b, <<call.res[(b - from) \div 2], b % 2>>)
  <2>. DEFINE k == (b - from) \div 2
  <2>1. b \in Nat /\ k \in 0 .. 3 /\ (k < 2 \/ wide) /\ b \div 2 = call.a + k
    <3>1. b \in Nat /\ 2 * call.a <= b /\ b <= 2 * call.a + 7 /\ (wide \/ b <= 2 * call.a + 3)
      BY <1>1, <1>3
    <3>. QED
      BY <1>1, <3>1, Halves
  <2>. HIDE DEF k, wide
  <2>2. CASE s \notin disturbed
    <3>1. CallGoes(s)
      BY <1>1, <2>2 DEF CallInv
    <3>2. call.res = Partly(Window(store[s], call.a), s \in EightByte)
      BY <1>1, <3>1 DEF CallGoes, ReadFrom
    <3>3. call.res = Partly(Window(first[s], call.a), wide)
      BY <1>2, <1>3, <2>2, <3>2
    <3>. DEFINE content == first[s]
    <3>0. call.a \in Nat /\ wide \in BOOLEAN
      BY <1>1, <1>3
    <3>4. <<Partly(Window(content, call.a), wide)[k], b % 2>> = Byte(content, b)
      <4>. HIDE DEF content
      <4>. QED
        BY <2>1, <3>0, WordOfByte
    <3>. QED
      BY <2>1, <3>3, <3>4 DEF ByteTrue, k
  <2>3. CASE s \in disturbed
    <3>1. PICK w \in Readable(s) : call.res = Partly(w, call.r64)
      BY <1>1, <1>2 DEF ReadInv
    <3>2. call.res[k] = Zero \/ \E a \in DOMAIN first[s] : call.res[k] = first[s][a]
      BY <1>1, <1>2, <2>1, <3>1, AnyWord
    <3>. QED
      BY <2>1, <2>3, <3>2 DEF ByteTrue, k
  <2>. QED
    BY <2>2, <2>3
<1>6. ASSUME NEW b \in DOMAIN esibuf PROVE b \in Nat /\ ByteTrue(s, b, esibuf[b])
  BY <1>1 DEF ByteInv, BytesTrue, ByteTrue
<1>. HIDE DEF got, from
<1>7. ASSUME NEW b \in DOMAIN Filled PROVE b \in Nat /\ ByteTrue(s, b, Filled[b])
  <2>1. CASE b \in got
    BY <1>4, <1>5, <2>1
  <2>2. CASE b \notin got
    BY <1>4, <1>6, <1>7, <2>2
  <2>. QED
    BY <2>1, <2>2
<1>. QED
  BY <1>1, <1>7

\* All of this part.
LEMMA ByteInvKept ==
    Shape /\ PlaceInv /\ ReadInv /\ CallInv /\ WordInv /\ ByteInv /\ [Next]_vars => ByteInv'
<1>. SUFFICES ASSUME Shape, PlaceInv, ReadInv, CallInv, WordInv, ByteInv, [Next]_vars PROVE ByteInv'
  OBVIOUS
<1>1. first' = first /\ disturbed \subseteq disturbed' /\ 0 \notin Slaves
  BY StagesKept, DisturbedGrows DEF Slaves
<1>2. CASE UNCHANGED <<esislave, esibuf>>
  BY <1>1, <1>2 DEF ByteInv, BytesTrue, Byte
<1>3. CASE ReadByte
  <2>1. esislave' = prog.s /\ esibuf' = FreshCache(prog.s) /\ prog.s \in Slaves
    BY <1>3, ReadByteDoes, ProgIs
  <2>2. CASE prog.s = esislave
    BY <1>1, <2>1, <2>2 DEF ByteInv, BytesTrue, Byte, FreshCache
  <2>3. CASE prog.s # esislave
    <3>1. DOMAIN esibuf' = {}
      BY <2>1, <2>3 DEF FreshCache
    <3>. QED
      BY <3>1 DEF ByteInv, BytesTrue
  <2>. QED
    BY <2>2, <2>3
<1>4. CASE ByteRead
  <2>1. /\ \A b \in DOMAIN Filled : b \in Nat /\ ByteTrue(esislave, b, Filled[b])
        /\ esislave' = esislave /\ esibuf' = Filled /\ esislave' # 0
    BY <1>1, <1>4, ByteReadTrue, ByteReadDoes
  <2>. QED
    BY <1>1, <2>1 DEF ByteInv, BytesTrue, Byte, ByteTrue
<1>. QED
  BY <1>2, <1>3, <1>4, CacheLeft

-----------------------------------------------------------------------------
(* Boards that come back.                                                   *)

\* Of an exchanged board only the words of its identity are read: if one of them is the word
\* it is compared with, it is the same field.
LEMMA ComparedTrue ==
    ASSUME Shape, PlaceInv, ReadInv, CompareWord, ReadsRight(prog.s),
           <<call.res[0], call.res[1]>> = Read(prog.s, prog.step)
    PROVE  SameField(prog.s, prog.step)
<1>1. /\ prog.step \in Identity /\ prog.stage = 10 /\ call.s = prog.s /\ prog.s \in Slaves
  BY CompareWordDoes, ProgIs
<1>2. ~Writing /\ SetUp /\ ~HeaderOnly(prog.s) /\ address[prog.s] = "temp"
  BY <1>1, StageNumbers DEF Writing, SetUp, HeaderOnly, PlaceInv, Identity
<1>3. PICK w \in Readable(prog.s) : call.res = Partly(w, call.r64)
  BY <1>1, <1>2 DEF ReadInv
<1>4. <<call.res[0], call.res[1]>> = <<w[0], w[1]>>
  BY <1>3 DEF Partly
<1>5. w # NoData
  <2>1. <<w[0], w[1]>> # <<Zero, Zero>>
    BY <1>1, <1>4 DEF ReadsRight, ToldApart
  <2>. QED
    BY <2>1, RecordFields
<1>6. PICK a \in IdentityAt : w = Window(store[prog.s], a)
  BY <1>2, <1>3, <1>5 DEF Readable, ReadAt
<1>7. PICK g \in Identity : a = ECT_SII[g]
  BY DEF IdentityAt
<1>8. <<w[0], w[1]>> = Words(store[prog.s], ECT_SII[g])
  BY <1>6, <1>7 DEF Words
<1>9. g = prog.step
  BY <1>1, <1>4, <1>8 DEF ReadsRight, ToldApart
<1>. QED
  BY <1>4, <1>8, <1>9 DEF SameField

\* At the recovery no word is filed.
LEMMA SameFieldKept ==
    ASSUME Shape, ReadInv, [Next]_vars, prog.stage \in {9, 10}, NEW s \in Slaves, ~Exchange(s),
           NEW f \in Identity
    PROVE  /\ SameField(s, f) => SameField(s, f)'
           /\ ReadsRight(s)' <=> ReadsRight(s)
<1>1. \A t \in Slaves : slavelist'[t].word = slavelist[t].word
  BY WordsLeft, WidthDoes, CollectedDoes
<1>2. first' = first /\ store'[s] = store[s]
  BY StagesKept, StoreReadOnly, StageNumbers DEF Writing
<1>. QED
  BY <1>1, <1>2 DEF SameField, ReadsRight, IdentityRead, ToldApart, Read, Words

\* Whoever has his address is the same as before, if he had not lost it, ...
LEMMA OwnerSame ==
    ASSUME Shape, PlaceInv, PlaceInv', ReadInv, SameInv, SetUp, SetUp', [Next]_vars, NEW s \in Slaves,
           address'[s] = "own", ReadsRight(s)', NEW f \in Identity
    PROVE  SameField(s, f)'
<1>1. CASE prog'.stage # 10
  <2>1. store' = first'
    BY <1>1, StageNumbers DEF PlaceInv, Writing, SetUp
  <2>. QED
    BY <2>1 DEF ReadsRight, IdentityRead, SameField
<1>2. CASE prog'.stage = 10
  <2>1. prog.stage \in {9, 10}
    BY <1>2, StagesKept, ProgIs, WhereAt
  <2>2. ~Exchange(s)
    BY ExchangeDoes
  <2>3. ReadsRight(s)
    BY <2>1, <2>2, SameFieldKept
  <2>4. CASE address[s] = "own"
    <3>1. SameField(s, f)
      BY <2>3, <2>4 DEF SameInv
    <3>. QED
      BY <2>1, <2>2, <3>1, SameFieldKept
  <2>5. CASE address[s] # "own"
    <3>1. GiveAddress /\ s = prog.s /\ prog.step = "address"
      BY <2>5, AddressLeft, ExchangeDoes, RecoverSlaveDoes, GiveAddressDoes
    <3>2. SameField(s, f)
      BY <2>3, <3>1 DEF SameInv, Identity
    <3>. QED
      BY <2>1, <2>2, <3>2, SameFieldKept
  <2>. QED
    BY <2>4, <2>5
<1>. QED
  BY <1>1, <1>2

\* ... and as far as he has been compared, if he had.
LEMMA ComparedSame ==
    ASSUME Shape, PlaceInv, ReadInv, SameInv, SetUp, [Next]_vars,
           NEW s \in Slaves, s = prog'.s, ReadsRight(s)'
    PROVE  /\ prog'.step \in {"man", "rev", "address"} => SameField(s, "id")'
           /\ prog'.step \in {"rev", "address"} => SameField(s, "man")'
           /\ prog'.step = "address" => SameField(s, "rev")'
<1>. SUFFICES ASSUME prog'.step \in {"man", "rev", "address"}
              PROVE  /\ SameField(s, "id")'
                     /\ prog'.step \in {"rev", "address"} => SameField(s, "man")'
                     /\ prog'.step = "address" => SameField(s, "rev")'
  OBVIOUS
<1>1. "id" \in Identity /\ "man" \in Identity /\ "rev" \in Identity
  BY DEF Identity
<1>2. CASE prog' = prog
  <2>1. prog.stage = 10 /\ ~Exchange(s)
    BY <1>2, ProgIs, WhereAt, ExchangeDoes
  <2>2. ReadsRight(s)
    BY <1>1, <2>1, SameFieldKept
  <2>3. /\ SameField(s, "id")
        /\ prog'.step \in {"rev", "address"} => SameField(s, "man")
        /\ prog'.step = "address" => SameField(s, "rev")
    BY <1>2, <2>2 DEF SameInv
  <2>. QED
    BY <1>1, <2>1, <2>3, SameFieldKept
<1>3. CASE prog' # prog
  <2>1. CompareWord
    BY <1>3, StepsBy
  <2>2. /\ prog.stage = 10 /\ ~Exchange(s) /\ s = prog.s
        /\ <<call.res[0], call.res[1]>> = Read(prog.s, prog.step)
        /\ \/ prog.step = "id" /\ prog'.step = "man"
           \/ prog.step = "man" /\ prog'.step = "rev"
           \/ prog.step = "rev" /\ prog'.step = "address"
    BY <1>3, <2>1, CompareWordDoes, ExchangeDoes DEF StepTo, Exchange, Identity
  <2>3. ReadsRight(s)
    BY <1>1, <2>2, SameFieldKept
  <2>4. SameField(s, prog.step)
    BY <2>1, <2>2, <2>3, ComparedTrue
  <2>5. /\ prog.step \in {"man", "rev"} => SameField(s, "id")
        /\ prog.step = "rev" => SameField(s, "man")
    BY <2>2, <2>3 DEF SameInv
  <2>6. /\ SameField(s, "id")
        /\ prog'.step \in {"rev", "address"} => SameField(s, "man")
        /\ prog'.step = "address" => SameField(s, "rev")
    BY <2>2, <2>4, <2>5
  <2>. QED
    BY <1>1, <2>2, <2>6, SameFieldKept
<1>. QED
  BY <1>2, <1>3

\* All of this part.
LEMMA SameInvKept ==
    Shape /\ PlaceInv /\ ReadInv /\ SameInv /\ [Next]_vars => SameInv'
<1>. SUFFICES ASSUME Shape, PlaceInv, ReadInv, SameInv, [Next]_vars, SetUp' PROVE SameInv'
  BY DEF SameInv
<1>1. SetUp /\ PlaceInv'
  BY SetUpKept, PlaceKept
<1>2. \A s \in Slaves : address'[s] = "own" /\ ReadsRight(s)' => \A f \in Identity : SameField(s, f)'
  BY <1>1, OwnerSame
<1>3. PICK s \in Slaves : s = prog'.s
  BY PositionKept DEF Position
<1>4. ReadsRight(s)' =>
         /\ prog'.step \in {"man", "rev", "address"} => SameField(s, "id")'
         /\ prog'.step \in {"rev", "address"} => SameField(s, "man")'
         /\ prog'.step = "address" => SameField(s, "rev")'
  BY <1>1, <1>3, ComparedSame
<1>. QED
  BY <1>2, <1>3, <1>4 DEF SameInv, ReadsRight, IdentityRead, ToldApart, SameField, Read

-----------------------------------------------------------------------------
(* The tools.                                                               *)

\* The steps of a tool.
LEMMA ToolMoves ==
    ASSUME Shape, [Next]_vars, ~SetUp
    PROVE  \/ /\ prog' = prog /\ ebuf' = ebuf
              /\ call'.op = call.op /\ call'.a = call.a /\ call'.value = call.value
           \/ /\ ForceControl \/ Ainc \/ WriteWord \/ ReadImage \/ WriteAlias
              /\ store' = store
<1>1. prog.stage \notin 1 .. 10
  BY StageNumbers DEF SetUp
<1>2. CASE CallStep /\ UNCHANGED infoVars
  <2>1. SameCall
    BY <1>2, ControlDoes, WaitDoes, ValueDoes, CommandDoes, AwaitDoes, DataDoes
       DEF CallStep, SameCallButPc
  <2>. QED
    BY <1>2, <2>1 DEF SameCall, infoVars
<1>3. CASE \E s \in Slaves : (Finish(s) \/ Leave(s)) /\ UNCHANGED infoVars
  BY <1>3, ExecuteDoes, RefuseDoes DEF Finish, infoVars
<1>4. CASE SetDefaults \/ Width \/ Collect \/ Collected \/ Issue \/ Issued
  BY <1>1, <1>4, ProgIs, WhereAt, DefaultsDo, WidthDoes, CollectDoes, CollectedDoes, IssueDoes,
     IssuedDoes
<1>5. CASE LookupSii \/ LookupMapping \/ ReadByte \/ ByteRead \/ Found \/ SectionsRead \/ GivePdi
           \/ AskPreOp
  BY <1>1, <1>5, LookupsDo, ReadByteDoes, ByteReadDoes, SectionsReadDoes, GivesPdi, AskPreOpDoes
<1>6. CASE \/ \E s \in Slaves : RecoverSlave(s) \/ Reconfigure(s) \/ Exchange(s)
           \/ TakeEeprom \/ CompareWord \/ GiveAddress
  BY <1>1, <1>6, RecoverSlaveDoes, ReconfigureDoes, ExchangeDoes, TakeEepromDoes, CompareWordDoes,
     GiveAddressDoes, StageNumbers
<1>7. CASE Sizing \/ UNCHANGED vars
  BY <1>7 DEF Sizing, vars, eepromVars, infoVars
<1>8. CASE ForceControl
  BY <1>8, ForceControlDoes
<1>9. CASE Ainc \/ WriteWord \/ ReadImage \/ WriteAlias
  BY <1>9, AincDoes, WriteWordDoes, ReadImageDoes, WriteAliasDoes
<1>. QED
  BY <1>2, <1>3, <1>4, <1>5, <1>6, <1>7, <1>8, <1>9 DEF Next, Master

\* They stay at their slave.
LEMMA ToolStays ==
    ASSUME Shape, [Next]_vars, ~SetUp
    PROVE  prog'.s = prog.s /\ \A s \in Slaves : ~Exchange(s)
<1>1. \A s \in Slaves : ~Exchange(s)
  BY ExchangeDoes, StageNumbers DEF SetUp
<1>. QED
  BY <1>1, ToolMoves, ForceControlDoes, AincDoes, WriteWordDoes, ReadImageDoes, WriteAliasDoes
     DEF StepTo, StageTo

\* The words that are written or compared are in every EEPROM.
LEMMA ToolWords ==
    ASSUME Shape, NEW s \in Slaves
    PROVE  0 .. 15 \subseteq DOMAIN store[s] /\ DOMAIN Image \subseteq DOMAIN store[s]
<1>1. \E k \in Kinds : DOMAIN store[s] = DOMAIN Contents[k]
  BY DEF Shape, StoreShape
<1>. QED
  BY <1>1, InfoAssumption

\* A controller is busy only while the tool waits for it.
LEMMA BusyKept ==
    ASSUME Shape, PlaceInv, ToolInv, [Next]_vars
    PROVE  BusyAwaited'
<1>. SUFFICES ASSUME ~SetUp', NEW t \in Slaves, t \notin disturbed', node'[t].busy
              PROVE  t = prog'.s /\ call'.op # "none" /\ call'.pc = "await"
  BY DEF BusyAwaited
<1>1. ~SetUp /\ prog'.s = prog.s /\ \A s \in Slaves : ~Exchange(s)
  BY SetUpKept, ToolStays
<1>2. t \notin disturbed /\ node[t].present /\ disturbed \subseteq Slaves
      /\ node[t].busy \in BOOLEAN /\ node[t].nack \in BOOLEAN /\ node[t].present \in BOOLEAN
  BY DisturbedGrows, ProgIs DEF PlaceInv, ProgShape, NodeShape
<1>3. CASE node[t].busy
  <2>1. t = prog.s /\ call.op # "none" /\ call.pc = "await"
    BY <1>1, <1>2, <1>3 DEF ToolInv, BusyAwaited
  <2>2. call.s = t
    BY <2>1, ProgIs, CallNow
  <2>3. ~CallStep
    <3>1. ~Control /\ ~Wait /\ ~Value /\ ~Command /\ ~Data
      BY <2>1, ControlDoes, WaitDoes, ValueDoes, CommandDoes, DataDoes
    <3>2. ~Await
      BY <1>2, <1>3, <2>2, AwaitDoes, WaitTells
    <3>. QED
      BY <3>1, <3>2 DEF CallStep
  <2>4. UNCHANGED call
    <3>1. CASE CallStep /\ UNCHANGED infoVars
      BY <2>3, <3>1
    <3>2. CASE \E s \in Slaves : (Finish(s) \/ Leave(s)) /\ UNCHANGED infoVars
      BY <3>2, ExecuteDoes, RefuseDoes DEF Finish
    <3>3. CASE Sizing \/ UNCHANGED vars
      BY <3>3 DEF Sizing, vars, eepromVars
    <3>4. CASE SetDefaults \/ Width \/ Collect \/ Collected \/ Issue \/ Issued
      BY <1>1, <3>4, ProgIs, WhereAt, DefaultsDo, WidthDoes, CollectDoes, CollectedDoes, IssueDoes,
         IssuedDoes, StageNumbers DEF SetUp
    <3>5. CASE LookupSii \/ LookupMapping \/ ReadByte \/ ByteRead \/ Found \/ SectionsRead
               \/ GivePdi \/ AskPreOp
      BY <2>1, <3>5, LookupsDo, ReadByteDoes, ByteReadDoes, SectionsReadDoes, GivesPdi, AskPreOpDoes
    <3>6. CASE \/ \E s \in Slaves : RecoverSlave(s) \/ Reconfigure(s) \/ Exchange(s)
               \/ TakeEeprom \/ CompareWord \/ GiveAddress
      BY <2>1, <3>6, RecoverSlaveDoes, ReconfigureDoes, ExchangeDoes, TakeEepromDoes,
         CompareWordDoes, GiveAddressDoes DEF eepromVars
    <3>7. CASE ForceControl \/ WriteWord \/ Ainc \/ ReadImage \/ WriteAlias
      BY <2>1, <3>7, ForceControlDoes, WriteWordDoes, AincDoes, ReadImageDoes, WriteAliasDoes
    <3>. QED
      BY <3>1, <3>2, <3>3, <3>4, <3>5, <3>6, <3>7 DEF Next, Master
  <2>. QED
    BY <1>1, <2>1, <2>4
<1>4. CASE ~node[t].busy
  <2>1. Command /\ t = call.s
    <3>1. ~SameController(t)
      BY <1>4 DEF SameController
    <3>2. ~Value \/ node'[t].busy = node[t].busy
      BY ValueDoes
    <3>3. \A s \in Slaves : ~Execute(s) /\ ~Refuse(s) /\ ~Leave(s)
      BY <1>4, ExecuteDoes, RefuseDoes
    <3>4. Command
      BY <1>1, <1>4, <3>1, <3>2, <3>3, Controllers
    <3>. QED
      BY <1>4, <3>4, CommandDoes
  <2>2. call.op # "none" /\ call.op # "issue" /\ t = prog.s
    BY <1>1, <2>1, CommandDoes, ProgIs, CallNow, WhereAt, StageNumbers DEF SetUp
  <2>3. call'.pc = "await" /\ call'.op = call.op
    BY <1>4, <2>1, <2>2, CommandDoes DEF SameCallButPc, SameCall
  <2>. QED
    BY <1>1, <2>2, <2>3
<1>. QED
  BY <1>3, <1>4

\* A controller writes the word it has been given, and no other.
LEMMA ToolStore ==
    ASSUME Shape, PlaceInv, CallInv, ToolInv, ~SetUp, [Next]_vars, prog.s \notin disturbed,
           NEW a \in DOMAIN store[prog.s], ~(call.op = "write" /\ call.a = a)
    PROVE  store'[prog.s][a] = store[prog.s][a]
<1>1. prog.s \in Slaves /\ \A s \in Slaves : ~Exchange(s)
  BY ProgIs, ToolStays
<1>2. ASSUME NEW t \in Slaves, Execute(t) PROVE store'[prog.s][a] = store[prog.s][a]
  <2>1. CASE t # prog.s
    BY <1>1, <1>2, <2>1, ExecuteDoes
  <2>2. CASE t = prog.s
    <3>1. node[t].busy
      BY <1>2, ExecuteDoes
    <3>2. call.op # "none" /\ call.pc = "await"
      BY <2>2, <3>1 DEF ToolInv, BusyAwaited
    <3>3. call.s = t
      BY <2>2, <3>2, ProgIs, CallNow
    <3>4. CallGoes(t)
      BY <2>2, <3>2, <3>3 DEF CallInv
    <3>5. CASE call.op = "write"
      <4>1. node[t].comm = "write" /\ node[t].at = call.a
        BY <3>1, <3>2, <3>4, <3>5 DEF CallGoes, HasWritten
      <4>. QED
        BY <1>2, <2>2, <3>5, <4>1, ExecuteDoes
    <3>6. CASE call.op # "write"
      <4>1. node[t].comm = "read"
        BY <3>1, <3>2, <3>4, <3>6 DEF CallGoes, HasRead
      <4>. QED
        BY <1>2, <4>1, ExecuteDoes
    <3>. QED
      BY <3>5, <3>6
  <2>. QED
    BY <2>1, <2>2
<1>. QED
  BY <1>1, <1>2, StoreLeft

\* The image is written, word after word.
LEMMA FlashesKept ==
    ASSUME Shape, PlaceInv, CallInv, ToolInv, [Next]_vars, ~SetUp, NEW s \in Slaves,
           s \notin disturbed', s = prog.s
    PROVE  Flashes(s)'
<1>1. s \notin disturbed /\ s \in Slaves /\ DOMAIN Image \subseteq DOMAIN store[s] /\ DOMAIN Image \subseteq Nat
  BY DisturbedGrows, ToolWords, Constants
<1>2. Flashes(s)
  BY <1>1 DEF ToolInv
<1>3. ASSUME NEW a \in DOMAIN Image, ~(call.op = "write" /\ call.a = a) PROVE store'[s][a] = store[s][a]
  BY <1>1, <1>3, ToolStore
<1>4. CASE /\ prog' = prog /\ ebuf' = ebuf
           /\ call'.op = call.op /\ call'.a = call.a /\ call'.value = call.value
  <2>1. prog.stage = FLASHED => call.op # "write"
    BY ProgIs, CallNow, WhereAt, StageNumbers
  <2>2. prog.stage = FLASHING /\ call.op = "write" =>
           \A a \in DOMAIN Image : a < call.a => store'[s][a] = Image[a]
    BY <1>1, <1>2, <1>3, ProgIs DEF Flashes, CallShape
  <2>3. prog.stage = FLASHED => \A a \in DOMAIN Image : store'[s][a] = Image[a]
    BY <1>2, <1>3, <2>1 DEF Flashes
  <2>. QED
    BY <1>4, <2>2, <2>3 DEF Flashes
<1>5. CASE WriteWord /\ store' = store
  <2>1. prog.stage = FLASHING /\ call.pc = "done" /\ call.op \in {"none", "write"}
    BY <1>5, WriteWordDoes, StageNumbers
  <2>2. ASSUME call.op = "write"
        PROVE  /\ call.a \in DOMAIN Image /\ store[s][call.a] = Image[call.a]
               /\ \A a \in DOMAIN Image : a < call.a + 1 => store[s][a] = Image[a]
    <3>1. call.a \in DOMAIN Image /\ call.value = Image[call.a] /\ call.s = s
      BY <2>1, <2>2, ProgIs, CallNow DEF CallShape
    <3>2. store[s][call.a] = call.value
      BY <1>1, <2>1, <2>2, <3>1 DEF CallInv, CallGoes
    <3>3. \A a \in DOMAIN Image : a < call.a + 1 => a < call.a \/ a = call.a
      BY <1>1, <3>1
    <3>. QED
      BY <1>2, <2>1, <2>2, <3>1, <3>2, <3>3 DEF Flashes
  <2>3. CASE NextAddress \in DOMAIN Image
    <3>1. Begin("write", prog.s, NextAddress, Image[NextAddress]) /\ prog' = prog
      BY <1>5, <2>3, WriteWordDoes
    <3>2. call'.a = NextAddress
      BY <3>1, BeginAsks
    <3>3. \A a \in DOMAIN Image : a < NextAddress => store[s][a] = Image[a]
      <4>1. CASE call.op = "none"
        BY <1>1, <2>3, <4>1, ImageAddress
      <4>2. CASE call.op = "write"
        BY <2>2, <4>2, ImageAddress
      <4>. QED
        BY <2>1, <4>1, <4>2
    <3>. QED
      BY <1>5, <2>1, <3>1, <3>2, <3>3, StageNumbers DEF Flashes
  <2>4. CASE NextAddress \notin DOMAIN Image
    <3>1. call.op = "write" /\ call.a + 1 \notin DOMAIN Image
      BY <2>1, <2>4, ImageAddress
    <3>2. PICK a, b \in DOMAIN Image : DOMAIN Image = a .. b
      BY InfoAssumption
    <3>3. \A c \in DOMAIN Image : c < call.a + 1
      BY <1>1, <2>2, <3>1, <3>2
    <3>4. call' = NoCall /\ prog'.stage = 12
      BY <1>5, <2>4, WriteWordDoes DEF StageTo
    <3>. QED
      BY <1>5, <2>2, <3>1, <3>3, <3>4, StageNumbers DEF Flashes
  <2>. QED
    BY <2>3, <2>4
<1>6. CASE ForceControl
  BY <1>6, ForceControlDoes, StageNumbers DEF Flashes, StepTo
<1>7. CASE Ainc
  BY <1>7, AincDoes, StageNumbers DEF Flashes, StepTo
<1>8. CASE ReadImage
  BY <1>8, ReadImageDoes, StageNumbers DEF Flashes, StageTo
<1>9. CASE WriteAlias
  BY <1>9, WriteAliasDoes, StageNumbers DEF Flashes, StageTo
<1>. QED
  BY <1>4, <1>5, <1>6, <1>7, <1>8, <1>9, ToolMoves

\* What has been read so far.
LEMMA ReadSoFarIs ==
    ASSUME call.op # "none", call.a \in Nat
    PROVE  /\ DOMAIN ReadSoFar = (call.a .. call.a + WordsRead - 1) \cup DOMAIN ebuf
           /\ \A a \in DOMAIN ReadSoFar :
                 ReadSoFar[a] = IF a \in call.a .. call.a + WordsRead - 1 THEN call.res[a - call.a]
                                ELSE ebuf[a]
BY DEF ReadSoFar

\* The words are read in their order.
LEMMA ReadImageTrue ==
    ASSUME Shape, PlaceInv, CallInv, ToolInv, ReadImage, prog.s \notin disturbed, call.op = "dump",
           NEW a \in 0 .. 15, a < call.a + WordsRead
    PROVE  a \in DOMAIN ReadSoFar /\ ReadSoFar[a] = first[prog.s][a]
<1>1. /\ prog.step \in {"by2", "by4"} /\ prog.stage = 14 /\ call.pc = "done" /\ call.s = prog.s
      /\ prog.s \in Slaves /\ call.a \in Nat /\ call.op # "none"
  BY ReadImageDoes, ProgIs DEF CallShape
<1>2. store = first
  BY <1>1, StageNumbers DEF PlaceInv, Writing
<1>3. Dumps(prog.s) /\ CallGoes(prog.s)
  BY <1>1 DEF ToolInv, CallInv
<1>4. WordsRead \in {2, 4} /\ (WordsRead = 4 <=> prog.s \in EightByte)
  BY <1>1, <1>3 DEF Dumps, WordsRead
<1>5. CASE a < call.a
  <2>1. a \in BeforeCall
    BY <1>1, <1>5 DEF BeforeCall
  <2>2. a \in DOMAIN ebuf /\ ebuf[a] = first[prog.s][a]
    BY <1>1, <1>3, <2>1 DEF Dumps, HasDumped
  <2>3. a \notin call.a .. call.a + WordsRead - 1
    BY <1>1, <1>5
  <2>. QED
    BY <1>1, <2>2, <2>3, ReadSoFarIs
<1>6. CASE a >= call.a
  <2>1. a \in call.a .. call.a + WordsRead - 1 /\ a - call.a \in 0 .. 3
        /\ (a - call.a < 2 \/ prog.s \in EightByte)
    BY <1>1, <1>4, <1>6
  <2>2. call.res = Partly(Window(store[prog.s], call.a), prog.s \in EightByte)
    BY <1>1, <1>3 DEF CallGoes, ReadFrom
  <2>3. call.res[a - call.a] = Window(store[prog.s], call.a)[a - call.a]
    BY <2>1, <2>2 DEF Partly
  <2>4. a \in DOMAIN store[prog.s] /\ call.a + (a - call.a) = a
    BY <1>1, ToolWords
  <2>5. Window(store[prog.s], call.a)[a - call.a] = store[prog.s][a]
    BY <2>1, <2>4 DEF Window
  <2>. QED
    BY <1>1, <1>2, <2>1, <2>3, <2>5, ReadSoFarIs
<1>. QED
  BY <1>1, <1>5, <1>6

\* What eepromtool has read of an undisturbed slave stays what that slave holds.
LEMMA DumpsKept ==
    ASSUME Shape, PlaceInv, CallInv, ToolInv, [Next]_vars, ~SetUp, NEW s \in Slaves,
           s \notin disturbed', s = prog.s
    PROVE  Dumps(s)'
<1>1. s \notin disturbed /\ node[s].present /\ first' = first /\ CRCBUF = 7
  BY DisturbedGrows, StagesKept DEF PlaceInv, CRCBUF
<1>2. Dumps(s)
  BY <1>1 DEF ToolInv
<1>3. CASE /\ prog' = prog /\ ebuf' = ebuf
           /\ call'.op = call.op /\ call'.a = call.a /\ call'.value = call.value
  BY <1>1, <1>2, <1>3 DEF Dumps, BeforeCall, HasDumped
<1>4. CASE Ainc
  <2>1. /\ call' = NoCall /\ NoCall.op = "none" /\ prog'.stage = 14
        /\ prog'.step = IF s \in EightByte THEN "by4" ELSE "by2"
    BY <1>1, <1>4, AincDoes, NoCallIs DEF StepTo, Lost, Gone
  <2>2. BeforeCall' = {}
    BY <2>1 DEF BeforeCall
  <2>. QED
    BY <2>1, <2>2, StageNumbers DEF Dumps
<1>5. CASE ReadImage
  <2>1. /\ prog.step \in {"by2", "by4"} /\ prog.stage = 14 /\ ebuf' = ReadSoFar
        /\ call.op \in {"none", "dump"}
    BY <1>5, ReadImageDoes
  <2>. DEFINE next == IF call.op = "none" THEN 0 ELSE call.a + WordsRead
  <2>2. ASSUME NEW a \in 0 .. 15, a < next PROVE HasDumped(s, a)'
    <3>1. call.op = "dump" /\ a < call.a + WordsRead
      BY <2>1, <2>2
    <3>2. a \in DOMAIN ReadSoFar /\ ReadSoFar[a] = first[s][a]
      BY <1>1, <1>5, <3>1, ReadImageTrue
    <3>. QED
      BY <1>1, <2>1, <3>2 DEF HasDumped
  <2>3. next \in Nat
    BY <2>1, ProgIs DEF CallShape, WordsRead
  <2>4. CASE next < CRCBUF
    <3>. HIDE DEF next
    <3>0. Begin("dump", prog.s, next, Zero) /\ prog' = prog
      BY <1>5, <2>1, <2>4, ReadImageDoes DEF next
    <3>1. /\ call'.a = next /\ call'.op = "dump" /\ prog' = prog
      BY <3>0, BeginAsks
    <3>2. BeforeCall' = 0 .. next - 1
      BY <3>1 DEF BeforeCall
    <3>3. \A a \in BeforeCall' : a \in 0 .. 15 /\ a < next
      BY <1>1, <2>3, <2>4, <3>2
    <3>. QED
      BY <1>2, <2>1, <2>2, <3>1, <3>3, StageNumbers DEF Dumps
  <2>5. CASE ~(next < CRCBUF)
    <3>1. prog'.step \in {"idle", "force"} /\ prog'.stage \in {15, 16}
      BY <1>5, <2>5, ReadImageDoes DEF StageTo
    <3>2. \A a \in 0 .. CRCBUF - 1 : a \in 0 .. 15 /\ a < next
      BY <1>1, <2>3, <2>5
    <3>. HIDE DEF next
    <3>3. \A a \in 0 .. CRCBUF - 1 : HasDumped(s, a)'
      BY <2>2, <3>2
    <3>. QED
      BY <3>1, <3>3 DEF Dumps
  <2>. QED
    BY <2>4, <2>5
<1>6. CASE ForceControl
  <2>1. ebuf' = ebuf /\ prog'.stage = prog.stage /\ prog'.step \in {"write", "ainc", "alias"}
    BY <1>6, ForceControlDoes DEF StepTo
  <2>. QED
    BY <1>1, <1>2, <2>1 DEF Dumps, HasDumped
<1>7. CASE WriteWord
  BY <1>7, WriteWordDoes, StageNumbers DEF Dumps, StageTo
<1>8. CASE WriteAlias
  <2>1. ebuf' = ebuf /\ prog.stage = 16 /\ prog'.step \in {"alias", "idle"}
    BY <1>8, WriteAliasDoes DEF StageTo
  <2>2. \A a \in 0 .. CRCBUF - 1 : HasDumped(s, a)
    BY <1>2, <2>1, StageNumbers DEF Dumps
  <2>. QED
    BY <1>1, <2>1, <2>2 DEF Dumps, HasDumped
<1>. QED
  BY <1>3, <1>4, <1>5, <1>6, <1>7, <1>8, ToolMoves

\* The alias is written, and a checksum of the words with the alias among them.
LEMMA AliasesKept ==
    ASSUME Shape, PlaceInv, CallInv, ToolInv, [Next]_vars, ~SetUp, NEW s \in Slaves,
           s \notin disturbed', s = prog.s
    PROVE  Aliases(s)'
<1>1. s \notin disturbed /\ first' = first /\ CRCBUF = 7 /\ 0 .. 15 \subseteq DOMAIN store[s]
  BY DisturbedGrows, StagesKept, ToolWords DEF CRCBUF
<1>2. Aliases(s) /\ Dumps(s)
  BY <1>1 DEF ToolInv
<1>3. ASSUME NEW a \in 0 .. 15, ~(call.op = "write" /\ call.a = a) PROVE store'[s][a] = store[s][a]
  BY <1>1, <1>3, ToolStore
<1>4. call.op = "write" /\ prog.stage = 16 =>
         \/ call.a = 4 /\ call.value = Alias
         \/ call.a = 7 /\ call.value = Checksum([ebuf EXCEPT ![4] = Alias])
  BY ProgIs, StageNumbers DEF CallShape
<1>5. CASE /\ prog' = prog /\ ebuf' = ebuf
           /\ call'.op = call.op /\ call'.a = call.a /\ call'.value = call.value
  <2>1. CASE prog.stage = 16
    <3>1. ASSUME NEW a \in 0 .. 6 PROVE (a = 4 /\ call.op = "write") \/ store'[s][a] = first[s][a]
      BY <1>1, <1>2, <1>3, <1>4, <2>1, StageNumbers DEF Aliases
    <3>2. call.op = "write" /\ call.a = 7 => store'[s][4] = Alias
      BY <1>2, <1>3, <2>1, StageNumbers DEF Aliases
    <3>. QED
      BY <1>1, <1>5, <2>1, <3>1, <3>2, StageNumbers DEF Aliases
  <2>2. CASE prog.stage = 17
    <3>1. call.op # "write"
      BY <2>2, ProgIs, CallNow, WhereAt
    <3>2. \A a \in 0 .. 15 : store'[s][a] = store[s][a]
      BY <1>3, <3>1
    <3>3. Checksum(store[s])' = Checksum(store[s])
      BY <1>1, <3>2 DEF Checksum
    <3>4. store[s][4] = Alias /\ store[s][7] = Checksum(store[s])
      BY <1>2, <2>2, StageNumbers DEF Aliases
    <3>. QED
      BY <1>5, <2>2, <3>2, <3>3, <3>4, StageNumbers DEF Aliases
  <2>3. CASE prog.stage \notin {16, 17}
    BY <1>5, <2>3, StageNumbers DEF Aliases
  <2>. QED
    BY <2>1, <2>2, <2>3
<1>6. CASE WriteAlias
  <2>1. prog.stage = 16 /\ call.pc = "done" /\ store' = store
    BY <1>6, WriteAliasDoes
  <2>2. ASSUME call.op = "write" PROVE store[s][call.a] = call.value /\ call.ok
    <3>1. call.s = s
      BY <2>2, ProgIs, CallNow
    <3>. QED
      BY <1>1, <2>1, <2>2, <3>1 DEF CallInv, CallGoes
  <2>3. \A a \in 0 .. 6 : (a = 4 /\ call.op = "write") \/ store[s][a] = first[s][a]
    BY <1>1, <1>2, <2>1, StageNumbers DEF Aliases
  <2>4. CASE call.op = "none"
    <3>1. Begin("write", prog.s, 4, Alias) /\ prog' = prog
      BY <1>6, <2>4, WriteAliasDoes
    <3>2. call'.op = "write" /\ call'.a = 4
      BY <3>1, BeginAsks
    <3>. QED
      BY <1>1, <2>1, <2>3, <2>4, <3>1, <3>2, StageNumbers DEF Aliases
  <2>5. CASE call.op = "write" /\ call.a = 4
    <3>. DEFINE sum == Checksum([ebuf EXCEPT ![4] = Alias])
    <3>0. Begin("write", prog.s, 7, sum) /\ prog' = prog
      BY <1>6, <2>2, <2>5, WriteAliasDoes
    <3>. HIDE DEF sum
    <3>1. call'.op = "write" /\ call'.a = 7 /\ prog' = prog
      BY <3>0, BeginAsks
    <3>2. store[s][4] = Alias
      BY <1>4, <2>1, <2>2, <2>5
    <3>. QED
      BY <1>1, <2>1, <2>3, <2>5, <3>1, <3>2, StageNumbers DEF Aliases
  <2>6. CASE call.op = "write" /\ call.a = 7
    <3>1. call' = NoCall /\ prog'.stage = 17
      BY <1>6, <2>2, <2>6, WriteAliasDoes DEF StageTo
    <3>2. store[s][4] = Alias
      BY <1>2, <2>1, <2>6, StageNumbers DEF Aliases
    <3>3. \A a \in 0 .. 6 : a \in DOMAIN ebuf /\ ebuf[a] = first[s][a]
      BY <1>1, <1>2, <2>1, StageNumbers DEF Dumps, HasDumped
    <3>. DEFINE buf == [ebuf EXCEPT ![4] = Alias]
    <3>4. \A a \in 0 .. 6 : buf[a] = store[s][a]
      BY <2>3, <3>2, <3>3
    <3>. HIDE DEF buf
    <3>5. Checksum(buf) = Checksum(store[s])
      BY <1>1, <3>4 DEF Checksum
    <3>6. store[s][7] = Checksum(buf)
      BY <1>4, <2>1, <2>2, <2>6 DEF buf
    <3>. QED
      BY <2>1, <3>1, <3>2, <3>5, <3>6, StageNumbers DEF Aliases, Checksum
  <2>. QED
    BY <1>4, <1>6, <2>1, <2>4, <2>5, <2>6, WriteAliasDoes
<1>7. CASE ReadImage
  <2>1. prog.stage = 14 /\ store' = store
    BY <1>7, ReadImageDoes
  <2>2. store = first
    BY <2>1, StageNumbers DEF PlaceInv, Writing
  <2>3. prog' = prog \/ (call' = NoCall /\ prog'.stage \in {15, 16})
    BY <1>7, ReadImageDoes DEF StageTo
  <2>. QED
    BY <1>1, <2>1, <2>2, <2>3, NoCallIs, StageNumbers DEF Aliases
<1>8. CASE ForceControl
  <2>1. store' = store /\ prog'.stage = prog.stage /\ call' = call /\ prog.stage # 17
    BY <1>8, ForceControlDoes DEF StepTo
  <2>. QED
    BY <1>1, <1>2, <2>1, StageNumbers DEF Aliases
<1>9. CASE WriteWord \/ Ainc
  BY <1>9, WriteWordDoes, AincDoes, StageNumbers DEF Aliases, StageTo, StepTo
<1>. QED
  BY <1>5, <1>6, <1>7, <1>8, <1>9, ToolMoves

\* All of this part.
LEMMA ToolInvKept ==
    Shape /\ PlaceInv /\ CallInv /\ ToolInv /\ [Next]_vars => ToolInv'
<1>. SUFFICES ASSUME Shape, PlaceInv, CallInv, ToolInv, [Next]_vars PROVE ToolInv'
  OBVIOUS
<1>1. BusyAwaited'
  BY BusyKept
<1>2. ASSUME NEW s \in Slaves, s \notin disturbed', s = prog'.s
      PROVE  Flashes(s)' /\ Dumps(s)' /\ Aliases(s)'
  <2>1. CASE SetUp'
    <3>1. prog'.stage \in 1 .. 10
      BY <2>1, StageNumbers DEF SetUp
    <3>2. prog'.step \notin {"by2", "by4"}
      BY <3>1, PositionKept, StageOf DEF Position
    <3>. QED
      BY <3>1, <3>2, StageNumbers DEF Flashes, Dumps, Aliases
  <2>2. CASE ~SetUp'
    <3>1. ~SetUp /\ prog'.s = prog.s
      BY <2>2, SetUpKept, ToolStays
    <3>. QED
      BY <1>2, <3>1, FlashesKept, DumpsKept, AliasesKept
  <2>. QED
    BY <2>1, <2>2
<1>. QED
  BY <1>1, <1>2 DEF ToolInv

-----------------------------------------------------------------------------
(* The theorems.                                                            *)

\* Where the program begins.
LEMMA InitIs ==
    ASSUME Init
    PROVE  /\ \A s \in Slaves :
                 /\ DOMAIN node[s] = DOMAIN PoweredUp
                 /\ node[s].present = TRUE /\ node[s].busy = FALSE /\ node[s].nack = FALSE
                 /\ node[s].refuses = FALSE /\ node[s].reg = NoData
                 /\ DOMAIN slavelist[s] = {"eep_pdi", "eep_8byte", "word"}
                 /\ slavelist[s].eep_pdi = FALSE /\ slavelist[s].eep_8byte = FALSE
                 /\ DOMAIN slavelist[s].word = Known
                 /\ \A f \in Known : Read(s, f) = NoWord
                 /\ \E k \in Kinds : store[s] = Contents[k]
           /\ DOMAIN node = Slaves /\ DOMAIN slavelist = Slaves /\ DOMAIN store = Slaves
           /\ first = store /\ call = NoCall /\ esislave = 0 /\ DOMAIN esibuf = {}
           /\ faults = 0 /\ disturbed = {} /\ asked = {}
           /\ address = [s \in Slaves |-> "own"]
           /\ DOMAIN prog = {"stage", "s", "step"} /\ prog.s \in Slaves
           /\ \/ prog.stage = 1 /\ prog.s = 1 /\ prog.step = "defaults"
              \/ prog.stage = 13 /\ prog.step = "idle"
              \/ prog.stage \in {11, 14} /\ prog.step = "force"
<1>1. /\ DOMAIN node = Slaves /\ \A s \in Slaves : node[s] = [PoweredUp EXCEPT !.owner = "pdi"]
      /\ DOMAIN slavelist = Slaves
      /\ \A s \in Slaves : slavelist[s] = [eep_pdi |-> FALSE, eep_8byte |-> FALSE,
                                           word |-> [f \in Known |-> <<Zero, Zero>>]]
  BY DEF Init, EepromInit, Known
<1>2. \A s \in Slaves :
         /\ DOMAIN node[s] = DOMAIN PoweredUp
         /\ node[s].present = TRUE /\ node[s].busy = FALSE /\ node[s].nack = FALSE
         /\ node[s].refuses = FALSE /\ node[s].reg = NoData
  BY <1>1 DEF PoweredUp
<1>3. \A s \in Slaves :
         /\ DOMAIN slavelist[s] = {"eep_pdi", "eep_8byte", "word"}
         /\ slavelist[s].eep_pdi = FALSE /\ slavelist[s].eep_8byte = FALSE
         /\ DOMAIN slavelist[s].word = Known
         /\ \A f \in Known : Read(s, f) = NoWord
  BY <1>1 DEF Read, NoWord
<1>4. DOMAIN store = Slaves /\ \A s \in Slaves : \E k \in Kinds : store[s] = Contents[k]
  BY Constants DEF Init, EepromInit
<1>5. /\ first = store /\ call = NoCall /\ esislave = 0 /\ DOMAIN esibuf = {}
      /\ faults = 0 /\ disturbed = {} /\ asked = {}
      /\ address = [s \in Slaves |-> "own"]
  BY DEF Init, EepromInit
<1>6. /\ DOMAIN prog = {"stage", "s", "step"} /\ prog.s \in Slaves
      /\ \/ prog.stage = 1 /\ prog.s = 1 /\ prog.step = "defaults"
         \/ prog.stage = 13 /\ prog.step = "idle"
         \/ prog.stage \in {11, 14} /\ prog.step = "force"
  <2>1. CASE prog = [stage |-> 1, s |-> 1, step |-> "defaults"]
    BY <2>1, Constants
  <2>2. CASE prog = [stage |-> SIZING, s |-> 1, step |-> "idle"]
    BY <2>2, Constants, StageNumbers
  <2>3. CASE prog \in [stage : {FLASHING, READING}, s : Slaves, step : {"force"}]
    BY <2>3, StageNumbers
  <2>. QED
    BY <2>1, <2>2, <2>3 DEF Init
<1>. QED
  BY <1>1, <1>2, <1>3, <1>4, <1>5, <1>6

\* The records have their fields at the beginning.
LEMMA InitShape == Init => Shape
<1>. SUFFICES ASSUME Init PROVE Shape
  OBVIOUS
<1>1. NodeShape /\ ListShape
  BY InitIs, RecordFields DEF NodeShape, ListShape
<1>2. StoreShape
  <2>1. first = store /\ DOMAIN store = Slaves /\ \A s \in Slaves : \E k \in Kinds : store[s] = Contents[k]
    BY InitIs
  <2>. QED
    BY <2>1 DEF StoreShape
<1>3. ProgShape
  <2>1. Position
    BY InitIs, StageOf, StageNumbers DEF Position
  <2>2. esislave \in 0 .. SlaveCount /\ faults \in 0 .. MaxFaults
    BY InitIs, Constants
  <2>. QED
    BY <2>1, <2>2, InitIs DEF ProgShape
<1>4. CallShape
  <2>1. "none" \in CallsAt(prog.step) /\ "done" \in PointsOf("none")
    BY InitIs, NoneAt DEF PointsOf
  <2>2. call = NoCall
    BY InitIs
  <2>3. /\ DOMAIN call = DOMAIN NoCall /\ call.op = "none" /\ call.pc = "done" /\ call.s = 1
        /\ call.nacks = 0 /\ call.r64 = FALSE /\ call.ok = FALSE /\ call.a = 0
        /\ DOMAIN call.res = 0 .. 3
    BY <2>2, NoCallIs, RecordFields
  <2>4. call.op \in CallsAt(prog.step) /\ call.pc \in PointsOf(call.op)
    BY <2>1, <2>3
  <2>5. /\ call.op # "issue" /\ call.op # "word" /\ call.op # "byte" /\ call.op # "write"
        /\ call.pc \notin {"control", "wait", "value", "command", "await"}
        /\ call.a \in Nat /\ call.nacks \in 0 .. MaxNacks /\ call.s \in Slaves
    BY <2>3, Constants
  <2>. QED
    BY <2>2, <2>3, <2>4, <2>5 DEF CallShape
<1>. QED
  BY <1>1, <1>2, <1>3, <1>4 DEF Shape

\* The invariant holds at the beginning: nothing has been asked or read.
LEMMA InitInv == Init => InfoInv /\ SameInv
<1>. SUFFICES ASSUME Init PROVE InfoInv /\ SameInv
  OBVIOUS
<1>1. Shape
  BY InitShape
<1>2. PlaceInv
  BY InitIs DEF PlaceInv
<1>3. ReadInv
  <2>1. \A s \in Slaves : node[s].busy = FALSE /\ node[s].reg = NoData
    BY InitIs
  <2>2. call.s \in Slaves /\ call.r64 = FALSE /\ call.res = NoData /\ call.op = "none"
    BY InitIs, NoCallIs, Constants
  <2>3. NoData = Partly(NoData, call.r64)
    BY NoDataReadable
  <2>. QED
    BY <2>1, <2>2, <2>3, NoDataReadable DEF ReadInv
<1>4. OwnerInv
  <2>1. \A s \in Slaves : slavelist[s].eep_pdi = FALSE
    BY InitIs
  <2>2. asked = {} /\ prog.s \in Slaves
    BY InitIs
  <2>3. \/ prog.stage = 1 /\ prog.step = "defaults"
        \/ prog.stage = 13 /\ prog.step = "idle"
        \/ prog.stage \in {11, 14} /\ prog.step = "force"
    BY InitIs
  <2>4. ~SetUp \/ prog.step = "defaults"
    BY <2>3, StageNumbers DEF SetUp
  <2>5. ToolOwns
    BY <2>3, StageNumbers DEF ToolOwns
  <2>. QED
    BY <2>1, <2>2, <2>3, <2>4, <2>5 DEF OwnerInv, FlagTells
<1>5. CallInv
  BY InitIs, NoCallIs DEF CallInv
<1>6. WordInv
  <2>0. /\ prog.step # "collecting"
        /\ \A s \in Slaves, f \in Known : Read(s, f) = NoWord
    BY InitIs
  <2>1. SetUp => prog.stage = 1 /\ prog.s = 1 /\ prog.step = "defaults"
    BY InitIs, StageNumbers DEF SetUp
  <2>2. ASSUME SetUp, NEW s \in Slaves, NEW n \in 1 .. 7 PROVE WordState(s, n)
    <3>1. s \in Nat /\ s >= 1
      BY DEF Slaves
    <3>2. ~Filed(s, n) /\ ~Outstanding(s, n)
      BY <2>1, <2>2, <3>1 DEF Filed, Outstanding
    <3>. QED
      BY <2>0, <3>2, FieldPlaces DEF WordState
  <2>3. ASSUME SetUp, NEW s \in Slaves PROVE ~WidthKnown(s)
    BY <2>1, <2>3 DEF WidthKnown, Slaves
  <2>. QED
    BY <2>0, <2>2, <2>3 DEF WordInv, HeaderWords
<1>7. ByteInv
  BY InitIs DEF ByteInv, BytesTrue
<1>8. SameInv
  BY InitIs DEF SameInv, ReadsRight, IdentityRead, SameField
<1>9. ToolInv
  <2>1. call.op = "none" /\ ~ \E s \in Slaves : node[s].busy
    BY InitIs, NoCallIs
  <2>2. /\ prog.stage \in {1, 11, 13, 14}
        /\ prog.step \in {"defaults", "idle", "force"}
    BY InitIs
  <2>. QED
    BY <2>1, <2>2, StageNumbers DEF ToolInv, BusyAwaited, Flashes, Dumps, Aliases
<1>. QED
  BY <1>1, <1>2, <1>3, <1>4, <1>5, <1>6, <1>7, <1>8, <1>9 DEF InfoInv

\* Every step keeps it.
LEMMA InvKept == InfoInv /\ [Next]_vars => InfoInv'
BY ShapeKept, PlaceKept, ReadKept, OwnerKept, CallInvKept, WordInvKept, ByteInvKept, ToolInvKept
   DEF InfoInv

\* The words and the bytes that were read are the slave's own.
LEMMA InvWords == InfoInv => WordsTrue /\ BytesTrue
<1>. SUFFICES ASSUME InfoInv PROVE WordsTrue
  BY DEF InfoInv, ByteInv
<1>. USE DEF InfoInv
<1>1. ASSUME NEW s \in Slaves, NEW f \in Known
      PROVE  Read(s, f) \in {Words(first[s], a) : a \in DOMAIN first[s]} \cup {<<Zero, Zero>>}
  <2>1. \E k \in Kinds : first[s] = Contents[k]
    BY DEF Shape, StoreShape
  <2>2. HeaderAt \subseteq (0 .. 15) \cup (24 .. 29)
    BY FieldPlaces, FieldNames DEF HeaderAt
  <2>3. HeaderAt \subseteq DOMAIN first[s]
    BY <2>1, <2>2, InfoAssumption
  <2>4. Read(s, f) \in HeaderWords(s)
    BY DEF WordInv
  <2>. QED
    BY <2>3, <2>4 DEF HeaderWords, NoWord
<1>2. ASSUME NEW s \in Slaves, NEW f \in Known, prog.stage \in {MAPPING, RUNNING}, s \notin disturbed
      PROVE  Read(s, f) = IF Wanted(s, f) THEN Words(first[s], ECT_SII[f]) ELSE <<Zero, Zero>>
  <2>1. PICK n \in 1 .. 7 : f = Fields[n]
    BY FieldStages
  <2>2. Filed(s, n) /\ SetUp
    BY <1>2, StageNumbers DEF Filed, SetUp
  <2>3. WordState(s, n)
    BY <2>2 DEF WordInv
  <2>. QED
    BY <1>2, <2>1, <2>2, <2>3 DEF WordState, NoWord
<1>. QED
  BY <1>1, <1>2 DEF WordsTrue

\* The firmware has the EEPROM of a slave that has been asked for PRE_OP.
LEMMA InvOwner == InfoInv => PdiInControl
<1>. SUFFICES ASSUME InfoInv, NEW s \in asked, s \notin disturbed
              PROVE  node[s].owner = "pdi" \/ (prog.stage = MAPPING /\ prog.s = s)
  BY DEF PdiInControl
<1>1. s \in Slaves /\ AskedFits(s) /\ FlagTells(s)
  BY DEF InfoInv, Shape, ProgShape, OwnerInv
<1>2. ~(prog.step = "control" /\ prog.s = s)
  BY <1>1 DEF InfoInv, PlaceInv, AskedFits
<1>. QED
  BY <1>1, <1>2 DEF AskedFits, FlagTells

\* The tools have done what they should.
LEMMA InvTools == InfoInv => AliasChecked /\ ImageWritten
<1>. SUFFICES ASSUME InfoInv, prog.s \notin disturbed PROVE AliasChecked /\ ImageWritten
  BY DEF AliasChecked, ImageWritten
<1>1. prog.s \in Slaves
  BY ProgIs DEF InfoInv
<1>2. Flashes(prog.s) /\ Dumps(prog.s) /\ Aliases(prog.s)
  BY <1>1 DEF InfoInv, ToolInv
<1>. QED
  BY <1>2 DEF AliasChecked, ImageWritten, Flashes, Dumps, HasDumped, Aliases

\* The shapes say what the type invariant says.
LEMMA InvType == InfoInv => InfoTypeOK
BY DEF InfoInv, Shape, ProgShape, Position, CallShape, InfoTypeOK

\* A board that has its address is of the kind that it had at the beginning.
LEMMA InvSame == SameInv => RecoveredIsSame
BY StageNumbers DEF SameInv, RecoveredIsSame, Recovered, SameKind, ReadsRight, SameField, SetUp

\* Whatever is lost, refused or leaves: what the master has read of a slave is the slave's own,
\* under the field it stands for, the firmware has the EEPROM when it needs it, the tools
\* write and read what they are told, and a board that comes back gets its old address only if
\* it is of the same kind, where the numbers of the two can tell.
THEOREM EepromsSafe == Spec => []EepromSafe
<1>1. Init => InfoInv /\ SameInv
  BY InitInv
<1>2. InfoInv /\ SameInv /\ [Next]_vars => (InfoInv /\ SameInv)'
  BY InvKept, SameInvKept DEF InfoInv
<1>3. InfoInv /\ SameInv => EepromSafe
  BY InvWords, InvOwner, InvTools, InvType, InvSame DEF EepromSafe
<1>. QED
  BY <1>1, <1>2, <1>3, PTL DEF Spec
=============================================================================
