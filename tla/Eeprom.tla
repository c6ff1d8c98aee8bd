-------------------------------- MODULE Eeprom --------------------------------
(***************************************************************************)
(* The EEPROMs of the slaves, and the calls with which SOEM reads and      *)
(* writes them through registers of the slave controllers: a word address  *)
(* and a command are written, the controller works, and up to four words   *)
(* stand in its data register until the next command is done.              *)
(*                                                                         *)
(* The controller is external: it is busy for as long as it likes, it may  *)
(* refuse a command or several in a row (NACK), it ignores commands while  *)
(* it is busy or while the EEPROM belongs to the firmware (PDI).           *)
(*                                                                         *)
(* An exchange stands for all attempts at one datagram.  If all are lost,  *)
(* the code's working counter is -1, which it takes for a success where it *)
(* tests "if (wkc)", and the status it waits for is 0, neither busy nor an *)
(* error; a slave that has left answers with a working counter of 0.       *)
(***************************************************************************)
EXTENDS Integers, Sequences, FiniteSets

CONSTANTS
    SlaveCount,
    Contents,    \* external: for each kind of board, the words of its EEPROM by address
    EightByte,   \* external: slaves whose data register has four words, not two
    MaxNacks,    \* how often a command is repeated that is refused (3)
    MaxFaults    \* bound: lost exchanges, time-outs, rows of refusals, slaves that leave

Slaves == 1 .. SlaveCount
Kinds == DOMAIN Contents

ASSUME EepromAssumption ==
    SlaveCount \in Nat \ {0} /\ EightByte \subseteq Slaves
    /\ MaxNacks \in Nat \ {0} /\ MaxFaults \in Nat

Zero == <<0, 0>>
NoData == [k \in 0 .. 3 |-> Zero]

VARIABLES
    node,       \* the controllers of the slaves
    store,      \* what is in their EEPROMs
    slavelist,  \* ec_slave[]: who controls the EEPROM, and the words that were read
    esislave, esibuf,  \* the cache of bytes and the slave whose they are
    call,       \* the call under way
    faults,
    disturbed   \* slaves of which a call did not get what it asked for
eepromVars == <<node, store, slavelist, esislave, esibuf, call, faults, disturbed>>

Fields == <<"man", "sn", "id", "rev", "mbx", "ro", "proto">>
NoCall == [op |-> "none", s |-> 1, a |-> 0, value |-> Zero, pc |-> "done", nacks |-> 0,
           r64 |-> FALSE, res |-> NoData, ok |-> FALSE]

\* A controller after power-on; the master owns the EEPROM.
PoweredUp == [present |-> TRUE, owner |-> "master", busy |-> FALSE, comm |-> "read", at |-> 0,
              nack |-> FALSE, refuses |-> FALSE, reg |-> NoData]

\* The slaves have run before.  ecx_init_context: the list is cleared, and the cache by asking
\* for a byte it cannot hold.
EepromInit ==
    /\ store \in {[s \in Slaves |-> Contents[IF s = SlaveCount THEN k ELSE 1]] : k \in Kinds}
    /\ node = [s \in Slaves |-> [PoweredUp EXCEPT !.owner = "pdi"]]
    /\ slavelist = [s \in Slaves |->
           [eep_pdi |-> FALSE, eep_8byte |-> FALSE,
            word |-> [f \in {Fields[k] : k \in DOMAIN Fields} |-> <<Zero, Zero>>]]]
    /\ esislave = 0 /\ esibuf = <<>>
    /\ call = NoCall
    /\ faults = 0 /\ disturbed = {}

-----------------------------------------------------------------------------
(* External: the controllers.                                              *)

\* The words of an EEPROM from an address on.
Window(content, a) ==
    [k \in 0 .. 3 |-> IF a + k \in DOMAIN content THEN content[a + k] ELSE Zero]

Execute(s) ==
    /\ node[s].present /\ node[s].busy /\ ~node[s].refuses
    /\ IF node[s].comm = "read"
       THEN /\ node' = [node EXCEPT ![s].busy = FALSE, ![s].reg = Window(store[s], node[s].at)]
            /\ UNCHANGED store
       ELSE /\ store' = [store EXCEPT ![s][node[s].at] = node[s].reg[0]]
            /\ node' = [node EXCEPT ![s].busy = FALSE]
    /\ UNCHANGED <<slavelist, esislave, esibuf, call, faults, disturbed>>

Refuse(s) ==
    /\ node[s].present /\ node[s].busy
    /\ faults' = IF node[s].refuses THEN faults ELSE faults + 1
    /\ faults' <= MaxFaults
    /\ \E again \in BOOLEAN :
           node' = [node EXCEPT ![s].busy = FALSE, ![s].nack = TRUE, ![s].refuses = again]
    /\ UNCHANGED <<store, slavelist, esislave, esibuf, call, disturbed>>

Finish(s) == Execute(s) \/ Refuse(s)

Leave(s) ==
    /\ node[s].present /\ faults < MaxFaults
    /\ node' = [node EXCEPT ![s].present = FALSE]
    /\ faults' = faults + 1 /\ disturbed' = disturbed \cup {s}
    /\ UNCHANGED <<store, slavelist, esislave, esibuf, call>>

\* What becomes of an exchange with a slave.
Done(s) == node[s].present /\ UNCHANGED <<faults, disturbed>>
Lost(s) ==
    /\ node[s].present /\ faults < MaxFaults
    /\ faults' = faults + 1 /\ disturbed' = disturbed \cup {s}
Gone(s) == ~node[s].present /\ UNCHANGED <<faults, disturbed>>

-----------------------------------------------------------------------------
(* The calls.                                                              *)

Give(s, owner) ==
    \/ Done(s) /\ node' = [node EXCEPT ![s].owner = owner]
    \/ (Lost(s) \/ Gone(s)) /\ UNCHANGED node

\* ecx_eeprom2master, ecx_eeprom2pdi: only if the flag says that it is necessary.
eeprom2master(s) ==
    IF slavelist[s].eep_pdi
    THEN Give(s, "master") /\ slavelist' = [slavelist EXCEPT ![s].eep_pdi = FALSE]
    ELSE UNCHANGED <<node, slavelist, faults, disturbed>>
\* Mutant: whoever has the EEPROM keeps it.
eeprom2pdiNot(s) ==
    slavelist' = [slavelist EXCEPT ![s].eep_pdi = TRUE] /\ UNCHANGED <<node, faults, disturbed>>
eeprom2pdi(s) ==
    IF ~slavelist[s].eep_pdi
    THEN Give(s, "pdi") /\ slavelist' = [slavelist EXCEPT ![s].eep_pdi = TRUE]
    ELSE UNCHANGED <<node, slavelist, faults, disturbed>>

\* ecx_readeeprom1 (issue), ecx_readeeprom2 (collect), ecx_readeeprom (word), a byte that is
\* not in the cache (byte); the tool writes a word (write) or reads some (dump).
Begin(op, s, a, value) ==
    call' = [NoCall EXCEPT !.op = op, !.s = s, !.a = a, !.value = value,
                           !.pc = IF op \in {"collect", "write", "dump"} THEN "wait" ELSE "control"]

Control ==
    /\ call.pc = "control" /\ eeprom2master(call.s)
    /\ call' = [call EXCEPT !.pc = "wait"]
    /\ UNCHANGED <<store, esislave, esibuf>>

\* ecx_eeprom_waitnotbusy: the status it ends with.  A lost one is 0.
Status(s) ==
    IF ~node[s].present THEN {"silent"}
    ELSE (IF node[s].busy THEN {} ELSE {IF node[s].nack THEN "nack" ELSE "idle"})
         \cup (IF faults = MaxFaults THEN {}
               ELSE {"silent"} \cup (IF node[s].busy THEN {"busy"} ELSE {}))

\* A wait that ends with this status; spoilt says that the call will not get its word.
Waited(s, status, spoilt) ==
    /\ status \in Status(s)
    /\ faults' = IF status \in {"silent", "busy"} /\ node[s].present THEN faults + 1 ELSE faults
    /\ disturbed' = IF spoilt \/ status \in {"silent", "busy"} THEN disturbed \cup {s} ELSE disturbed

\* Before the command.  Error bits are cleared (by the command that follows, too);
\* ecx_readeeprom2 does not look at them.
Wait ==
    /\ call.pc = "wait"
    /\ \E status \in {"silent", "idle", "nack", "busy"} :
           /\ Waited(call.s, status, call.op = "collect" /\ status = "nack")
           /\ call' = [call EXCEPT !.pc =
                  CASE status = "busy" -> "done"
                    [] status # "busy" /\ call.op = "collect" -> "data"
                    [] status # "busy" /\ call.op = "write" -> "value"
                    [] OTHER -> "command"]
    /\ UNCHANGED <<node, store, slavelist, esislave, esibuf>>

\* The word to be written; whether it arrives is not looked at.
Value ==
    /\ call.pc = "value"
    /\ \/ Done(call.s) /\ node' = [node EXCEPT ![call.s].reg[0] = call.value]
       \/ (Lost(call.s) \/ Gone(call.s)) /\ UNCHANGED node
    /\ call' = [call EXCEPT !.pc = "command"]
    /\ UNCHANGED <<store, slavelist, esislave, esibuf>>

Commanded(n) ==
    IF n.owner = "master" /\ ~n.busy
    THEN [n EXCEPT !.busy = TRUE, !.nack = FALSE, !.at = call.a,
                   !.comm = IF call.op = "write" THEN "write" ELSE "read"]
    ELSE n

\* do ... while ((nackcnt > 0) && (nackcnt < 3))
Again(nacks) ==
    IF nacks \in 1 .. MaxNacks - 1 THEN (IF call.op = "write" THEN "value" ELSE "command")
                                   ELSE "done"

Command ==
    /\ call.pc = "command"
    /\ \/ /\ \/ Done(call.s) /\ node' = [node EXCEPT ![call.s] = Commanded(@)]
             \/ Lost(call.s) /\ node' \in {node, [node EXCEPT ![call.s] = Commanded(@)]}
          /\ call' = [call EXCEPT !.pc = IF call.op = "issue" THEN "done" ELSE "await"]
       \/ /\ Gone(call.s) /\ UNCHANGED node
          /\ call' = [call EXCEPT !.pc = IF call.op = "issue" THEN "done" ELSE Again(call.nacks)]
    /\ UNCHANGED <<store, slavelist, esislave, esibuf>>

\* Mutant: a command that was refused is taken for done.
Refused_Never(status) == FALSE
Refused(status) == status = "nack"

\* Mutant: the refusals are not counted.
CountStuck(status) == IF Refused(status) THEN 1 ELSE IF status = "busy" THEN call.nacks ELSE 0
Count(status) == IF Refused(status) THEN call.nacks + 1 ELSE IF status = "busy" THEN call.nacks ELSE 0

Await ==
    /\ call.pc = "await"
    /\ \E status \in {"silent", "idle", "nack", "busy"} :
       LET nacks == Count(status)
       IN  /\ Waited(call.s, status, status = "nack" /\ nacks = MaxNacks)
           /\ call' = [call EXCEPT !.nacks = nacks,
                  !.r64 = call.s \in EightByte /\ status # "silent",
                  !.ok = call.op = "write" /\ ~Refused(status) /\ status # "busy",
                  !.pc = IF Refused(status) \/ status = "busy" THEN Again(nacks)
                         ELSE IF call.op = "write" THEN "done" ELSE "data"]
    /\ UNCHANGED <<node, store, slavelist, esislave, esibuf>>

\* The data register; ecx_readeeprom2 reads two words of it in any case.
Data ==
    /\ call.pc = "data"
    /\ \/ /\ Done(call.s)
          /\ call' = [call EXCEPT !.pc = "done", !.res =
                 [k \in 0 .. 3 |-> IF k < 2 \/ call.r64 THEN node[call.s].reg[k] ELSE Zero]]
       \/ /\ Lost(call.s) \/ Gone(call.s)
          /\ call' = [call EXCEPT !.pc = "done"]
    /\ UNCHANGED <<node, store, slavelist, esislave, esibuf>>

CallStep == Control \/ Wait \/ Value \/ Command \/ Await \/ Data
Idle == call.pc = "done"

-----------------------------------------------------------------------------
(* ecx_siigetbyte: one byte through the cache.                             *)

Cached(s, b) == esislave = s /\ b \in DOMAIN esibuf

\* Mutant: the cache is kept when another slave is asked.
FreshCacheKept(s) == esibuf
FreshCache(s) == IF s = esislave THEN esibuf ELSE <<>>

GetByte(s, b) ==
    /\ Idle
    /\ esislave' = s /\ esibuf' = FreshCache(s)
    /\ IF Cached(s, b) THEN UNCHANGED call ELSE Begin("byte", s, b \div 2, Zero)
    /\ UNCHANGED <<node, store, slavelist, faults, disturbed>>

\* The answer fills the cache from the even address on, with 4 or with 8 bytes.
Filled ==
    LET first == 2 * call.a
        got == first .. first + (IF slavelist[call.s].eep_8byte THEN 7 ELSE 3)
    IN  [b \in got \cup DOMAIN esibuf |->
            IF b \in got THEN <<call.res[(b - first) \div 2], b % 2>> ELSE esibuf[b]]

FillCache ==
    /\ Idle /\ call.op = "byte"
    /\ esibuf' = Filled /\ call' = NoCall
    /\ UNCHANGED <<node, store, slavelist, esislave, faults, disturbed>>
=============================================================================
