------------------------------ MODULE SlaveInfo ------------------------------
(***************************************************************************)
(* What the master learns of the slaves from their EEPROMs: ec_config_init *)
(* reads a few words of every slave, one read of all slaves under way at a *)
(* time, then the sections of one slave after the other, and gives the     *)
(* EEPROM to the firmware before it asks for PRE_OP; ec_config_map reads   *)
(* the sizes of the process data there, if the slave has no dictionary;    *)
(* ec_recover_slave compares three words of a board without an address.    *)
(* Instead of all this the eepromtool may write an image into one slave,   *)
(* read its first words or give it an alias, or the sizes of the process   *)
(* data of one board are found out.                                        *)
(***************************************************************************)
EXTENDS Eeprom, PdoMapping, TLC

CONSTANTS
    SiiBytes,  \* the byte addresses of the sections that are looked at
    Image,     \* the words that the tool writes, by address
    Alias

VARIABLES
    prog,      \* the program: stage, slave, step
    first,     \* the EEPROMs as they were at the beginning
    asked,     \* slaves that have been asked for PRE_OP since they were powered up
    address,   \* their station addresses: "none", "own" or "temp"
    ebuf       \* what the tool has read, by address
infoVars == <<prog, first, asked, address, ebuf>>
vars == <<eepromVars, infoVars, mappingVars>>

MAPPING == 9
RUNNING == 10
FLASHING == 11
FLASHED == 12
SIZING == 13
READING == 14
DUMPED == 15
ALIASING == 16
ALIASED == 17

ASSUME InfoAssumption ==
    /\ 1 \in Kinds
    /\ \A k \in Kinds : /\ DOMAIN Contents[k] \subseteq Nat
                        /\ (0 .. 15) \cup (24 .. 29) \cup DOMAIN Image \subseteq DOMAIN Contents[k]
    /\ \E a, b \in DOMAIN Image : DOMAIN Image = a .. b
    /\ SiiBytes \subseteq Nat

ECT_SII == [man |-> 8, id |-> 10, rev |-> 12, sn |-> 14, mbx |-> 24, ro |-> 26, proto |-> 28]

Step(step) == prog' = [prog EXCEPT !.step = step]
FirstStep(stage) == CASE stage = 1 -> "width" [] stage = MAPPING -> "map" [] OTHER -> "collect"
NextSlave ==
    prog' = IF prog.s < SlaveCount THEN [prog EXCEPT !.s = @ + 1, !.step = FirstStep(prog.stage)]
            ELSE [prog EXCEPT !.s = 1, !.stage = @ + 1,
                              !.step = IF prog.stage + 1 = RUNNING THEN "idle"
                                       ELSE FirstStep(prog.stage + 1)]

Init ==
    /\ EepromInit
    /\ prog \in { [stage |-> 1, s |-> 1, step |-> "defaults"],
                  [stage |-> SIZING, s |-> 1, step |-> "idle"] }
             \cup [stage : {FLASHING, READING}, s : Slaves, step : {"force"}]
    /\ IF prog.stage = SIZING THEN MappingInit
       ELSE board = <<>> /\ lost = {} /\ sizes = <<>>
    /\ prog.stage = SIZING => store[SlaveCount] = store[1]
    /\ first = store
    /\ asked = {} /\ address = [s \in Slaves |-> "own"]
    /\ ebuf = [a \in {} |-> Zero]

-----------------------------------------------------------------------------
(* ec_config_init, words.                                                  *)

\* ecx_set_slaves_to_default: broadcasts that take the EEPROMs from the firmware.
SetDefaults ==
    /\ prog.step = "defaults"
    /\ \/ /\ node' = [s \in Slaves |-> IF node[s].present THEN [node[s] EXCEPT !.owner = "master"]
                                        ELSE node[s]]
          /\ UNCHANGED <<faults, disturbed>>
       \/ faults < MaxFaults /\ faults' = faults + 1 /\ disturbed' = Slaves /\ UNCHANGED node
    /\ Step("width")
    /\ UNCHANGED <<store, slavelist, esislave, esibuf, call, first, asked, address, ebuf>>

Read(s, f) == slavelist[s].word[f]

\* A slave without a mailbox (mbx_l = 0) is not asked for the rest of it.
MailboxOnly == {"ro", "proto"}
Wanted(s, f) == f \in MailboxOnly => Read(s, "mbx")[2] # Zero

\* Bit R64 of a status; the variable it is read into is not initialised.
Width ==
    /\ prog.step = "width"
    /\ \E wide \in BOOLEAN :
           /\ \/ Done(prog.s) /\ wide = (prog.s \in EightByte)
              \/ Lost(prog.s) \/ Gone(prog.s)
           /\ slavelist' = [slavelist EXCEPT ![prog.s].eep_8byte = wide]
    /\ Step("issue")
    /\ UNCHANGED <<node, store, esislave, esibuf, call, first, asked, address, ebuf>>

Collect ==
    /\ prog.step = "collect" /\ Idle
    /\ IF Wanted(prog.s, Fields[prog.stage - 1])
       THEN Begin("collect", prog.s, 0, Zero) /\ Step("collecting")
       ELSE UNCHANGED call /\ Step(IF prog.stage = 8 THEN "sii" ELSE "issue")
    /\ UNCHANGED <<node, store, slavelist, esislave, esibuf, faults, disturbed,
                   first, asked, address, ebuf>>

\* Mutant: the words are filed under the field of the read that is still to come.
FieldNow_Next == Fields[IF prog.stage = 8 THEN 1 ELSE prog.stage]
FieldNow == Fields[prog.stage - 1]

Collected ==
    /\ prog.step = "collecting" /\ Idle
    /\ slavelist' = [slavelist EXCEPT ![prog.s].word[FieldNow] = <<call.res[0], call.res[1]>>]
    /\ call' = NoCall
    /\ Step(IF prog.stage = 8 THEN "sii" ELSE "issue")
    /\ UNCHANGED <<node, store, esislave, esibuf, faults, disturbed, first, asked, address, ebuf>>

Issue ==
    /\ prog.step = "issue" /\ Idle
    /\ IF Wanted(prog.s, Fields[prog.stage])
       THEN Begin("issue", prog.s, ECT_SII[Fields[prog.stage]], Zero) /\ Step("issuing")
       ELSE UNCHANGED call /\ NextSlave
    /\ UNCHANGED <<node, store, slavelist, esislave, esibuf, faults, disturbed,
                   first, asked, address, ebuf>>

Issued ==
    /\ prog.step = "issuing" /\ Idle
    /\ call' = NoCall /\ NextSlave
    /\ UNCHANGED <<node, store, slavelist, esislave, esibuf, faults, disturbed,
                   first, asked, address, ebuf>>

-----------------------------------------------------------------------------
(* ec_config_init and ec_config_map, sections.                             *)

Same(i, s) == \A f \in {"man", "id", "rev"} : Read(i, f) = Read(s, f)
Earlier(s) == {i \in 1 .. s - 1 : Same(i, s)}

\* What was read of an earlier slave with the same identity is copied.
LookupSii ==
    /\ prog.step = "sii"
    /\ Step(IF Earlier(prog.s) # {} THEN "pdi" ELSE "bytes")
    /\ UNCHANGED <<eepromVars, first, asked, address, ebuf>>

\* Sizes are known from the dictionary or from an earlier slave with the same identity, or
\* looked for in the SII, also if that slave has none.
LookupMapping ==
    /\ prog.step = "map"
    /\ NextSlave \/ Step("bytes")
    /\ UNCHANGED <<eepromVars, first, asked, address, ebuf>>

\* Bytes are read in whatever order the sections (names, FMMUs, sync managers, PDOs)
\* ask for; all of them, in the end.
ReadByte ==
    /\ prog.step = "bytes"
    /\ \E b \in SiiBytes : ~Cached(prog.s, b) /\ GetByte(prog.s, b)
    /\ UNCHANGED infoVars
ByteRead == prog.step = "bytes" /\ FillCache /\ UNCHANGED infoVars

\* A search for a section, and the reading of the names and of the FMMU section, give
\* the EEPROM back if the firmware had it (eectl), ...
Found ==
    /\ prog.step = "bytes" /\ Idle /\ call.op = "none" /\ prog.stage = MAPPING
    /\ eeprom2pdi(prog.s)
    /\ UNCHANGED <<store, esislave, esibuf, call, infoVars>>

SectionsRead ==
    /\ prog.step = "bytes" /\ Idle /\ call.op = "none"
    /\ \A b \in SiiBytes : Cached(prog.s, b)
    /\ Step("pdi")
    /\ UNCHANGED <<eepromVars, first, asked, address, ebuf>>

\* ... and so does the end of each reading; before PRE_OP it is given in any case.
GivePdi ==
    /\ prog.step = "pdi"
    /\ eeprom2pdi(prog.s)
    /\ IF prog.stage = MAPPING THEN NextSlave ELSE Step("preop")
    /\ UNCHANGED <<store, esislave, esibuf, call, first, asked, address, ebuf>>

AskPreOp ==
    /\ prog.step = "preop"
    /\ asked' = IF node[prog.s].present THEN asked \cup {prog.s} ELSE asked
    /\ IF prog.stage = RUNNING THEN Step("idle") ELSE NextSlave
    /\ UNCHANGED <<eepromVars, first, address, ebuf>>

-----------------------------------------------------------------------------
(* ec_recover_slave and ec_reconfig_slave.                                 *)

\* External: at this position there is a board that has just been powered up.  Bound: the
\* fault comes after the exchanges.
Exchange(s) ==
    /\ prog.stage = RUNNING /\ prog.step = "idle" /\ faults = 0
    /\ \E k \in Kinds : store' = [store EXCEPT ![s] = Contents[k]]
    /\ node' = [node EXCEPT ![s] = PoweredUp]
    /\ asked' = asked \ {s} /\ address' = [address EXCEPT ![s] = "none"]
    /\ UNCHANGED <<slavelist, esislave, esibuf, call, faults, disturbed, prog, first, ebuf>>

Compared == <<"id", "man", "rev">>

\* Only a board without an address is tried; whoever has the temporary one loses it.
RecoverSlave(s) ==
    /\ prog.stage = RUNNING /\ prog.step = "idle"
    /\ node[s].present /\ address[s] = "none"
    /\ LET cleared == [i \in Slaves |-> IF address[i] = "temp" THEN "none" ELSE address[i]]
       IN  \/ /\ Done(s) /\ address' = [cleared EXCEPT ![s] = "temp"]
              /\ prog' = [prog EXCEPT !.s = s, !.step = "control"]
           \/ Lost(s) /\ address' = cleared /\ UNCHANGED prog
    /\ UNCHANGED <<node, store, slavelist, esislave, esibuf, call, first, asked, ebuf>>

TakeEeprom ==
    /\ prog.step = "control"
    /\ eeprom2master(prog.s)
    /\ Begin("word", prog.s, ECT_SII["id"], Zero)
    /\ Step("id")
    /\ UNCHANGED <<store, esislave, esibuf, first, asked, address, ebuf>>

\* Mutant: the revision is not compared.
AfterField_Short(k) == IF k < 2 THEN Compared[k + 1] ELSE "address"
AfterField(k) == IF k < 3 THEN Compared[k + 1] ELSE "address"

CompareWord ==
    \E k \in 1 .. 3 :
        /\ prog.step = Compared[k] /\ Idle
        /\ IF <<call.res[0], call.res[1]>> # Read(prog.s, Compared[k])
           THEN Step("refuse") /\ call' = NoCall
           ELSE /\ Step(AfterField(k))
                /\ IF AfterField(k) = "address" THEN call' = NoCall
                   ELSE Begin("word", prog.s, ECT_SII[AfterField(k)], Zero)
        /\ UNCHANGED <<node, store, slavelist, esislave, esibuf, faults, disturbed,
                       first, asked, address, ebuf>>

\* Its own address, or none if it is another board.  If this is lost it keeps the temporary
\* one, with which it is not tried again.
GiveAddress ==
    /\ prog.step \in {"address", "refuse"}
    /\ \/ /\ Done(prog.s)
          /\ address' = [address EXCEPT ![prog.s] = IF prog.step = "address" THEN "own" ELSE "none"]
       \/ (Lost(prog.s) \/ Gone(prog.s)) /\ UNCHANGED address
    /\ Step("idle")
    /\ UNCHANGED <<node, store, slavelist, esislave, esibuf, call, first, asked, ebuf>>

Reconfigure(s) ==
    /\ prog.stage = RUNNING /\ prog.step = "idle"
    /\ node[s].present /\ address[s] = "own" /\ s \notin asked
    /\ prog' = [prog EXCEPT !.s = s, !.step = "pdi"]
    /\ UNCHANGED <<eepromVars, first, asked, address, ebuf>>

-----------------------------------------------------------------------------
(* eepromtool: eeprom_write, eeprom_read, eeprom_writealias.                *)

\* Both writes of the configuration register, whatever the flag says.
ForceControl ==
    /\ prog.step = "force"
    /\ Give(prog.s, "master")
    /\ Step(CASE prog.stage = FLASHING -> "write" [] prog.stage = READING -> "ainc" [] OTHER -> "alias")
    /\ UNCHANGED <<store, slavelist, esislave, esibuf, call, first, asked, address, ebuf>>

Written == call.op = "write"
NextAddress == IF Written THEN call.a + 1 ELSE CHOOSE a \in DOMAIN Image : \A b \in DOMAIN Image : a <= b

\* The result of a write is not looked at.
WriteWord ==
    /\ prog.step = "write" /\ Idle
    /\ IF NextAddress \in DOMAIN Image
       THEN Begin("write", prog.s, NextAddress, Image[NextAddress]) /\ UNCHANGED prog
       ELSE call' = NoCall /\ prog' = [prog EXCEPT !.stage = FLASHED, !.step = "idle"]
    /\ UNCHANGED <<node, store, slavelist, esislave, esibuf, faults, disturbed,
                   first, asked, address, ebuf>>

\* Words by which the tool goes on: as many as the data register has, as it says.
Ainc ==
    /\ prog.step = "ainc"
    /\ \E wide \in BOOLEAN :
           /\ \/ Done(prog.s) /\ wide = (prog.s \in EightByte)
              \/ (Lost(prog.s) \/ Gone(prog.s)) /\ ~wide
           /\ Step(IF wide THEN "by4" ELSE "by2")
    /\ UNCHANGED <<node, store, slavelist, esislave, esibuf, call, first, asked, address, ebuf>>

\* Mutant: always by four words.
WordsRead_Wide == 4
WordsRead == IF prog.step = "by4" THEN 4 ELSE 2
CRCBUF == 7  \* words
\* With what was read last; the last read may go beyond the words that are asked for.
ReadSoFar ==
    LET got == call.a .. call.a + WordsRead - 1
    IN  IF call.op = "none" THEN ebuf
        ELSE [a \in got \cup DOMAIN ebuf |-> IF a \in got THEN call.res[a - call.a] ELSE ebuf[a]]
ReadImage ==
    /\ prog.step \in {"by2", "by4"} /\ Idle
    /\ LET next == IF call.op = "none" THEN 0 ELSE call.a + WordsRead
       IN  /\ ebuf' = ReadSoFar
           /\ IF next < CRCBUF
              THEN Begin("dump", prog.s, next, Zero) /\ UNCHANGED prog
              ELSE /\ call' = NoCall
                   /\ \/ prog' = [prog EXCEPT !.stage = DUMPED, !.step = "idle"]
                      \/ prog' = [prog EXCEPT !.stage = ALIASING, !.step = "force"]
    /\ UNCHANGED <<node, store, slavelist, esislave, esibuf, faults, disturbed, first, asked, address>>

\* Stands for SIIcrc.
Checksum(words) == <<-1, [k \in 0 .. CRCBUF - 1 |-> words[k]]>>
\* The alias, and if it was written, the checksum of the words that were read with the alias
\* among them.
WriteAlias ==
    /\ prog.step = "alias" /\ Idle
    /\ \/ call.op = "none" /\ Begin("write", prog.s, 4, Alias) /\ UNCHANGED prog
       \/ /\ Written /\ call.a = 4 /\ call.ok
          /\ Begin("write", prog.s, 7, Checksum([ebuf EXCEPT ![4] = Alias])) /\ UNCHANGED prog
       \/ /\ Written /\ (call.a = 7 \/ ~call.ok)
          /\ call' = NoCall /\ prog' = [prog EXCEPT !.stage = ALIASED, !.step = "idle"]
    /\ UNCHANGED <<node, store, slavelist, esislave, esibuf, faults, disturbed,
                   first, asked, address, ebuf>>

-----------------------------------------------------------------------------
Master ==
    \/ CallStep /\ UNCHANGED infoVars
    \/ SetDefaults \/ Width \/ Collect \/ Collected \/ Issue \/ Issued
    \/ LookupSii \/ LookupMapping \/ ReadByte \/ ByteRead \/ Found \/ SectionsRead
    \/ GivePdi \/ AskPreOp
    \/ \E s \in Slaves : RecoverSlave(s) \/ Reconfigure(s)
    \/ TakeEeprom \/ CompareWord \/ GiveAddress
    \/ ForceControl \/ WriteWord \/ Ainc \/ ReadImage \/ WriteAlias

Sizing == prog.stage = SIZING /\ FindSizes /\ UNCHANGED <<eepromVars, infoVars>>

Next ==
    \/ Master /\ UNCHANGED mappingVars
    \/ \E s \in Slaves : prog.stage # SIZING /\ (Finish(s) \/ Leave(s)) /\ UNCHANGED <<infoVars, mappingVars>>
    \/ \E s \in Slaves : Exchange(s) /\ UNCHANGED mappingVars
    \/ Sizing

\* The thread is scheduled and a command is done some time, or refused.
Spec == Init /\ [][Next]_vars /\ WF_vars(CallStep /\ UNCHANGED <<infoVars, mappingVars>>)
             /\ \A s \in Slaves : WF_vars(Finish(s) /\ UNCHANGED <<infoVars, mappingVars>>)

-----------------------------------------------------------------------------
Known == {Fields[k] : k \in DOMAIN Fields}
Words(content, a) == <<Window(content, a)[0], Window(content, a)[1]>>
Byte(content, b) == <<Window(content, b \div 2)[0], b % 2>>

InfoTypeOK ==
    /\ prog.stage \in 1 .. ALIASED /\ prog.s \in Slaves
    /\ address \in [Slaves -> {"own", "temp", "none"}]
    /\ asked \subseteq Slaves /\ disturbed \subseteq Slaves
    /\ call.nacks \in 0 .. MaxNacks /\ esislave \in 0 .. SlaveCount /\ faults \in 0 .. MaxFaults

\* The words of ec_config_init are the slave's own, of the field they are filed under, or,
\* if a call of this slave failed, of another field or 0, never those of another slave.
WordsTrue ==
    \A s \in Slaves, f \in Known :
        /\ Read(s, f) \in {Words(first[s], a) : a \in DOMAIN first[s]} \cup {<<Zero, Zero>>}
        /\ prog.stage \in {MAPPING, RUNNING} /\ s \notin disturbed =>
               Read(s, f) = IF Wanted(s, f) THEN Words(first[s], ECT_SII[f]) ELSE <<Zero, Zero>>

\* The same holds for the bytes of the cache.
BytesTrue ==
    \A b \in DOMAIN esibuf :
        \/ esibuf[b] = Byte(first[esislave], b)
        \/ /\ esislave \in disturbed
           /\ \/ esibuf[b][1] = Zero
              \/ \E a \in DOMAIN first[esislave] : esibuf[b][1] = first[esislave][a]

\* A slave that has been asked for PRE_OP has control of its EEPROM, except while it is
\* read for the mapping.
PdiInControl ==
    \A s \in asked \ disturbed :
        node[s].owner = "pdi" \/ (prog.stage = MAPPING /\ prog.s = s)

Identity == {"man", "id", "rev"}
IdentityRead(s) == \A f \in Identity : Read(s, f) = Words(first[s], ECT_SII[f])
\* The numbers by which a lost board is known tell it from the one that is there now.  A read
\* that fails returns 0, and a command that is lost leaves the words of the one before in the
\* controller: none of the numbers is 0, or another number of that board.
ToldApart(s) ==
    \A f \in Identity :
        /\ Read(s, f) # <<Zero, Zero>>
        /\ \A g \in Identity : Words(store[s], ECT_SII[g]) = Read(s, f) => g = f

Recovered(s) == prog.stage = RUNNING /\ address[s] = "own" /\ node[s].present
SameKind(s) == \A f \in Identity : Read(s, f) = Words(store[s], ECT_SII[f])

\* A board gets the address of a lost one only if it is of the same kind, whatever is lost
\* while it is asked, if the numbers it is compared with are right and tell the two.
RecoveredIsSame ==
    \A s \in Slaves : Recovered(s) /\ IdentityRead(s) /\ ToldApart(s) => SameKind(s)

\* ethercatconfig.c:1583: "check if slave is the same as configured before".  So it is for
\* boards that ToldApart is about; a revision of 0 is also what a read that fails returns.
RecoveredAsConfigured == \A s \in Slaves : Recovered(s) /\ IdentityRead(s) => SameKind(s)

\* The tool writes the whole image, if it ends and no exchange failed.
ImageWritten ==
    prog.stage = FLASHED /\ prog.s \notin disturbed =>
        \A a \in DOMAIN Image : store[prog.s][a] = Image[a]

\* It reads what is there, and after it has given the slave an alias, the checksum is again
\* that of the first words, if no exchange failed.
AliasChecked ==
    prog.s \notin disturbed =>
        /\ prog.stage \in {DUMPED, ALIASING} => \A a \in 0 .. CRCBUF - 1 : ebuf[a] = first[prog.s][a]
        /\ prog.stage = ALIASED =>
              store[prog.s][4] = Alias /\ store[prog.s][7] = Checksum(store[prog.s])

EepromSafe == AliasChecked /\ InfoTypeOK /\ WordsTrue /\ BytesTrue /\ PdiInControl /\ RecoveredIsSame /\ ImageWritten

\* Every call ends, unless the slave leaves: then one that was refused before is repeated
\* without end, because only an answer counts.
FetchEnds == ~Idle ~> (Idle \/ ~node[call.s].present)
=============================================================================
