------------------------------ MODULE PdoMapping ------------------------------
(***************************************************************************)
(* How SOEM finds out the sizes of a slave's process data: from its object *)
(* dictionary, with one read for each object (complete access) or for each *)
(* subindex; from the telegrams of its drives (SoE); or else from the      *)
(* sections of its EEPROM.  Any read may fail, and the code then goes on   *)
(* with 0, which is what its buffer holds.  None of this is asked of a     *)
(* board in the configuration table, if that is used.                      *)
(*                                                                         *)
(* A board, external, is [coe, dict, drives, sii, entry]: whether its      *)
(* mailbox knows CoE; its objects, index -> values of the subindexes from  *)
(* 1 on; for each drive the attributes of what its telegrams carry, as     *)
(* [list, length] by direction, none without SoE; the sections of its      *)
(* EEPROM, in their order, as [cat, data]; and its entry in the table,     *)
(* <<>> or [Ibits, Obits, SM2a, SM3a].  The general section                *)
(* tells whether complete access is possible, the one of the sync managers *)
(* their lengths, and the two of PDOs are sequences of [sm, bits].  No     *)
(* section is empty.                                                       *)
(***************************************************************************)
EXTENDS Integers, Sequences, FiniteSetsExt

CONSTANT Boards

VARIABLES
    board, lost,  \* the board, and the objects and subindexes that cannot be read
    sizes         \* what was found
mappingVars == <<board, lost, sizes>>

GENERAL == 30
SM == 41
PDO == 50
SMCOMMTYPE == 7168  \* 0x1C00
PDOASSIGN == 7184   \* 0x1C10
ALL == 256
EC_MAXSM == 8
SyncManagers == 0 .. EC_MAXSM - 1
Dirs == {"out", "in"}
SMtype == [out |-> 3, in |-> 4]

SumSeq(q) == MapThenSumSet(LAMBDA k : q[k], DOMAIN q)
SumOver(S, f(_)) == MapThenSumSet(f, S)
BytesOf(bits) == (bits + 7) \div 8

-----------------------------------------------------------------------------
(* The dictionary.  ALL as a subindex stands for complete access.          *)

SubValue(index, sub) ==
    IF <<index, sub>> \in lost \/ index \notin DOMAIN board.dict THEN 0
    ELSE IF sub = 0 THEN Len(board.dict[index])
    ELSE IF sub \in DOMAIN board.dict[index] THEN board.dict[index][sub] ELSE 0

\* Mutant: the subindexes are read from 0 on.
SingleFromZero(index) == [sub \in 1 .. SubValue(index, 0) |-> SubValue(index, sub - 1)]
Single(index) == [sub \in 1 .. SubValue(index, 0) |-> SubValue(index, sub)]
Complete(index) ==
    IF <<index, ALL>> \in lost \/ index \notin DOMAIN board.dict THEN <<>> ELSE board.dict[index]
Object(index, ca) == IF ca THEN Complete(index) ELSE Single(index)

\* The bits of a PDO, and of all that are assigned to a sync manager.
PdoBits(index, ca) == SumSeq(Object(index, ca))
Assigned(sm, ca) ==
    LET pdos == Object(PDOASSIGN + sm, ca)
    IN  SumOver({k \in DOMAIN pdos : pdos[k] > 0}, LAMBDA k : PdoBits(pdos[k], ca))

\* The types of the sync managers.  Slaves that count them from 0 are corrected; a missing
\* type of the first two for process data is guessed if it was read alone.  A type that
\* could not be read alone is passed over.
Skipped == 9
FixedType(sm, types, ca) ==
    LET raw(i) == types[i + 1]
        add == IF raw(2) = 2 THEN 1 ELSE 0
    IN  IF ~ca /\ <<SMCOMMTYPE, sm + 1>> \in lost THEN Skipped
        ELSE IF raw(sm) > 0 THEN raw(sm) + add
        ELSE IF ~ca /\ sm \in {2, 3} THEN sm + 1 ELSE 0

NoSizes == [dir \in Dirs |-> [sm \in {} |-> 0]]
Mapped(dir, bits) == SumOver(DOMAIN bits[dir], LAMBDA sm : bits[dir][sm])
None(bits) == \A dir \in Dirs : Mapped(dir, bits) = 0

\* ecx_readPDOmap, ecx_readPDOmapCA: the bits of each sync manager, by direction.
ReadPDOmap(ca) ==
    LET types == Object(SMCOMMTYPE, ca)
        n == Min({Len(types), EC_MAXSM})
        used(dir) == {sm \in 2 .. n - 1 : FixedType(sm, types, ca) = SMtype[dir] /\ Assigned(sm, ca) > 0}
    IN  [dir \in Dirs |-> [sm \in used(dir) |-> Assigned(sm, ca)]]

-----------------------------------------------------------------------------
(* The sections of the EEPROM.                                             *)

\* ecx_siifind: the first section of a category.
Sections(cat) == {k \in DOMAIN board.sii : board.sii[k].cat = cat}
Section(cat) == IF Sections(cat) = {} THEN <<>> ELSE board.sii[Min(Sections(cat))].data

\* ecx_siiPDO: what the PDOs of a direction add up to; one without a sync manager is not used.
SiiPDO(cat) ==
    LET pdos == Section(cat)
        of(sm) == {k \in DOMAIN pdos : pdos[k].sm = sm}
        bits(sm) == SumOver(of(sm), LAMBDA k : SumSeq(pdos[k].bits))
    IN  [sm \in {i \in SyncManagers : bits(i) > 0} |-> bits(sm)]

-----------------------------------------------------------------------------
(* The drives.                                                             *)

EC_SOE_MAX_DRIVES == 8
HasSoe == board.drives # <<>>
\* The reads of a telegram, as objects of their own: subindex 0 is the list of what it
\* carries, the others are the attributes.
Telegram(drive, dir) == 0 - 2 * drive - IF dir = "out" THEN 0 ELSE 1

\* Mutant: the word that is not in the list is forgotten.
TelegramBitsListed(drive, dir) ==
    LET entries == board.drives[drive][dir]
        read == {k \in DOMAIN entries : <<Telegram(drive, dir), k>> \notin lost /\ ~entries[k].list}
    IN  IF <<Telegram(drive, dir), 0>> \in lost \/ entries = <<>> THEN 0
        ELSE SumOver(read, LAMBDA k : 8 * 2 ^ entries[k].length)
\* A command or status word, which is not in the list, and what is.
TelegramBits(drive, dir) ==
    LET entries == board.drives[drive][dir]
        read == {k \in DOMAIN entries : <<Telegram(drive, dir), k>> \notin lost /\ ~entries[k].list}
    IN  IF <<Telegram(drive, dir), 0>> \in lost \/ entries = <<>> THEN 0
        ELSE 16 + SumOver(read, LAMBDA k : 8 * 2 ^ entries[k].length)

\* ecx_readIDNmap, for sync managers 2 and 3.
ReadIDNmap ==
    LET bits(dir) == SumOver(DOMAIN board.drives \cap (1 .. EC_SOE_MAX_DRIVES),
                             LAMBDA drive : TelegramBits(drive, dir))
    IN  [dir \in Dirs |-> [sm \in {i \in {2, 3} : i = SMtype[dir] - 1 /\ bits(dir) > 0} |-> bits(dir)]]

-----------------------------------------------------------------------------
(* The configuration table.                                                *)

InTable == board.entry # <<>>
\* ecx_config_from_table: without an address of sync manager 2 (or 3), outputs (inputs) are
\* those of a board without a mailbox, in sync manager 0 (or 1).
TableSM(dir) ==
    IF dir = "out" THEN (IF board.entry.Obits > 0 /\ board.entry.SM2a = 0 THEN 0 ELSE 2)
    ELSE (IF board.entry.Ibits > 0 /\ board.entry.SM3a = 0 THEN 1 ELSE 3)
ConfigFromTable ==
    LET bits == [out |-> board.entry.Obits, in |-> board.entry.Ibits]
    IN  [dir \in Dirs |-> [sm \in {i \in {TableSM(dir)} : bits[dir] > 0} |-> bits[dir]]]

-----------------------------------------------------------------------------
\* The lengths in the section of the sync managers.
SiiLength(sm) == IF sm + 1 \in DOMAIN Section(SM) THEN Section(SM)[sm + 1] ELSE 0

HasCA == Section(GENERAL) = <<"SDOCA">>

-----------------------------------------------------------------------------
\* Complete access first, if there is any.
MapCoe ==
    IF ~board.coe THEN NoSizes
    ELSE IF HasCA /\ ~None(ReadPDOmap(TRUE)) THEN ReadPDOmap(TRUE)
    ELSE ReadPDOmap(FALSE)
\* ecx_map_coe_soe, for a board that is not in the table.
AsksDrives == ~InTable /\ None(MapCoe) /\ HasSoe
MapCoeSoe ==
    IF InTable THEN ConfigFromTable ELSE IF AsksDrives THEN ReadIDNmap ELSE MapCoe

\* ecx_map_sii, for a slave that is not the same as an earlier one.
MapSii(bits) == IF None(bits) THEN [in |-> SiiPDO(PDO), out |-> SiiPDO(PDO + 1)] ELSE bits

\* What the sync managers are programmed with (ecx_map_sm); outputs that share one with
\* inputs come last.  Of a board with drives, 2 and 3 are set in any case, and of one in
\* the table those it does not use for lack of a mailbox are left alone.
Length(bits, sm) ==
    IF sm \in DOMAIN bits.out THEN BytesOf(bits.out[sm])
    ELSE IF sm \in DOMAIN bits.in THEN BytesOf(bits.in[sm])
    ELSE IF InTable \/ (AsksDrives /\ sm \in {2, 3}) THEN 0
    ELSE SiiLength(sm)

\* Those that may carry process data.
DataManagers == (2 .. EC_MAXSM - 1) \cup (IF InTable THEN {TableSM(dir) : dir \in Dirs} ELSE {})

FindSizes ==
    /\ sizes = <<>>
    /\ LET bits == MapSii(MapCoeSoe)
       IN  sizes' = [Obits |-> Mapped("out", bits), Ibits |-> Mapped("in", bits),
                     length |-> [sm \in DataManagers |-> Length(bits, sm)]]
    /\ UNCHANGED <<board, lost>>

Reads(b) ==
    UNION { {<<index, ALL>>} \cup {<<index, sub>> : sub \in 0 .. Len(b.dict[index])} :
            index \in DOMAIN b.dict }
    \cup UNION { {<<Telegram(d, dir), k>> : k \in 0 .. Len(b.drives[d][dir])} :
                 d \in DOMAIN b.drives, dir \in Dirs }

\* Bound: two reads fail.
MappingInit ==
    /\ board \in Boards
    /\ lost \in {{}} \cup {{r, q} : r, q \in Reads(board)}
    /\ sizes = <<>>

-----------------------------------------------------------------------------
\* What a board without the errors that are corrected says of a sync manager: the bits of
\* all entries of all PDOs that are assigned to it.
Types == IF SMCOMMTYPE \in DOMAIN board.dict THEN board.dict[SMCOMMTYPE] ELSE <<>>
Correct == Len(Types) > 2 => Types[3] # 2 /\ \A sm \in 2 .. Len(Types) - 1 : Types[sm + 1] \in {3, 4}
TrueEntries(sm) ==
    LET pdos == board.dict[PDOASSIGN + sm]
    IN  {x \in (DOMAIN pdos) \X (1 .. 4) :
            pdos[x[1]] > 0 /\ x[2] \in DOMAIN board.dict[pdos[x[1]]]}
TrueBits(sm) ==
    SumOver(TrueEntries(sm), LAMBDA x : board.dict[board.dict[PDOASSIGN + sm][x[1]]][x[2]])
TrueSize(dir) ==
    SumOver({sm \in 2 .. Len(Types) - 1 : Types[sm + 1] = SMtype[dir]}, TrueBits)
SiiSize(dir) ==
    LET bits == SiiPDO(IF dir = "in" THEN PDO ELSE PDO + 1) IN SumOver(DOMAIN bits, LAMBDA sm : bits[sm])

\* The bytes that the telegrams of the drives carry, with a word each, if they carry anything.
Widths == <<8, 16, 32, 64>>
TrueTelegrams(dir) ==
    LET carrying == {d \in DOMAIN board.drives : board.drives[d][dir] # <<>>}
        items == {x \in carrying \X (1 .. 4) : x[2] \in DOMAIN board.drives[x[1]][dir]}
        attribute(x) == board.drives[x[1]][dir][x[2]]
    IN  16 * Cardinality(carrying)
        + SumOver({x \in items : ~attribute(x).list}, LAMBDA x : Widths[attribute(x).length + 1])

\* A board that says in its dictionary what its sync managers carry gets just these sizes, and
\* sync managers as long as their data, with and without complete access, if no read fails.
\* So does one with drives.  A failed read makes the data shorter, or the next source is asked;
\* it adds nothing.
DictionaryRead ==
    LET found == TrueSize("out") + TrueSize("in") > 0
    IN  /\ lost = {} /\ found =>
              /\ sizes.Obits = TrueSize("out") /\ sizes.Ibits = TrueSize("in")
              /\ \A sm \in 2 .. Len(Types) - 1 :
                    TrueBits(sm) > 0 => sizes.length[sm] = BytesOf(TrueBits(sm))
        /\ sizes.Obits <= Max({TrueSize("out"), TrueTelegrams("out"), SiiSize("out")})
        /\ sizes.Ibits <= Max({TrueSize("in"), TrueTelegrams("in"), SiiSize("in")})
DrivesRead ==
    lost = {} /\ TrueTelegrams("out") + TrueTelegrams("in") > 0 =>
        /\ sizes.Obits = TrueTelegrams("out") /\ sizes.Ibits = TrueTelegrams("in")
        /\ sizes.length[2] = BytesOf(sizes.Obits) /\ sizes.length[3] = BytesOf(sizes.Ibits)
\* Whatever is asked, a board in the table gets what the table says, each direction in a
\* sync manager of its own that is as long.
TableUsed ==
    /\ sizes.Obits = board.entry.Obits /\ sizes.Ibits = board.entry.Ibits
    /\ \A dir \in Dirs : LET bits == IF dir = "out" THEN sizes.Obits ELSE sizes.Ibits
                         IN  bits > 0 => sizes.length[TableSM(dir)] = BytesOf(bits)
SizesTrue ==
    sizes # <<>> =>
        IF InTable THEN board.entry.Obits + board.entry.Ibits > 0 => TableUsed
        ELSE (board.coe /\ Correct => DictionaryRead) /\ (~board.coe => DrivesRead)
=============================================================================
