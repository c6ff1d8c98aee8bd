--------------------------------- MODULE IoMap ---------------------------------
(***************************************************************************)
(* The process image of SOEM (ecx_config_map_group): how long the data of  *)
(* each slave is, where it lies in the logical address space that the      *)
(* FMMUs of the slaves map, in which segments the image is sent, and which *)
(* working counter a complete exchange gives.  The outputs of all slaves   *)
(* come first, then their inputs; in an overlapped image                   *)
(* (ecx_config_overlap_map_group) both of a slave begin at one address.    *)
(*                                                                         *)
(* The data of a slave in one direction is [bits, areas]: its length in    *)
(* bits and the lengths in bytes of the areas of memory it lies in; sync   *)
(* managers whose addresses connect are one area.                          *)
(***************************************************************************)
EXTENDS Topology

CONSTANTS
    Overlapped,         \* the buses that are mapped in this way, too
    Types,              \* type -> [id, out, in, blockLRW]; id is <<eep_man, eep_id, eep_rev>>
    EC_MAXLRWDATA,      \* most bytes in a datagram, and
    EC_FIRSTDCDATAGRAM  \* the bytes that the clock datagram takes in the first frame

\* SII data is constant for the same slave ID.
SameId(r, s) == Types[r].id = Types[s].id
ASSUME IoMapAssumption ==
    /\ EC_MAXLRWDATA \in Nat /\ EC_FIRSTDCDATAGRAM \in 0 .. EC_MAXLRWDATA - 1
    /\ \A r, s \in DOMAIN Types : SameId(r, s) => Types[r] = Types[s]

VARIABLES
    overlap,     \* which of the two images is made
    data,        \* slave -> [out, in]: Obits and Ibits with the areas, as found
    fmmus,       \* slave -> direction -> its FMMUs
    logAddr, bitPos,
    segments,    \* IOsegment, without the segment being filled:
    segmentsize,
    wkcs,        \* [out |-> outputsWKC, in |-> inputsWKC]
    group,       \* Obytes, Ibytes, Isegment, Ioffset
    mapping,     \* "coe", "sii", then "out" and "in" or "overlap", "done"
    mapped       \* number of slaves that the loop of this phase is through with
ioMapVars == <<overlap, data, fmmus, logAddr, bitPos, segments, segmentsize, wkcs, group, mapping, mapped>>

NoData == [bits |-> 0, areas |-> <<>>]
TypeOf(i) == Types[bus[i].type]
Bytes(bits) == IF bits > 7 THEN (bits + 7) \div 8 ELSE 0

Directions == {"out", "in"}
IoMapInit ==
    /\ overlap \in {o \in BOOLEAN : o => bus \in Overlapped}
    /\ data = [i \in DOMAIN bus |-> [out |-> NoData, in |-> NoData]]
    /\ fmmus = [i \in DOMAIN bus |-> [out |-> <<>>, in |-> <<>>]]
    /\ logAddr = 0 /\ bitPos = 0
    /\ segments = <<>> /\ segmentsize = 0
    /\ wkcs = [out |-> 0, in |-> 0]
    /\ group = [Obytes |-> 0, Ibytes |-> 0, Isegment |-> 0, Ioffset |-> 0]
    /\ mapping = "coe" /\ mapped = 0

\* One slave of the loop of a phase, and what follows the loop.
Loop(phase) == mapping = phase /\ mapped < Len(bus) /\ mapped' = mapped + 1
Then(phase) == mapped' = 0 /\ mapping' = phase

-----------------------------------------------------------------------------
(* ecx_config_find_mappings.                                                *)

\* The slave answers, or does not, what its PDOs are (ecx_map_coe_soe).
MapCoe ==
    /\ Loop("coe")
    /\ data' = [data EXCEPT ![mapped'] =
                  IF bus[mapped'].coe THEN [out |-> TypeOf(mapped').out, in |-> TypeOf(mapped').in] ELSE @]
    /\ UNCHANGED <<overlap, fmmus, logAddr, bitPos, segments, segmentsize, wkcs, group, mapping>>
EndCoe ==
    /\ mapping = "coe" /\ mapped = Len(bus)
    /\ Then("sii")
    /\ UNCHANGED <<overlap, data, fmmus, logAddr, bitPos, segments, segmentsize, wkcs, group>>

\* Mutant: the revision is not compared.
PreviousAnyRevision(i) ==
    LET id(j) == SubSeq(TypeOf(j).id, 1, 2) IN {j \in 1 .. i - 1 : id(j) = id(i)}
\* The slaves before i with its identity.
Previous(i) == {j \in 1 .. i - 1 : SameId(bus[j].type, bus[i].type)}

\* Otherwise the mapping is copied from the first slave with the same identity, or,
\* if that has none, read from the SII.
MapSii ==
    /\ Loop("sii")
    /\ LET i == mapped'
           unknown(d) == d.out.bits = 0 /\ d.in.bits = 0
           copied == IF Previous(i) = {} THEN data[i] ELSE data[Min(Previous(i))]
       IN  data' = [data EXCEPT ![i] =
                      IF ~unknown(@) THEN @
                      ELSE IF ~unknown(copied) THEN copied
                      ELSE [out |-> TypeOf(i).out, in |-> TypeOf(i).in]]
    /\ UNCHANGED <<overlap, fmmus, logAddr, bitPos, segments, segmentsize, wkcs, group, mapping>>
EndSii ==
    /\ mapping = "sii" /\ mapped = Len(bus)
    /\ Then(IF overlap THEN "overlap" ELSE "out")
    /\ UNCHANGED <<overlap, data, fmmus, logAddr, bitPos, segments, segmentsize, wkcs, group>>

-----------------------------------------------------------------------------
(* ecx_config_create_output_mappings and _input_mappings: the same FMMUs in *)
(* both directions, from the logical address on.                            *)

SumTo(areas, k) == Sum(1 .. k, LAMBDA j : areas[j])

\* Mutant: a slave of less than a byte begins with a byte, as the others do.
BitFmmuFirst(bits) ==
    [start |-> logAddr, startbit |-> 0,
     length |-> (bitPos + bits - 1) \div 8 + 1, endbit |-> (bitPos + bits - 1) % 8]
\* A slave of less than a byte goes on at the bit where the last one ended.
BitFmmu(bits) ==
    [start |-> logAddr, startbit |-> bitPos,
     length |-> (bitPos + bits - 1) \div 8 + 1, endbit |-> (bitPos + bits - 1) % 8]

\* The others begin with a byte.  ByteCount grows from area to area and is not begun
\* anew, so that the second of three areas gets too much.
RECURSIVE ByteFmmus(_, _, _, _)
ByteFmmus(areas, k, addr, left) ==
    IF left = 0 THEN <<>>
    ELSE LET size == Min({SumTo(areas, k), left})
         IN  <<[start |-> addr, startbit |-> 0, length |-> size, endbit |-> 7]>>
             \o ByteFmmus(areas, k + 1, addr + size, left - size)

\* The FMMUs of a slave, and the logical address and bit after it.
Mapped(d) ==
    IF Bytes(d.bits) = 0
      THEN [fmmus |-> <<BitFmmu(d.bits)>>,
            addr |-> logAddr + (bitPos + d.bits) \div 8, pos |-> (bitPos + d.bits) % 8]
      ELSE LET first == IF bitPos > 0 THEN logAddr + 1 ELSE logAddr
           IN  [fmmus |-> ByteFmmus(d.areas, 1, first, Bytes(d.bits)),
                addr |-> first + Bytes(d.bits), pos |-> 0]

-----------------------------------------------------------------------------
(* ecx_main_config_map_group: the segments.                                 *)

SegmentMax(closed) == IF closed = <<>> THEN EC_MAXLRWDATA - EC_FIRSTDCDATAGRAM ELSE EC_MAXLRWDATA

\* What is more than a segment is cut, and the slave answers in every part.
RECURSIVE Cut(_, _, _)
Cut(closed, size, wkc) ==
    IF size <= SegmentMax(closed) THEN [segments |-> closed, size |-> size, wkc |-> wkc]
    ELSE Cut(Append(closed, SegmentMax(closed)), size - SegmentMax(closed), wkc + 1)

\* diff more bytes, of one slave: a new segment if it fits in one but no longer in this.
Segmented(diff) ==
    LET new == segmentsize + diff > SegmentMax(segments) /\ diff <= SegmentMax(segments)
    IN  IF new THEN Cut(Append(segments, segmentsize), diff, 0)
               ELSE Cut(segments, segmentsize + diff, 0)
\* The part that is left counts, too.
Parts(s, diff) == s.wkc + IF s.size > 0 /\ diff > 0 THEN 1 ELSE 0

\* A slave in the direction dir, if it has data there.
MapSlave(dir) ==
    LET i == mapped'
        m == Mapped(data[i][dir])
        s == Segmented(m.addr - logAddr)
    IN  IF data[i][dir].bits = 0
          THEN UNCHANGED <<overlap, fmmus, logAddr, bitPos, segments, segmentsize, wkcs>>
          ELSE /\ fmmus' = [fmmus EXCEPT ![i][dir] = m.fmmus]
               /\ logAddr' = m.addr /\ bitPos' = m.pos
               /\ segments' = s.segments /\ segmentsize' = s.size
               /\ wkcs' = [wkcs EXCEPT ![dir] = @ + Parts(s, m.addr - logAddr)]

\* Mutant: the byte begun is not counted in the segment.
FillByteUncounted(dir) ==
    /\ logAddr' = IF bitPos = 0 THEN logAddr ELSE logAddr + 1
    /\ bitPos' = 0
    /\ UNCHANGED <<segments, segmentsize, wkcs>>
\* A byte begun is part of the image.
FillByte(dir) ==
    LET full == segmentsize + 1 > SegmentMax(segments)
    IN  IF bitPos = 0 THEN UNCHANGED <<logAddr, bitPos, segments, segmentsize, wkcs>>
        ELSE /\ logAddr' = logAddr + 1 /\ bitPos' = 0
             /\ segments' = IF full THEN Append(segments, segmentsize) ELSE segments
             /\ segmentsize' = IF full THEN 1 ELSE segmentsize + 1
             /\ wkcs' = IF full THEN [wkcs EXCEPT ![dir] = @ + 1] ELSE wkcs

MapOutputs == Loop("out") /\ MapSlave("out") /\ UNCHANGED <<overlap, data, group, mapping>>
EndOutputs ==
    /\ mapping = "out" /\ mapped = Len(bus)
    /\ FillByte("out")
    /\ group' = [group EXCEPT !.Obytes = logAddr', !.Isegment = Len(segments'), !.Ioffset = segmentsize']
    /\ Then("in")
    /\ UNCHANGED <<overlap, data, fmmus>>
MapInputs == Loop("in") /\ MapSlave("in") /\ UNCHANGED <<overlap, data, group, mapping>>
EndInputs ==
    /\ mapping = "in" /\ mapped = Len(bus)
    /\ FillByte("in")
    /\ group' = [group EXCEPT !.Ibytes = logAddr' - group.Obytes]
    /\ Then("done")
    /\ UNCHANGED <<overlap, data, fmmus>>

-----------------------------------------------------------------------------
(* ecx_config_overlap_map_group.                                            *)

\* The address after a slave in one direction; a byte begun is filled.
EndOf(d) ==
    IF d.bits = 0 THEN logAddr
    ELSE LET m == Mapped(d) IN IF m.pos > 0 THEN m.addr + 1 ELSE m.addr

\* In how many parts of a cut a direction of this length is counted; each part takes as
\* much of it as the segment holds.
PartsOf(s, diff, length) ==
    LET closed == SubSeq(s.segments, Len(s.segments) - s.wkc + 1, Len(s.segments))
    IN  Cardinality({k \in 1 .. Parts(s, diff) : length > SumTo(closed, k - 1)})

\* Mutant: the inputs begin where the outputs end.
MapOverlappedBehind ==
    /\ Loop("overlap")
    /\ LET i == mapped'
           so == EndOf(data[i].out)
           si == so + EndOf(data[i].in) - logAddr
           diff == Max({so, si}) - logAddr
           s == Segmented(diff)
       IN  /\ fmmus' = [fmmus EXCEPT ![i] = [dir \in Directions |->
                           IF data[i][dir].bits = 0 THEN <<>> ELSE Mapped(data[i][dir]).fmmus]]
           /\ logAddr' = logAddr + diff
           /\ segments' = s.segments /\ segmentsize' = s.size
           /\ wkcs' = [out |-> wkcs.out + PartsOf(s, diff, so - logAddr),
                       in  |-> wkcs.in + PartsOf(s, diff, si - logAddr)]
           /\ group' = [group EXCEPT !.Obytes = so, !.Ibytes = si]
    /\ UNCHANGED <<overlap, data, bitPos, mapping>>
\* Both directions of a slave, from one address on.  The sizes are those after the last one.
MapOverlapped ==
    /\ Loop("overlap")
    /\ LET i == mapped'
           so == EndOf(data[i].out)
           si == EndOf(data[i].in)
           diff == Max({so, si}) - logAddr
           s == Segmented(diff)
       IN  /\ fmmus' = [fmmus EXCEPT ![i] = [dir \in Directions |->
                           IF data[i][dir].bits = 0 THEN <<>> ELSE Mapped(data[i][dir]).fmmus]]
           /\ logAddr' = logAddr + diff
           /\ segments' = s.segments /\ segmentsize' = s.size
           /\ wkcs' = [out |-> wkcs.out + PartsOf(s, diff, so - logAddr),
                       in  |-> wkcs.in + PartsOf(s, diff, si - logAddr)]
           /\ group' = [group EXCEPT !.Obytes = so, !.Ibytes = si]
    /\ UNCHANGED <<overlap, data, bitPos, mapping>>
EndOverlapped ==
    /\ mapping = "overlap" /\ mapped = Len(bus)
    /\ Then("done")
    /\ UNCHANGED <<overlap, data, fmmus, logAddr, bitPos, segments, segmentsize, wkcs, group>>

ConfigMap ==
    \/ MapCoe \/ EndCoe \/ MapSii \/ EndSii
    \/ MapOutputs \/ EndOutputs \/ MapInputs \/ EndInputs
    \/ MapOverlapped \/ EndOverlapped

IOsegment == Append(segments, segmentsize)
\* ec_slave[].outputs and .inputs, as places in the image.
Pointer(i, dir) ==
    fmmus[i][dir][1].start + IF overlap /\ dir = "in" THEN group.Obytes ELSE 0
-----------------------------------------------------------------------------
\* A mapping copied from another slave is the slave's own.
MappingsTrue ==
    mapping \in {"out", "in", "overlap", "done"} =>
        \A i \in DOMAIN bus : data[i].out = TypeOf(i).out /\ data[i].in = TypeOf(i).in

\* The logical bits that an FMMU maps, and the logical bytes of a slave.
BitsOf(f) == f.start * 8 + f.startbit .. (f.start + f.length - 1) * 8 + f.endbit
FmmuBytes(i, dir) ==
    UNION {LET f == fmmus[i][dir][k] IN f.start .. f.start + f.length - 1 : k \in DOMAIN fmmus[i][dir]}
Image(dir) ==
    IF dir = "out" THEN 0 .. group.Obytes * 8 - 1
    ELSE LET first == IF overlap THEN 0 ELSE group.Obytes
         IN  first * 8 .. (first + group.Ibytes) * 8 - 1
AllFmmus == {<<i, dir, k>> \in Slaves \X Directions \X (1 .. 4) : k \in DOMAIN fmmus[i][dir]}
Fmmu(x) == fmmus[x[1]][x[2]][x[3]]
\* In an overlapped image the two directions of one slave share addresses.
MayShare(x, y) == overlap /\ x[1] = y[1] /\ x[2] # y[2]
\* Each slave has its own part of the image, as long as its data, in the part of its
\* direction.
OwnPartOfImage ==
    mapping = "done" =>
        /\ \A x, y \in AllFmmus : x = y \/ MayShare(x, y) \/ BitsOf(Fmmu(x)) \cap BitsOf(Fmmu(y)) = {}
        /\ \A x \in AllFmmus : BitsOf(Fmmu(x)) \subseteq Image(x[2])
        /\ \A i \in DOMAIN bus, dir \in Directions :
              LET bits(k) == Cardinality(BitsOf(fmmus[i][dir][k]))
                  d == data[i][dir]
              IN  Sum(DOMAIN fmmus[i][dir], bits) = IF Bytes(d.bits) = 0 THEN d.bits ELSE 8 * Bytes(d.bits)
=============================================================================
