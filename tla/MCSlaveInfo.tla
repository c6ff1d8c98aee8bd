----------------------------- MODULE MCSlaveInfo -----------------------------
(* Two kinds of boards that differ in revision; the second has no mailbox. And boards with *)
(* all sorts of dictionaries, with types of sync managers right, missing or one too small. *)
EXTENDS SlaveInfo, TLC
MCAddresses == (0 .. 15) \cup (24 .. 29) \cup (64 .. 67)
MCContents ==
    [k \in {1, 2} |-> [a \in MCAddresses |->
        IF a < 12 THEN <<9, a>> ELSE IF k = 2 /\ a > 23 /\ a < 30 THEN Zero ELSE <<k, a>>]]
MCSiiBytes == {128, 133}
MCEightByte == {2}
MCAlias == <<6, 4>>
MCImage == [a \in 10 .. 11 |-> <<7, a>>]
\* The first kind has the revision 0.
MCZeroRevision ==
    [MCContents EXCEPT ![1] = [a \in MCAddresses |-> IF a \in 12 .. 13 THEN Zero ELSE MCContents[1][a]]]

Dictionary(types) ==
    (7168 :> types) @@ (7186 :> <<16, 17>>) @@ (7187 :> <<26, 0, 27>>) @@ (7188 :> <<28>>)
    @@ (16 :> <<8, 8, 16>>) @@ (17 :> <<1>>) @@ (26 :> <<8>>) @@ (27 :> <<16, 4>>) @@ (28 :> <<32>>)
Cat(cat, data) == [cat |-> cat, data |-> data]
Pdo(sm, bits) == [sm |-> sm, bits |-> bits]
Sii(general) ==
    << Cat(GENERAL, general), Cat(SM, <<128, 128, 5, 4>>),
       Cat(PDO, <<Pdo(3, <<8>>), Pdo(255, <<16>>), Pdo(3, <<16, 4>>)>>),
       Cat(PDO + 1, <<Pdo(2, <<8, 8, 16>>), Pdo(2, <<1>>)>>) >>
Dictionaries ==
    {Dictionary(types) : types \in
        {<<1, 2, 3, 4>>, <<1, 2, 3, 4, 4>>, <<0, 1, 2, 3>>, <<1, 2, 0, 0>>, <<1, 2>>}}
Attributes(lengths) == [k \in DOMAIN lengths |-> [list |-> lengths[k] = 9, length |-> lengths[k] % 4]]
Drives ==
    << [out |-> Attributes(<<0, 2>>), in |-> Attributes(<<3, 9, 1>>)],
       [out |-> <<>>, in |-> Attributes(<<2>>)] >>
Entry(out, in, sm2a, sm3a) == [Obits |-> out, Ibits |-> in, SM2a |-> sm2a, SM3a |-> sm3a]
Board(dict, drives, sii, entry) ==
    [coe |-> dict # <<>>, dict |-> dict, drives |-> drives, sii |-> sii, entry |-> entry]
MCBoards ==
    {Board(dict, <<>>, sii, <<>>) :
        sii \in {<<>>, Sii(<<"SDOCA">>), Sii(<<"none">>)}, dict \in {<<>>} \cup Dictionaries}
    \cup {Board(dict, Drives, sii, <<>>) :
        sii \in {<<>>, Sii(<<"none">>)}, dict \in {<<>>, Dictionary(<<1, 2>>)}}
    \* Tables: EK1100, EL1002, EL2004, EL2032, EL3102, EL4032, EL5101.
    \cup {Board(<<>>, <<>>, Sii(<<"none">>), entry) :
        entry \in {Entry(0, 0, 0, 0), Entry(0, 2, 0, 0), Entry(4, 0, 0, 0), Entry(2, 2, 0, 0),
                   Entry(0, 48, 4096, 4352), Entry(32, 0, 4352, 4480), Entry(24, 40, 4096, 4352)}}
=============================================================================
