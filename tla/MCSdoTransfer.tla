---------------------------- MODULE MCSdoTransfer ----------------------------
(* The three calls of SlaveDevice::init, objects of three mailboxes for the segments, and   *)
(* each of the other services with data of one and of several mailboxes.  After the frame   *)
(* of 20 bytes there is always room for a time stamp, after that of 22 only in 28 bytes.    *)
EXTENDS MailboxServices
Call(service, index, size, room) == [op |-> service, index |-> index, size |-> size, room |-> room]
SdoCalls == {Call("read", "serial", 4, 4), Call("write", "sdo_len", 2, 0),
             Call("read", "long", 20, 20), Call("write", "list", 20, 0), Call("read", "name", 6, 3)}
InfoCalls == {Call("odlist", "objects", 6, 6), Call("odlist", "objects", 6, 5),
              Call("odesc", "object", 2, 0), Call("oe", "object", 2, 0),
              Call("rxpdo", "command", 4, 0), Call("txpdo", "status", 4, 4), Call("txpdo", "status", 4, 3)}
FileCalls == {Call("foe_read", "log", 20, 20), Call("foe_read", "full", 18, 18),
              Call("foe_read", "log", 20, 9),
              Call("foe_write", "log", 20, 0), Call("foe_write", "full", 18, 0)}
DriveCalls == {Call("soe_read", "curve", 20, 20), Call("soe_read", "curve", 20, 10),
               Call("soe_write", "curve", 20, 0), Call("soe_write", "pair", 18, 0)}
EthernetCalls == {Call("eoe_set", "ip", 6, 0), Call("eoe_get", "ip", 6, 0),
                  Call("eoe_send", "frame", 20, 0), Call("eoe_recv", "frame", 20, 24),
                  Call("eoe_recv", "tight", 22, 24), Call("eoe_recv", "tight", 22, 28)}
MCCalls == SdoCalls \cup InfoCalls \cup FileCalls \cup DriveCalls \cup EthernetCalls

MCHooked == {Call("odesc", "object", 2, 0)}
MCEthernet == MCHooked \cup {c \in MCCalls : c.op = "eoe_recv"} \cup {Call("txpdo", "status", 4, 4)}
\* Two calls of which one is short, and the same file twice.
Short == {Call("read", "serial", 4, 4), Call("write", "sdo_len", 2, 0)}
File == Call("foe_read", "log", 20, 20)
Long == {Call("read", "long", 20, 20), Call("write", "list", 20, 0)}
MCFollows ==
    [c \in MCCalls |-> CASE c \in Short -> Short \cup {Call("write", "list", 20, 0)}
                         [] c \in Long -> {Call("read", "serial", 4, 4)}
                         [] c = File -> {File}
                         [] OTHER -> {}]
MCFieldSize == <<<<"mac", 2>>, <<"ip", 1>>, <<"name", 3>>>>
=============================================================================
