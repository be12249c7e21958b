--------------------------- MODULE NetworkHeader ---------------------------
(***************************************************************************)
(* The header the network layer puts before a message (BacnetNpci), and    *)
(* the addresses in it (BacnetAddress, BacnetBipAddressHelper).            *)
(*                                                                         *)
(* An address of the header is <<>>, when it is left out, or [net, host,   *)
(* port]; a broadcast's host is <<>>.  Priorities go from 0 to 3.  A       *)
(* header's type is ApduType for an application message, else the octet of *)
(* the network message.  Vendor messages, above 127, are never sent.       *)
(***************************************************************************)
EXTENDS Encoding

ProtocolVersion == 1
ApduType == 255
NoAddress == <<>>
DefaultHops == 255

\* A device of a gateway has four octets and no port.
InternalAddressLength == 4
NoPort == 0

\* The addresses and the headers that a message may have.
Host    == {s \in Seq(Octets) : Len(s) = InternalAddressLength}
Address == {a \in [net : Quint16, host : {<<>>} \cup Host, port : Quint16] :
                a.host = <<>> => a.port = NoPort}
Header  == {h \in [reply : BOOLEAN, prio : 0..3, dest : {NoAddress} \cup Address,
                   src : {NoAddress} \cup Address, type : 0..127 \cup {ApduType}, hops : Octets] :
               h.dest = NoAddress => h.hops = DefaultHops}

\* The bit of an octet that has this weight.
Bit(octet, weight) == (octet \div weight) % 2

\* Six octets of an address: the four of the host, then the port.
ipAddrToRaw(host, port) == host \o BigEndian(port, 2)
BipAddrLength == 6

ipAddress(mac) ==
    IF Len(mac) \in {BipAddrLength, InternalAddressLength} THEN SubSeq(mac, 1, 4) ELSE <<>>
ipPort(mac) ==
    IF Len(mac) = BipAddrLength THEN uint32fromVarLengthRaw(SubSeq(mac, 5, 6)) ELSE NoPort

networkNumToRaw(net) == BigEndian(net, 2)
networkNumFromRaw(o, at) == uint32fromVarLengthRaw(SubSeq(o, at, at + 1))

\* A broadcast to a network has no octets of its own.
macAddressToRaw(a) ==
    IF a.host = <<>> \/ a.port = NoPort THEN a.host ELSE ipAddrToRaw(a.host, a.port)

encodeAddress(a) ==
    networkNumToRaw(a.net) \o <<Len(macAddressToRaw(a))>> \o macAddressToRaw(a)

\* The address that begins at position at, and the position behind it.
decodeAddress(o, at) ==
    LET mac == SubSeq(o, at + 3, at + 2 + o[at + 2])
    IN  [a |-> [net |-> networkNumFromRaw(o, at),
                host |-> ipAddress(mac), port |-> ipPort(mac)],
         next |-> at + 3 + Len(mac)]

controlOctet(h) ==
    128 * (IF h.type = ApduType THEN 0 ELSE 1) + 32 * (IF h.dest = NoAddress THEN 0 ELSE 1)
    + 8 * (IF h.src = NoAddress THEN 0 ELSE 1) + 4 * (IF h.reply THEN 1 ELSE 0) + h.prio

\* A bug: the hop count is sent on as it came.
setToRawHopsKept(h) ==
    <<ProtocolVersion, controlOctet(h)>>
    \o (IF h.dest = NoAddress THEN <<>> ELSE encodeAddress(h.dest))
    \o (IF h.src = NoAddress THEN <<>> ELSE encodeAddress(h.src))
    \o (IF h.dest = NoAddress THEN <<>> ELSE <<h.hops>>)
    \o (IF h.type = ApduType THEN <<>> ELSE <<h.type>>)

\* The hop count of an octet: one less than 0 is 255.
setToRaw(h) ==
    <<ProtocolVersion, controlOctet(h)>>
    \o (IF h.dest = NoAddress THEN <<>> ELSE encodeAddress(h.dest))
    \o (IF h.src = NoAddress THEN <<>> ELSE encodeAddress(h.src))
    \o (IF h.dest = NoAddress THEN <<>> ELSE <<(h.hops - 1) % 256>>)
    \o (IF h.type = ApduType THEN <<>> ELSE <<h.type>>)

Insane(o) == o[1] # ProtocolVersion \/ Bit(o[2], 64) = 1 \/ Bit(o[2], 16) = 1

\* The header and the octets it takes.
setFromRaw(o) ==
    LET absent(at) == [a |-> NoAddress, next |-> at]
        dest == IF Bit(o[2], 32) = 1 THEN decodeAddress(o, 3) ELSE absent(3)
        src  == IF Bit(o[2], 8) = 1 THEN decodeAddress(o, dest.next) ELSE absent(dest.next)
        end  == src.next + Bit(o[2], 32)
        type == IF Bit(o[2], 128) = 1 THEN o[end] ELSE ApduType
        vendor == IF type # ApduType /\ type > 127 THEN 2 ELSE 0
    IN  [h |-> [reply |-> Bit(o[2], 4) = 1, prio |-> o[2] % 4, dest |-> dest.a,
                src |-> src.a, type |-> type,
                hops |-> IF Bit(o[2], 32) = 1 THEN o[src.next] ELSE DefaultHops],
         n |-> end - 1 + Bit(o[2], 128) + vendor]
=============================================================================
