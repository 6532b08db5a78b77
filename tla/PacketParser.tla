---------------------------- MODULE PacketParser ----------------------------
(***************************************************************************)
(* PacketParser::parse of src/packet_parser.cpp, and the offsets the       *)
(* programs take from a parsed packet.  A frame is a record of what its    *)
(* bytes say: len bytes captured, the EtherType, the first byte of the IP  *)
(* header split into version and ihl, the protocol, the addresses and      *)
(* ports, the TCP data offset doff, and the payload.  A field beyond len   *)
(* is not there and must not be looked at.                                 *)
(***************************************************************************)
EXTENDS Integers

EthHeaderLen == 14
MinIPHeaderLen == 20
MinTCPHeaderLen == 20
UDPHeaderLen == 8
IPv4 == 2048   \* EtherType 0x0800
TCP == 6
UDP == 17

TransportOffset(f) == EthHeaderLen + 4 * f.ihl

(* parseEthernet, parseIPv4.                                               *)
HasIP(f) ==
  /\ f.len >= EthHeaderLen /\ f.ether = IPv4
  /\ f.len >= EthHeaderLen + MinIPHeaderLen
  /\ f.version = 4
  /\ 4 * f.ihl >= MinIPHeaderLen /\ f.len >= TransportOffset(f)

(* parseTCP, parseUDP.                                                     *)
HasTCP(f) ==
  /\ HasIP(f) /\ f.protocol = TCP
  /\ f.len >= TransportOffset(f) + MinTCPHeaderLen
  /\ 4 * f.doff >= MinTCPHeaderLen
  /\ f.len >= TransportOffset(f) + 4 * f.doff

HasUDP(f) ==
  /\ HasIP(f) /\ f.protocol = UDP
  /\ f.len >= TransportOffset(f) + UDPHeaderLen

(* parse returns true and has_ip and has_tcp or has_udp are set: packets   *)
(* of other kinds are skipped by every engine.                             *)
Parsed(f) == HasTCP(f) \/ HasUDP(f)

PayloadOffset(f) == TransportOffset(f) + 4 * f.doff
PayloadLen(f) == f.len - PayloadOffset(f)

FiveTupleOf(f) ==
  [src_ip |-> f.src_ip, dst_ip |-> f.dst_ip, src_port |-> f.src_port,
   dst_port |-> f.dst_port, protocol |-> f.protocol]
=============================================================================
