------------------------------ MODULE PcapFile ------------------------------
(***************************************************************************)
(* The capture files PcapReader of src/pcap_reader.cpp reads and the       *)
(* programs write.  A 32-bit field is the sequence of its four bytes, the  *)
(* most significant first as this machine sees it.  A file is              *)
(* [magic, snaplen, records]; a record is [incl, frame, present]: its      *)
(* length field, the frame it holds, and how many bytes of it are there.   *)
(***************************************************************************)
EXTENDS Integers, Sequences, SequencesExt

Byte == 0 .. 255
Word == [1 .. 4 -> Byte]

(* The value of a field, exact up to 65535 and 65536 beyond: the reader    *)
(* only compares lengths with limits that low.                             *)
Value(w) == IF w[1] + w[2] > 0 THEN 65536 ELSE 256 * w[3] + w[4]
WordOf(n) == <<0, 0, n \div 256, n % 256>>

Magics == {"native", "swapped", "other"}

(* open: a file of another kind is refused.                                *)
CanOpen(file) == file.magic # "other"

(* maybeSwap32.                                                            *)
MaybeSwap32(file, w) == IF file.magic = "swapped" THEN Reverse(w) ELSE w

(* getGlobalHeader: open has put snaplen into this machine's order, but    *)
(* left the magic number as it was read.                                   *)
GlobalHeader(file) ==
  [magic |-> file.magic, snaplen |-> MaybeSwap32(file, file.snaplen)]

InclLen(file, i) == Value(MaybeSwap32(file, file.records[i].incl))

(* readNextPacket after n packets: there is a record, its length is within *)
(* snaplen and 65535, and so many bytes follow.                            *)
HasNext(file, n) ==
  /\ n < Len(file.records)
  /\ InclLen(file, n + 1) <= Value(GlobalHeader(file).snaplen)
  /\ InclLen(file, n + 1) <= 65535
  /\ InclLen(file, n + 1) <= file.records[n + 1].present

(* Variant: the length goes out in network byte order.                     *)
NewRecordBigEndian(frame, len) ==
  [incl |-> Reverse(WordOf(len)), frame |-> frame, present |-> len]

(* The record the programs write for a frame of len bytes.                 *)
NewRecord(frame, len) ==
  [incl |-> WordOf(len), frame |-> frame, present |-> len]

(* A file that PcapReader reads from end to end, each record with the      *)
(* length of the frame that was put in it.                                 *)
Readable(file) ==
  /\ CanOpen(file)
  /\ \A i \in 1 .. Len(file.records) :
       HasNext(file, i - 1) /\ InclLen(file, i) = file.records[i].present
=============================================================================
