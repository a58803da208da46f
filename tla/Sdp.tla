-------------------------------- MODULE Sdp ---------------------------------
(***************************************************************************)
(* untether_bt.sdp: data elements, service records, the SPP channel.       *)
(*                                                                         *)
(* A value is [t |-> kind, v |-> value]: an "int" (booleans are integers,  *)
(* as in Python), a "uuid" off the base, "raw" bytes, "nil", a "list", or  *)
(* "big", an integer of more than three octets, kept as its octets.        *)
(***************************************************************************)
EXTENDS Integers, SequencesExt

Slice(data, first, last) ==
  SubSeq(data, first, IF last < Len(data) THEN last ELSE Len(data))

Base128 == <<0, 0, 16, 0, 128, 0, 0, 128, 95, 155, 52, 251>>

-----------------------------------------------------------------------------
\* Data elements

Big(raw) == [t |-> "big", v |-> raw]
Small(raw) == FoldLeft(LAMBDA n, b : 256 * n + b, 0, raw)
Significant(raw) ==
  LET nonzero == {i \in DOMAIN raw : raw[i] # 0}
  IN IF nonzero = {} THEN <<>>
     ELSE SubSeq(raw, CHOOSE i \in nonzero : \A j \in nonzero : i <= j, Len(raw))

\* int.from_bytes(raw, "big")
Unsigned(raw) ==
  LET digits == Significant(raw)
  IN IF Len(digits) > 3 THEN Big(digits) ELSE [t |-> "int", v |-> Small(digits)]

Signed(raw) ==
  IF raw = <<>> \/ raw[1] < 128 THEN Unsigned(raw)
  ELSE IF Len(raw) > 3 THEN Big(raw)
  ELSE [t |-> "int", v |-> Small(raw) - 256 ^ Len(raw)]

\* 16 and 32 bits are a number; so is a 16-bit UUID written out in 128.
UuidValue(raw) ==
  IF Len(raw) \in {2, 4} THEN Unsigned(raw)
  ELSE IF Len(raw) = 16 /\ SubSeq(raw, 1, 2) = <<0, 0>> /\ SubSeq(raw, 5, 16) = Base128
       THEN Unsigned(SubSeq(raw, 3, 4))
  ELSE [t |-> "uuid", v |-> raw]

\* IndexError
NoElement == [ok |-> FALSE, value |-> [t |-> "nil", v |-> <<>>], next |-> 0]

RECURSIVE DataElement(_, _), Elements(_, _, _)

\* A size, and 2^30 for one of 2^30 or more, which no data has.
SizeOf(raw) ==
  LET digits == Significant(raw)
  IN IF Len(digits) > 4 \/ (Len(digits) = 4 /\ digits[1] >= 64) THEN 2 ^ 30 ELSE Small(digits)

\* The element whose header is at offset "at", and the offset behind it.
DataElement(data, at) ==
  IF at > Len(data) THEN NoElement
  ELSE
    LET type  == data[at] \div 8
        index == data[at] % 8
        first == at + 1 + (IF index < 5 THEN 0 ELSE 2 ^ (index - 5))
        size  == IF index < 5 THEN IF type = 0 THEN 0 ELSE 2 ^ index
                 ELSE SizeOf(Slice(data, at + 1, first - 1))
        raw   == Slice(data, first, first + size - 1)
        Is(value) == [ok |-> TRUE, value |-> value, next |-> first + size]
        items == Elements(data, first, first + size)
    IN CASE type = 0 -> Is([t |-> "nil", v |-> <<>>])
         [] type = 1 -> Is(Unsigned(raw))
         [] type = 2 -> Is(Signed(raw))
         [] type = 3 -> Is(UuidValue(raw))
         [] type = 5 -> Is([t |-> "int", v |-> IF raw = <<>> \/ raw[1] = 0 THEN 0 ELSE 1])
         [] type \in {6, 7} ->
              IF items.ok THEN Is([t |-> "list", v |-> items.value]) ELSE NoElement
         [] OTHER -> Is([t |-> "raw", v |-> raw])

\* The items of a sequence; one may reach over the end of it.
Elements(data, at, end) ==
  IF at >= end THEN [ok |-> TRUE, value |-> <<>>]
  ELSE LET item == DataElement(data, at)
           rest == Elements(data, item.next, end)
       IN IF item.ok /\ rest.ok THEN [ok |-> TRUE, value |-> <<item.value>> \o rest.value]
          ELSE [ok |-> FALSE, value |-> <<>>]

-----------------------------------------------------------------------------
\* Service records

IsInt(value, n) == value.t = "int" /\ value.v = n

\* Attributes are at odd positions, each value behind its own.
Keys(record) == {i \in DOMAIN record : i % 2 = 1 /\ i < Len(record)}

\* Building the dict raises TypeError when a key is a list.
Hashable(record) == \A i \in Keys(record) : record[i].t # "list"

\* The last value of the attribute, in a sequence of at most one.
Attribute(record, id) ==
  LET at == {i \in Keys(record) : IsInt(record[i], id)}
  IN IF at = {} THEN <<>> ELSE <<record[(CHOOSE i \in at : \A j \in at : j <= i) + 1]>>

RecordsOf(top) ==
  IF top.t # "list" THEN <<>>
  ELSE LET lists == SelectSeq(top.v, LAMBDA r : r.t = "list")
       IN [k \in DOMAIN lists |-> lists[k].v]

\* What parse_ssa_response does: its records, or the exception it raises.
ParseSsaResponse(pdu) ==
  IF Len(pdu) < 7 \/ pdu[1] # 7 THEN [raises |-> "ValueError", records |-> <<>>]
  ELSE LET count == 256 * pdu[6] + pdu[7]
           top   == DataElement(Slice(pdu, 8, 7 + count), 1)
           found == RecordsOf(top.value)
       IN IF ~top.ok THEN [raises |-> "IndexError", records |-> <<>>]
          ELSE IF \E k \in DOMAIN found : ~Hashable(found[k])
               THEN [raises |-> "TypeError", records |-> <<>>]
          ELSE [raises |-> "", records |-> found]

-----------------------------------------------------------------------------
\* The channel; results are sequences of at most one channel.

ServiceClassIdList     == 1
ProtocolDescriptorList == 4
RfcommUuid             == 3
SerialPort             == 4353   \* 0x1101

IsRfcomm(proto) ==
  /\ proto.t = "list" /\ Len(proto.v) >= 2
  /\ IsInt(proto.v[1], RfcommUuid)
  /\ proto.v[2].t \in {"int", "big"}

RfcommChannel(record) ==
  LET protocols == Attribute(record, ProtocolDescriptorList)
  IN IF protocols = <<>> \/ Head(protocols).t # "list" THEN <<>>
     ELSE LET found == SelectSeq(Head(protocols).v, IsRfcomm)
          IN IF found = <<>> THEN <<>> ELSE <<found[1].v[2].v>>

\* MUTANT: any service will do.
AnyClass(record) == TRUE

IsSerialPort(record) ==
  LET classes == Attribute(record, ServiceClassIdList)
  IN /\ classes # <<>> /\ Head(classes).t = "list"
     /\ \E k \in DOMAIN Head(classes).v : IsInt(Head(classes).v[k], SerialPort)

FindRfcommChannels(records) == FlattenSeq([k \in DOMAIN records |-> RfcommChannel(records[k])])

\* The first serial port that has a channel, or else the first channel.
SppChannel(records) ==
  LET serial == FindRfcommChannels(SelectSeq(records, IsSerialPort))
      any    == FindRfcommChannels(records)
  IN SubSeq(serial \o any, 1, IF any = <<>> THEN 0 ELSE 1)
=============================================================================
