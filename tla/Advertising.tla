----------------------------- MODULE Advertising ----------------------------
(***************************************************************************)
(* untether_bt.advertising: advertising payloads.  A result that may be    *)
(* missing is a sequence of at most one.                                   *)
(***************************************************************************)
EXTENDS Integers, SequencesExt

AdFlags       == 1
AdUuid16      == {2, 3}
AdNameShort   == 8
AdNameFull    == 9
AdServiceData == 22
AdManufacturer == 255

LittleEndian(bytes) == bytes[1] + 256 * bytes[2]
First(s) == SubSeq(s, 1, IF s = <<>> THEN 0 ELSE 1)

\* MUTANT: the length counts itself.
FitsWithLength(payload, i) == i + payload[i] - 1 <= Len(payload)

\* Neither padding nor a structure that is cut off.
Fits(payload, i) == payload[i] # 0 /\ i + payload[i] <= Len(payload)

ParseAd(payload) ==
  LET from[i \in 1..Len(payload) + 1] ==
        IF i > Len(payload) THEN <<>>
        ELSE IF ~Fits(payload, i) THEN <<>>
        ELSE <<[type |-> payload[i + 1], data |-> SubSeq(payload, i + 2, i + payload[i])]>>
               \o from[i + 1 + payload[i]]
  IN from[1]

OfType(structs, types, least) ==
  SelectSeq(structs, LAMBDA s : s.type \in types /\ Len(s.data) >= least)

ManufacturerData(structs) ==
  LET found == First(OfType(structs, {AdManufacturer}, 2))
  IN [k \in DOMAIN found |->
       [company |-> LittleEndian(found[k].data), data |-> SubSeq(found[k].data, 3, Len(found[k].data))]]

\* The last structure of a UUID counts.
ServiceData(structs) ==
  LET found == OfType(structs, {AdServiceData}, 2)
      Uuid(k) == LittleEndian(found[k].data)
  IN [u \in {Uuid(k) : k \in DOMAIN found} |->
       LET last == CHOOSE k \in DOMAIN found :
                     Uuid(k) = u /\ \A j \in DOMAIN found : Uuid(j) = u => j <= k
       IN SubSeq(found[last].data, 3, Len(found[last].data))]

ServiceUuids16(structs) ==
  LET found == OfType(structs, AdUuid16, 2)
      Uuids(data) == [j \in 1..(Len(data) \div 2) |->
                        LittleEndian(SubSeq(data, 2 * j - 1, 2 * j))]
  IN FlattenSeq([k \in DOMAIN found |-> Uuids(found[k].data)])

LocalName(structs) ==
  LET NameOf(type) == OfType(structs, {type}, 0)
      found == First(NameOf(AdNameFull) \o NameOf(AdNameShort))
  IN [k \in DOMAIN found |-> found[k].data]

Flags(structs) ==
  LET found == First(OfType(structs, {AdFlags}, 1))
  IN [k \in DOMAIN found |-> found[k].data[1]]
=============================================================================
