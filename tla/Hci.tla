-------------------------------- MODULE Hci ---------------------------------
(***************************************************************************)
(* untether_bt.hci: from the records of an HCI capture to L2CAP payloads   *)
(* and ATT PDUs.                                                           *)
(*                                                                         *)
(* A record stands for its bytes: "size" of them are in the capture, of    *)
(* which an H4 capture spends one on the indicator.  For an ACL packet the *)
(* header's fields (handle, pb, total) and those of the L2CAP header       *)
(* (claims, cid) are named, "body" is what follows them.                   *)
(***************************************************************************)
EXTENDS Integers, SequencesExt

AttCid == 4          \* CID_ATT
Header == 4          \* bytes of an ACL header, and of an L2CAP header
AtMost(a, b) == IF a < b THEN a ELSE b

\* [x for x in s if Test(x)]
Filtered(s, Test(_)) ==
  FlattenSeq([k \in DOMAIN s |-> IF Test(s[k]) THEN <<s[k]>> ELSE <<>>])

\* Without an H4 indicator the record's flags decide.
KindOf(r, h4) ==
  IF h4 THEN r.kind
  ELSE IF ~r.cmdEvt THEN "acl"
  ELSE IF r.received THEN "event" ELSE "command"

\* Packets are records without the indicator; empty records are left out.
HciPackets(snoop) ==
  LET some == Filtered(snoop.records, LAMBDA r : r.size > 0)
  IN [k \in DOMAIN some |->
       [some[k] EXCEPT !.kind = KindOf(some[k], snoop.h4),
                       !.size = IF snoop.h4 THEN @ - 1 ELSE @]]

\* frag = payload[4 : 4 + total]
FragmentSize(p) == AtMost(p.total, p.size - Header)

AclFragments(packets) ==
  Filtered(packets, LAMBDA p : p.kind = "acl" /\ p.size >= Header)

\* MUTANT: continuation fragments are taken for PDUs as well.
AnyFragment(p) == FragmentSize(p) >= Header

\* The fragments that are decoded: all but continuations (pb 0b01).
StartsPdu(p) == p.pb # 1 /\ FragmentSize(p) >= Header

\* frag[4 : 4 + l2_len]: what the PDU claims, or what this fragment holds of it.
Payload(p) ==
  [id |-> p.id, at |-> p.at, received |-> p.received, handle |-> p.handle,
   cid |-> p.cid,
   bytes |-> SubSeq(p.body, 1, AtMost(p.claims, FragmentSize(p) - Header))]

L2capPayloads(packets) ==
  LET starts == Filtered(AclFragments(packets), StartsPdu)
  IN [k \in DOMAIN starts |-> Payload(starts[k])]

\* Opcodes with a handle and a value; ATT_READ_REQ has a handle alone.
HandleValue == {18, 82, 27, 29}
ReadReq     == 10

AttPdu(p) ==
  LET opcode == Head(p.bytes)
      handled == opcode \in HandleValue \cup {ReadReq} /\ Len(p.bytes) >= 3
  IN [id |-> p.id, at |-> p.at, received |-> p.received, opcode |-> opcode,
      attHandle |-> IF handled THEN p.bytes[2] + 256 * p.bytes[3] ELSE -1,
      value |-> IF ~handled THEN Tail(p.bytes)
                ELSE IF opcode = ReadReq THEN <<>>
                ELSE SubSeq(p.bytes, 4, Len(p.bytes))]

AttPdus(packets) ==
  LET pdus == Filtered(L2capPayloads(packets), LAMBDA p : p.cid = AttCid /\ p.bytes # <<>>)
  IN [k \in DOMAIN pdus |-> AttPdu(pdus[k])]
=============================================================================
