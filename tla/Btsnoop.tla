------------------------------ MODULE Btsnoop -------------------------------
(***************************************************************************)
(* untether_bt.btsnoop: capture files and btsnooz blobs.                   *)
(*                                                                         *)
(* A file is its header's fields, the records the writer has begun, and    *)
(* how many bytes have reached the disk; a record is as in Hci, "size"     *)
(* being its included length.  A blob is what zlib would inflate it to.    *)
(***************************************************************************)
EXTENDS Integers, SequencesExt

CONSTANT EpochDelta   \* BTSNOOP_EPOCH_DELTA_US, here any shift of the origin

FileHeader   == 16
RecordHeader == 24
HciUartH4    == 1002

SumOf(s) == FoldLeft(LAMBDA a, b : a + b, 0, s)

-----------------------------------------------------------------------------
\* btsnoop

\* The offset behind the first k records.
EndOf(records, k) ==
  FileHeader + SumOf([i \in 1..k |-> RecordHeader + records[i].size])

\* MUTANT: a record counts as soon as its header is there.
HeaderThere(file, k) == EndOf(file.records, k) - file.records[k].size <= file.size

\* off + _REC.size <= n, and off + incl <= n behind the header.
IsComplete(file, k) == EndOf(file.records, k) <= file.size

\* Otherwise ValueError.
IsBtsnoop(data) == data.size >= FileHeader /\ data.magic /\ data.version = 1

\* The loop ends at the first record that is not all there.
IterBtsnoop(file) ==
  SubSeq(file.records, 1, Cardinality({k \in DOMAIN file.records : IsComplete(file, k)}))

UnixUs(stamp) == stamp - EpochDelta

ParseBtsnoop(file) ==
  LET records == IterBtsnoop(file)
  IN [h4 |-> file.datalink = HciUartH4,
      records |-> [k \in DOMAIN records |-> [records[k] EXCEPT !.at = UnixUs(@)]]]

WriteBtsnoop(datalink, records) ==
  [magic |-> TRUE, version |-> 1, datalink |-> datalink, records |-> records,
   size |-> EndOf(records, Len(records))]

\* A record is its packet with a stamp of the file's epoch and the two flags.
MakeRecord(packet, unixUs, received, commandOrEvent) ==
  [packet EXCEPT !.at = unixUs + EpochDelta, !.received = received,
                 !.cmdEvt = commandOrEvent]

-----------------------------------------------------------------------------
\* btsnooz

\* snooz type -> what the H4 indicator says
SnoozH4 == 16 :> "event" @@ 17 :> "acl" @@ 18 :> "sco"
             @@ 32 :> "command" @@ 33 :> "acl" @@ 34 :> "sco"
SnoozIn == {16, 17, 18}

IsBtsnooz(data) == data.size >= 9 /\ ~data.magic /\ data.version \in {1, 2}

DeltasTo(entries, k) == SumOf([i \in 1..k |-> entries[i].deltaMs])

\* Times are counted back from the last one, in milliseconds.
TimeMs(blob, k) ==
  blob.lastMs - SumOf([i \in DOMAIN blob.entries |-> blob.entries[i].deltaMs])
    + DeltasTo(blob.entries, k)

\* An indicator is put in front of each packet; entries of other types are skipped.
\* load_btsnoop calls it only for a blob, so what it checks of the header holds; one that
\* zlib cannot inflate or that ends inside an entry's header raises, and there is no
\* capture to say anything of: such blobs are left out.
DecompressBtsnooz(blob) ==
  LET known == SelectSeq([k \in DOMAIN blob.entries |-> k],
                         LAMBDA k : blob.entries[k].type \in DOMAIN SnoozH4)
      RecordOf(k) ==
        LET entry == blob.entries[k]  kind == SnoozH4[entry.type]
        IN MakeRecord([entry.packet EXCEPT !.size = @ + 1, !.kind = kind],
                      TimeMs(blob, k) * 1000, entry.type \in SnoozIn,
                      kind \in {"command", "event"})
  IN WriteBtsnoop(HciUartH4, [j \in DOMAIN known |-> RecordOf(known[j])])

\* What a capture is loaded from: the file, or the file a blob stands for.
AsBtsnoop(data) == IF IsBtsnooz(data) THEN DecompressBtsnooz(data) ELSE data
LoadBtsnoop(data) == ParseBtsnoop(AsBtsnoop(data))
=============================================================================
