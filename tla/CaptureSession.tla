--------------------------- MODULE CaptureSession ---------------------------
(***************************************************************************)
(* A capture from the phone's stack to the decoded frames: the snoop log   *)
(* that the stack writes (external), the methods of untether_bt.android    *)
(* that enable and pull it, and the views of untether_bt.capture over      *)
(* what was pulled.                                                        *)
(*                                                                         *)
(* The stack logs what it exchanges if the setting was on when it came up. *)
(* Coming up, it keeps the log before as ".last".  Of the file, what has   *)
(* reached the disk may end anywhere.  Whatever the setting, it keeps the  *)
(* latest packets in a ring, for bug reports, as a btsnooz blob.           *)
(***************************************************************************)
EXTENDS Hci, Btsnoop, Rfcomm, Sdp, Bluez

CONSTANTS
  Traffic,     \* what may be exchanged: name -> [cid, bytes, split, kind, ...]
  MaxPackets,  \* bound on the packets of a session
  SnapLength   \* bytes of an L2CAP payload that the ring's version 2 keeps

VARIABLES
  enabling,    \* where enable_hci_snoop is
  setting,     \* bluetooth_hci_log
  up, logging, \* the stack is up; it took the setting when it came up
  sent,        \* what was exchanged since the stack came up last
  seen,        \* packets so far; the clock
  disk,        \* "log" and "last": the records begun, and whole ones flushed
  armed,       \* enable_hci_snoop has restarted Bluetooth and returned
  pulled       \* what the host pulled: <<>>, or <<capture>> and the entries it is of

sessionVars == <<enabling, setting, up, logging, sent, seen, disk, armed, pulled>>

SessionInit ==
  /\ enabling = "idle" /\ setting = FALSE
  /\ up = TRUE /\ logging = FALSE
  /\ sent = <<>> /\ seen = 0
  /\ disk = <<>> /\ armed = FALSE /\ pulled = <<>>

-----------------------------------------------------------------------------
\* Packets.  An entry of the log is what was exchanged and which part of it.

TickUs == 700   \* time between packets

Total(item) == Len(item.bytes) + Header

\* The bytes of an entry: an H4 record of one ACL fragment, or of an event.
PacketOf(entry) ==
  LET item  == entry.item
      first == IF item.split > 0 THEN item.split ELSE Len(item.bytes)
      body  == IF entry.part = 1 THEN SubSeq(item.bytes, 1, first)
               ELSE SubSeq(item.bytes, first + 1, Len(item.bytes))
      total == Len(body) + IF entry.part = 1 THEN Header ELSE 0
  IN MakeRecord(
       [id |-> entry.id, at |-> 0, received |-> FALSE, cmdEvt |-> FALSE, kind |-> item.kind,
        size |-> 1 + Header + total, handle |-> 1, pb |-> IF entry.part = 1 THEN 2 ELSE 1,
        total |-> total, cid |-> item.cid, claims |-> Len(item.bytes), body |-> body],
       TickUs * entry.id, item.received, item.kind \in {"command", "event"})

RecordsIn(entries) == [k \in DOMAIN entries |-> PacketOf(entries[k])]

\* The file on disk: "whole" records of it and a bit of the next, which may end
\* inside its header or inside its data; or not even the header of the file.
Cuts == {"empty", "boundary", "header", "data"}
FileOf(file) ==
  LET records == RecordsIn(file.records)
  IN [WriteBtsnoop(HciUartH4, records) EXCEPT
       !.size = EndOf(records, file.whole)
                  + CASE file.cut = "empty"    -> -1
                      [] file.cut = "boundary" -> 0
                      [] file.cut = "header"   -> RecordHeader - 1
                      [] file.cut = "data"     -> RecordHeader + 1]

\* An entry of the ring: no indicator; version 2 keeps the start of a payload.
SnoozType == "event" :> 16 @@ "acl" :> 17 @@ "command" :> 32 @@ "iso" :> 23
SnoozOut  == 33

RingEntry(entries, k, version) ==
  LET packet == PacketOf(entries[k])
      kept   == IF version = 2 THEN AtMost(Len(packet.body), SnapLength) ELSE Len(packet.body)
      Ms(i)  == (TickUs * entries[i].id) \div 1000
  IN [type |-> IF packet.kind = "acl" /\ ~packet.received THEN SnoozOut
               ELSE SnoozType[packet.kind],
      deltaMs |-> IF k = 1 THEN 0 ELSE Ms(k) - Ms(k - 1),
      packet |-> [packet EXCEPT !.size = @ - 1 - (Len(packet.body) - kept),
                                !.body = SubSeq(@, 1, kept)]]

BlobOf(entries, version) ==
  [magic |-> FALSE, version |-> version, size |-> 9 + Len(entries),
   lastMs |-> (TickUs * Last(entries).id) \div 1000,
   entries |-> [k \in DOMAIN entries |-> RingEntry(entries, k, version)]]

-----------------------------------------------------------------------------
\* The stack

Closed(file) == [file EXCEPT !.whole = Len(file.records), !.cut = "boundary"]

\* Whatever is buffered is written when the stack goes down.
GoesDown ==
  /\ up' = FALSE /\ logging' = FALSE
  /\ disk' = IF logging THEN [disk EXCEPT !["log"] = Closed(@)] ELSE disk
  /\ UNCHANGED sent

ComesUp ==
  /\ up' = TRUE /\ logging' = setting /\ sent' = <<>>
  /\ disk' = IF ~setting THEN disk
             ELSE ("log" :> [records |-> <<>>, whole |-> 0, cut |-> "empty"])
                    @@ (IF "log" \in DOMAIN disk THEN "last" :> disk["log"] ELSE disk)

Exchange(item) ==
  /\ up /\ pulled = <<>>
  /\ LET parts   == IF item.split > 0 THEN 2 ELSE 1
         entries == [i \in 1..parts |-> [id |-> seen + i, item |-> item, part |-> i]]
     IN /\ seen + parts <= MaxPackets
        /\ seen' = seen + parts
        /\ sent' = sent \o entries
        /\ disk' = IF logging THEN [disk EXCEPT !["log"].records = @ \o entries] ELSE disk
  /\ UNCHANGED <<enabling, setting, up, logging, armed, pulled>>

Flush(whole, cut) ==
  /\ logging /\ pulled = <<>>
  /\ whole >= disk["log"].whole /\ cut # "empty"
  /\ whole = Len(disk["log"].records) => cut = "boundary"
  /\ disk' = [disk EXCEPT !["log"].whole = whole, !["log"].cut = cut]
  /\ disk' # disk
  /\ UNCHANGED <<enabling, setting, up, logging, sent, seen, armed, pulled>>

UserTurnsOff ==
  /\ up /\ pulled = <<>>
  /\ GoesDown
  /\ UNCHANGED <<enabling, setting, seen, armed, pulled>>

UserTurnsOn ==
  /\ ~up /\ pulled = <<>>
  /\ ComesUp
  /\ UNCHANGED <<enabling, setting, seen, armed, pulled>>

-----------------------------------------------------------------------------
\* enable_hci_snoop, one adb call after the other

PutSetting(restartBt) ==
  /\ enabling = "idle" /\ pulled = <<>>
  /\ setting' = TRUE
  /\ enabling' = IF restartBt THEN "put" ELSE "returned"
  /\ UNCHANGED <<up, logging, sent, seen, disk, armed, pulled>>

DisableBluetooth ==
  /\ enabling = "put" /\ pulled = <<>>
  /\ enabling' = "disabled"
  /\ GoesDown
  /\ UNCHANGED <<setting, seen, armed, pulled>>

\* MUTANT: Bluetooth is switched on without having been off.
EnableOnly ==
  /\ enabling = "put" /\ pulled = <<>>
  /\ enabling' = "returned" /\ armed' = TRUE
  /\ UNCHANGED <<setting, up, logging, sent, seen, disk, pulled>>

EnableBluetooth ==
  /\ enabling = "disabled" /\ pulled = <<>>
  /\ enabling' = "returned" /\ armed' = TRUE
  /\ IF up THEN UNCHANGED <<up, logging, sent, disk>> ELSE ComesUp
  /\ UNCHANGED <<setting, seen, pulled>>

\* AdbError: what was done stays done, Bluetooth may stay off.
EnableFails ==
  /\ enabling \in {"put", "disabled"} /\ pulled = <<>>
  /\ enabling' = "raised"
  /\ UNCHANGED <<setting, up, logging, sent, seen, disk, armed, pulled>>

-----------------------------------------------------------------------------
\* Pulling; a session ends with it.

Loaded(how, of, data) ==
  /\ \E captured \in {AsBtsnoop(data)} :
       /\ IsBtsnoop(captured)
       /\ pulled' = <<[how |-> how, of |-> of, snoop |-> ParseBtsnoop(captured)]>>
  /\ UNCHANGED <<enabling, setting, up, logging, sent, seen, disk, armed>>

\* pull_btsnoop_path
PullPath ==
  /\ pulled = <<>> /\ "log" \in DOMAIN disk
  /\ \E file \in {FileOf(disk["log"])} : Loaded("log", disk["log"].records, file)

\* MUTANT: the largest log of the zip.
Largest(a, b) == FileOf(disk[a]).size >= FileOf(disk[b]).size

\* The name that ends in btsnoop_hci.log, then the larger one.
Preferred(a, b) ==
  \/ a = "log" /\ b # "log"
  \/ (a = "log") = (b = "log") /\ FileOf(disk[a]).size >= FileOf(disk[b]).size

\* pull_btsnoop: the best of the logs in the bug report; without any, AdbError.
PullBugreport ==
  /\ pulled = <<>>
  /\ \E best \in DOMAIN disk :
       /\ \A b \in DOMAIN disk : Preferred(best, b)
       /\ \E file \in {FileOf(disk[best])} : Loaded(best, disk[best].records, file)

\* The blob of a bug report, given to Capture.from_btsnoop; the ring holds as many
\* packets as fit.
PullBlob(version, ring) ==
  /\ pulled = <<>> /\ ring # <<>>
  /\ \E blob \in {BlobOf(ring, version)} : Loaded("blob", ring, blob)

SessionNext ==
  \/ \E item \in Range(Traffic) : Exchange(item)
  \/ \E whole \in 0..MaxPackets, cut \in Cuts :
       logging /\ whole <= Len(disk["log"].records) /\ Flush(whole, cut)
  \/ \E restartBt \in BOOLEAN : PutSetting(restartBt)
  \/ DisableBluetooth \/ EnableBluetooth \/ EnableFails
  \/ UserTurnsOff \/ UserTurnsOn
  \/ PullPath \/ PullBugreport
  \/ \E version \in 1..2, ring \in Suffixes(sent) : PullBlob(version, ring)

-----------------------------------------------------------------------------
\* Views of a capture

Packets(snoop) == HciPackets(snoop)

\* Every L2CAP payload that is not ATT is tried.
RfcommFrames(packets) ==
  LET candidates == SelectSeq(L2capPayloads(packets), LAMBDA p : p.cid # AttCid)
  IN IterRfcomm([k \in DOMAIN candidates |-> candidates[k].bytes], TRUE)

\* Payloads that begin like a response; two of the exceptions skip a response,
\* the third one ends the call.
SdpRecords(packets) ==
  LET responses == SelectSeq(L2capPayloads(packets),
                             LAMBDA p : p.bytes # <<>> /\ Head(p.bytes) = 7)
      parsed == [k \in DOMAIN responses |-> ParseSsaResponse(responses[k].bytes)]
  IN [raises |-> \E k \in DOMAIN parsed : parsed[k].raises = "TypeError",
      records |-> FlattenSeq([k \in DOMAIN parsed |-> parsed[k].records])]

-----------------------------------------------------------------------------
\* Properties, of what a session pulled

Capture == Head(pulled)
Captured == Packets(Capture.snoop)
EntryOf(packet) == CHOOSE e \in ToSet(sent) : e.id = packet.id
IsWhole(packet) == packet.body = EntryOf(packet).item.bytes

\* The log that is pulled once enable_hci_snoop has restarted Bluetooth is the current
\* one, and its reader gets every record that is whole on the disk, in order, with the
\* time it was logged at, and nothing of the one that is being written ("truncated
\* tail", btsnoop.py iter_btsnoop; android.py enable_hci_snoop and
\* extract_btsnoop_from_zip).
LogReadsBack ==
  armed /\ Capture.how # "blob" =>
    /\ Capture.how = "log"
    /\ LET read == Capture.snoop.records
       IN /\ Len(read) = disk["log"].whole
          /\ \A k \in DOMAIN read :
               read[k].id = sent[k].id /\ read[k].at = TickUs * sent[k].id

\* A btsnooz blob reads like the file would: the ring's packets of known types, in
\* order, with the same direction, and times that are right to the millisecond
\* (btsnoop.py decompress_btsnooz, "relative timing is exact").
BlobReadsBack ==
  Capture.how = "blob" =>
    LET known == SelectSeq(Capture.of, LAMBDA e : e.item.kind # "iso")
        read  == Capture.snoop.records
    IN /\ Len(read) = Len(known)
       /\ \A k \in DOMAIN read :
            LET original == PacketOf(known[k])
            IN /\ read[k].id = original.id
               /\ read[k].received = original.received
               /\ read[k].kind = original.kind
               /\ TickUs * original.id - read[k].at \in 0..999

\* A capture is what was on the air, from whichever source it came: the whole records of
\* the current log, or the packets of the ring (LogReadsBack, BlobReadsBack).
PulledReadsAsLogged == pulled # <<>> => LogReadsBack /\ BlobReadsBack

CaptureIsOfNow == pulled # <<>> /\ (Capture.how = "blob" \/ (armed /\ Capture.how = "log"))

\* The bytes a frame takes are there, of the start of its payload.
HoldsFrame(packet) ==
  EntryOf(packet).item.frame # <<>> /\ Len(packet.body) >= EntryOf(packet).item.needs

\* The reader makes a frame of every payload that begins with one, in order and as it
\* was meant, and of no other: of the RFCOMM frames exchanged it gets those that are
\* whole in their first packet, and nothing of one that was split or cut off, which its
\* length tells (rfcomm.py parse_rfcomm).  Of other payloads it gets nothing unless their
\* first bytes happen to be a frame: the FCS has eight bits, and the response of SDP
\* transaction 0x6301 passes (rfcomm.py iter_rfcomm: a valid FCS is "a strong signal",
\* and no proof).
FramesReadBack ==
  CaptureIsOfNow =>
    LET rfcomm == SelectSeq(AclFragments(Captured), HoldsFrame)
    IN RfcommFrames(Captured)
         = [k \in DOMAIN rfcomm |-> Head(EntryOf(rfcomm[k]).item.frame)]

\* A service as pybluez lists it.
HexDigits(n) == <<n \div 4096, (n \div 256) % 16, (n \div 16) % 16, n % 16>>
Browsed(service) ==
  [protocol |-> "RFCOMM", port |-> service.channel, classes |-> {HexDigits(service.class)}]

\* When all the SDP responses of a capture are whole in one packet and not continued,
\* the SPP channel is that of the first serial port they advertise, or of the first
\* RFCOMM service at all, and browsing the same services live gives the same one
\* (capture.py sdp_records with sdp.py spp_channel; bluez.py, "recover the channel
\* from a capture").
ChannelIsAdvertised ==
  CaptureIsOfNow =>
    LET responses == SelectSeq(AclFragments(Captured),
                       LAMBDA p : EntryOf(p).item.advertises # <<>> /\ p.pb # 1)
        services == FlattenSeq([k \in DOMAIN responses |->
                                  EntryOf(responses[k]).item.advertises])
        serial == SelectSeq(services, LAMBDA s : s.class = SerialPort)
        best == serial \o services
    IN (\A k \in DOMAIN responses :
          IsWhole(responses[k]) /\ ~EntryOf(responses[k]).item.continued)
       => \E found \in {SdpRecords(Captured)} :
            /\ ~found.raises
            /\ SppChannel(found.records)
                 = BrowsedSppChannel([k \in DOMAIN services |-> Browsed(services[k])])
            /\ SppChannel(found.records)
                 = IF best = <<>> THEN <<>> ELSE <<best[1].channel>>
=============================================================================
