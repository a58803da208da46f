----------------------------- MODULE MCTraffic ------------------------------
(***************************************************************************)
(* What phones exchange in the small instances of CaptureSession: the      *)
(* bytes, as the stack and the peer build them, and what they mean.        *)
(***************************************************************************)
EXTENDS Rfcomm, Sdp

-----------------------------------------------------------------------------
\* Kinds of traffic

Plain == [kind |-> "acl", received |-> FALSE, cid |-> 4, split |-> 0, bytes |-> <<>>,
          frame |-> <<>>, needs |-> 0, advertises |-> <<>>, continued |-> FALSE]

\* An RFCOMM frame, what its reader should make of it, and of how many bytes.
FrameItem(channel, control, information, credits) ==
  LET bytes == BuildFrame(BuildAddress(channel, 0, 1), control, information, credits)
  IN [Plain EXCEPT
       !.cid   = 64,
       !.bytes = bytes,
       !.needs = Len(bytes),
       !.frame = <<[dlci |-> 2 * channel, cr |-> 1, type |-> FrameType(control),
                    pollFinal |-> PollFinal(control), information |-> information,
                    credits |-> IF credits = <<>> THEN -1 ELSE credits[1],
                    fcsOk |-> TRUE]>>]

\* Data elements of a service record.
U8(n)    == <<8, n>>
U16(n)   == <<9, n \div 256, n % 256>>
Uuid(n)  == <<25, n \div 256, n % 256>>
Uuid128(n) == <<28, 0, 0, n \div 256, n % 256>> \o Base128
Text(n)  == <<37, n>> \o [i \in 1..n |-> 65]
List(items) == LET bytes == FlattenSeq(items) IN <<53, Len(bytes)>> \o bytes

Protocols(channel) == List(<<List(<<Uuid(256)>>), List(<<Uuid(RfcommUuid), U8(channel)>>)>>)
Service(class, channel) ==
  List(<<U16(ServiceClassIdList), List(<<class>>),
         U16(ProtocolDescriptorList), Protocols(channel), U16(256), Text(2)>>)

\* A response with the services, whole or continued after some bytes.
Response(services) == List(services)
SdpItem(txid, bytes, count, continuation, advertises) ==
  [Plain EXCEPT
    !.cid = 65, !.received = TRUE, !.advertises = advertises,
    !.continued = continuation # <<0>>,
    !.bytes = <<7, txid \div 256, txid % 256, 0, count + 2 + Len(continuation), 0, count>>
                \o SubSeq(bytes, 1, count) \o continuation]

-----------------------------------------------------------------------------

HandsFree == Service(Uuid(4382), 9)              \* 0x111E, listed before the serial port
Serial    == Service(Uuid128(SerialPort), 4)
Both      == Response(<<HandsFree, Serial>>)
Offered   == <<[class |-> 4382, channel |-> 9], [class |-> SerialPort, channel |-> 4]>>
OnlyHf    == Response(<<HandsFree>>)

\* Transaction 0x6301: the response begins like an acknowledgement of channel 0, with
\* the FCS such a frame has.
Alike ==
  [SdpItem(25345, OnlyHf, Len(OnlyHf), <<0>>, SubSeq(Offered, 1, 1)) EXCEPT
    !.frame = <<[dlci |-> 1, cr |-> 1, type |-> "UA", pollFinal |-> FALSE,
                 information |-> <<>>, credits |-> -1, fcsOk |-> TRUE]>>,
    !.needs = 4]

Exchanges ==
     "open"   :> FrameItem(4, 63, <<>>, <<>>)                        \* SABM
  @@ "data"   :> FrameItem(4, 239, <<1, 2, 3>>, <<>>)
  @@ "credit" :> FrameItem(4, 255, <<7>>, <<5>>)
  @@ "long"   :> FrameItem(4, 239, [i \in 1..130 |-> 7], <<>>)
  @@ "split"  :> [FrameItem(4, 239, [i \in 1..9 |-> i], <<>>) EXCEPT !.split = 7]
  @@ "both"   :> SdpItem(1, Both, Len(Both), <<0>>, Offered)
  @@ "handsfree" :> SdpItem(1, OnlyHf, Len(OnlyHf), <<0>>, SubSeq(Offered, 1, 1))
  @@ "alike"  :> Alike
  @@ "more"   :> SdpItem(1, Both, 2, <<1, 9>>, Offered)                \* continued
  @@ "rest"   :> [SdpItem(1, SubSeq(Both, 3, Len(Both)), Len(Both) - 2, <<0>>, Offered)
                   EXCEPT !.continued = TRUE]
  @@ "write"  :> [Plain EXCEPT !.bytes = <<82, 42, 0, 1>>]
  @@ "iso"    :> [Plain EXCEPT !.kind = "iso", !.bytes = <<1, 2>>]
  @@ "event"  :> [Plain EXCEPT !.kind = "event", !.received = TRUE, !.bytes = <<5>>]

\* A definition of its own, so that TLC evaluates the table once.
MCTraffic == Exchanges
=============================================================================
