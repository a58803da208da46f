------------------------------- MODULE Rfcomm -------------------------------
(***************************************************************************)
(* untether_bt.rfcomm: RFCOMM frames from and to bytes.                    *)
(***************************************************************************)
EXTENDS Integers, SequencesExt, Bitwise

LastOctet == 255

\* _CRC is the table of the reflected polynomial 0xE0.
CrcStep(c)  == IF c % 2 = 1 THEN (c \div 2) ^^ 224 ELSE c \div 2
CrcTable    == [c \in 0..LastOctet |-> FoldLeft(LAMBDA x, i : CrcStep(x), c, [i \in 1..8 |-> i])]
Crc(fields) == FoldLeft(LAMBDA c, b : CrcTable[c ^^ b], LastOctet, fields)

Fcs(fields) == LastOctet - Crc(fields)
CheckFcs(fields, octet) == CrcTable[Crc(fields) ^^ octet] = 207

-----------------------------------------------------------------------------
\* Fields of the address and control octets

PollFinal(control) == (control \div 16) % 2 = 1
WithoutPf(control) == IF PollFinal(control) THEN control - 16 ELSE control

FrameTypes == 47 :> "SABM" @@ 99 :> "UA" @@ 15 :> "DM" @@ 67 :> "DISC" @@ 239 :> "UIH"
FrameType(control) ==
  IF WithoutPf(control) \in DOMAIN FrameTypes THEN FrameTypes[WithoutPf(control)] ELSE "UNKNOWN"

BuildAddress(channel, direction, cr) == 4 * (2 * channel + direction) + 2 * cr + 1

\* What the FCS covers: without the length for UIH.
Covered(data, type) == IF type = "UIH" THEN SubSeq(data, 1, 2) ELSE SubSeq(data, 1, 3)

-----------------------------------------------------------------------------
\* A frame that begins with the bytes of data, or none: <<frame>> or <<>>.

\* MUTANT: credits are read without a look at the P/F bit.
HasCreditsAlways(type, control, dlci) == type = "UIH" /\ dlci # 0

HasCredits(type, control, dlci) == type = "UIH" /\ PollFinal(control) /\ dlci # 0

ParseRfcomm(data) ==
  IF Len(data) < 4 THEN <<>>
  ELSE
    LET dlci     == data[1] \div 4
        type     == FrameType(data[2])
        short    == data[3] % 2 = 1    \* EA
        length   == data[3] \div 2 + (IF short THEN 0 ELSE 128 * data[4])
        credited == HasCredits(type, data[2], dlci)
        before   == (IF short THEN 3 ELSE 4) + (IF credited THEN 1 ELSE 0)
    IN IF before + length >= Len(data) THEN <<>>
       ELSE <<[dlci |-> dlci, cr |-> (data[1] \div 2) % 2,
               type |-> type, pollFinal |-> PollFinal(data[2]),
               information |-> SubSeq(data, before + 1, before + length),
               credits |-> IF credited THEN data[before] ELSE -1,
               fcsOk |-> CheckFcs(Covered(data, type), data[before + length + 1])]>>

ServerChannel(frame) == frame.dlci \div 2
Direction(frame)     == frame.dlci % 2

IterRfcomm(payloads, requireValidFcs) ==
  LET parsed == FlattenSeq([k \in DOMAIN payloads |-> ParseRfcomm(payloads[k])])
  IN SelectSeq(parsed, LAMBDA f : requireValidFcs => f.fcsOk)

BuildFrame(address, control, information, credits) ==
  LET n      == Len(information)
      length == IF n < 128 THEN <<2 * n + 1>> ELSE <<(2 * n) % 256, n \div 128>>
  IN <<address, control>> \o length \o credits \o information
       \o <<Fcs(Covered(<<address, control>> \o length, FrameType(control)))>>

-----------------------------------------------------------------------------
\* Commands of the multiplexer, in UIH frames on DLCI 0

MuxCommands == 8 :> "TEST" @@ 40 :> "FCON" @@ 24 :> "FCOFF" @@ 56 :> "MSC"
                 @@ 36 :> "RPN" @@ 20 :> "RLS" @@ 32 :> "PN" @@ 4 :> "NSC"

IsMuxControl(frame) == frame.dlci = 0

MuxCommand(frame) ==
  IF ~(IsMuxControl(frame) /\ frame.type = "UIH" /\ frame.information # <<>>) THEN <<>>
  ELSE LET octet == frame.information[1]
           name  == 4 * (octet \div 4)
       IN <<[type |-> IF name \in DOMAIN MuxCommands THEN MuxCommands[name] ELSE "UNKNOWN",
             command |-> (octet \div 2) % 2 = 1,
             value |-> SubSeq(frame.information, 3, Len(frame.information))]>>
=============================================================================
