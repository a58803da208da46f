--------------------------- MODULE SensorProtocols --------------------------
(***************************************************************************)
(* The two protocol.py of the example integrations: what a SwitchBot       *)
(* Outdoor Meter and a Govee thermo-hygrometer broadcast.                  *)
(*                                                                         *)
(* Manufacturer data is a function from company ids to bytes, service data *)
(* one from UUIDs.  A reading is <<r>>, "not ours" is <<>>; temperatures   *)
(* and Govee's humidity are in tenths; NoBattery is None.                  *)
(***************************************************************************)
EXTENDS Integers, SequencesExt

NoBattery == -1

-----------------------------------------------------------------------------
\* switchbot_outdoor_meter.protocol

MeterCompany == 2409      \* 0x0969
MeterService == 64829     \* 0xFD3D
ModelChars   == {119, 87} \* "w", "W"

\* The high bit of the model byte is a flag.
IsOutdoorMeter(service) == service # <<>> /\ service[1] % 128 \in ModelChars

\* MUTANT: the degrees carry the sign, the tenths do not.
SignOfDegrees(low, high) ==
  (IF high >= 128 THEN 1 ELSE -1) * 10 * (high % 128) + (low % 16)

MeterTemperature(low, high) ==
  (IF high >= 128 THEN 1 ELSE -1) * (10 * (high % 128) + (low % 16))

\* ParseError is <<>>.
ParseMeter(maker, service) ==
  IF ~IsOutdoorMeter(service) \/ Len(maker) < 11 THEN <<>>
  ELSE
    LET temperature == MeterTemperature(maker[9], maker[10])
        humidity    == maker[11] % 128
        battery     == IF Len(service) >= 3 THEN service[3] % 128 ELSE NoBattery
    IN IF temperature = 0 /\ humidity = 0 /\ battery \in {NoBattery, 0} THEN <<>>
       ELSE <<[address |-> SubSeq(maker, 1, 6), sequence |-> maker[7],
               fahrenheit |-> (maker[8] \div 8) % 2 = 0,
               temperature |-> temperature, humidity |-> humidity, battery |-> battery]>>

\* coordinator.parse_service_info: both parts must be there.
ParseServiceInfo(info) ==
  IF MeterCompany \in DOMAIN info.maker /\ MeterService \in DOMAIN info.service
  THEN ParseMeter(info.maker[MeterCompany], info.service[MeterService])
  ELSE <<>>

-----------------------------------------------------------------------------
\* govee_ble_re.protocol

CompanyH5075 == 60552     \* 0xEC88
CompanyH5104 == 1
Fault        == 16777215
SignBit      == 8388608

\* The value is 1000 * temperature + humidity, in tenths each.
DecodePackedTh(packed) ==
  LET raw      == 65536 * packed[1] + 256 * packed[2] + packed[3]
      value    == raw % SignBit
      degrees  == value \div 1000
      temperature == IF raw >= SignBit THEN -degrees ELSE degrees
  IN IF raw = Fault \/ temperature \notin -400..1000 THEN <<>>
     ELSE <<[temperature |-> temperature, humidity |-> value % 1000]>>

\* A record of the family: the packed value at an offset, the battery behind it.
GoveeRecord(maker, company, offset, model) ==
  IF company \notin DOMAIN maker \/ Len(maker[company]) < offset + 4 THEN <<>>
  ELSE
    LET data == maker[company]
        th   == DecodePackedTh(SubSeq(data, offset + 1, offset + 3))
    IN [k \in DOMAIN th |->
          [model |-> model, temperature |-> th[k].temperature, humidity |-> th[k].humidity,
           battery |-> data[offset + 4] % 128]]

ParseAdvertisement(maker) ==
  LET h5075 == GoveeRecord(maker, CompanyH5075, 1, "H5075")
  IN IF h5075 # <<>> THEN h5075 ELSE GoveeRecord(maker, CompanyH5104, 2, "H5104")
=============================================================================
