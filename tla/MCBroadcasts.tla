---------------------------- MODULE MCBroadcasts ----------------------------
(***************************************************************************)
(* What the sensors of the small instances of PassiveSensors broadcast,    *)
(* and the readings they meant.                                            *)
(***************************************************************************)
EXTENDS Integers, SequencesExt, TLC

Structure(type, data) == <<Len(data) + 1, type>> \o data
Le16(n) == <<n % 256, n \div 256>>
NoCompany == [c \in {} |-> <<>>]

\* Flags, manufacturer data, service data if any, and padding.
Sends(company, maker, service, uuid, means) ==
  [info |-> [maker |-> company :> maker,
             service |-> IF service = <<>> THEN NoCompany ELSE uuid :> service],
   raw  |-> Structure(1, <<6>>) \o Structure(255, Le16(company) \o maker)
              \o (IF service = <<>> THEN <<>> ELSE Structure(22, Le16(uuid) \o service))
              \o <<0, 0>>,
   means |-> means]

Reading(temperature, humidity, battery) ==
  <<[temperature |-> temperature, humidity |-> humidity, battery |-> battery]>>

Meter(low, high, humidity, service, means) ==
  Sends(2409, <<176, 233, 254, 1, 2, 3, 7, 15, low, high, humidity, 0>>, service, 64829, means)
Govee(company, maker, means) == Sends(company, maker, <<>>, 0, means)

Table ==
     "warm"    :> Meter(7, 154, 69, <<119, 0, 31>>, Reading(267, 69, 31))
  @@ "frost"   :> Meter(5, 0, 99, <<247, 0, 100>>, Reading(-5, 99, 100))
  @@ "cold"    :> Meter(3, 12, 40, <<119>>, Reading(-123, 40, -1))       \* no battery
  @@ "zero"    :> Meter(0, 128, 0, <<119, 0, 0>>, <<>>)
  @@ "other"   :> Meter(7, 154, 69, <<84, 0, 31>>, <<>>)                 \* another model
  @@ "short"   :> Sends(2409, <<176, 233, 254, 1, 2, 3, 7, 15>>, <<119, 0, 31>>, 64829, <<>>)
  @@ "cut"     :> [Meter(7, 154, 69, <<119, 0, 31>>, <<>>) EXCEPT
                    !.info.service = NoCompany, !.raw = SubSeq(@, 1, 24)]
  @@ "5075"    :> Govee(60552, <<0, 3, 230, 109, 88>>, Reading(255, 597, 88))
  @@ "5075minus" :> Govee(60552, <<0, 128, 74, 28, 228>>, Reading(-18, 972, 100))
  @@ "5104"    :> Govee(1, <<1, 1, 3, 230, 109, 88>>, Reading(255, 597, 88))
  @@ "fault"   :> Govee(60552, <<0, 255, 255, 255, 88>>, <<>>)
  @@ "hot"     :> Govee(60552, <<0, 15, 70, 112, 88>>, <<>>)             \* 100.1 degrees
  @@ "foreign" :> Govee(76, <<2, 21, 3, 230, 109, 88>>, <<>>)

\* Definitions of their own, so that TLC evaluates the table once.
MCBroadcast == Table
MCBroadcasts ==
  "meter" :> {"warm", "frost", "cold", "zero", "other", "short", "cut"}
    @@ "govee" :> {"5075", "5075minus", "5104", "fault", "hot", "foreign"}
=============================================================================
