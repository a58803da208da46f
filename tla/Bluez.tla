-------------------------------- MODULE Bluez -------------------------------
(***************************************************************************)
(* untether_bt.bluez: the channel of the Serial Port among the services    *)
(* that pybluez found (external): [protocol, port, classes].  A class is   *)
(* the hex digits that its UUID is written with; port 0 is none.           *)
(***************************************************************************)
EXTENDS Integers, SequencesExt

SppClass == <<1, 1, 0, 1>>

\* The digits appear somewhere in the class.
IsSpp(service) ==
  \E class \in service.classes :
    \E k \in 1..(Len(class) - 3) : SubSeq(class, k, k + 3) = SppClass

BrowsedSppChannel(services) ==
  LET rfcomm == SelectSeq(services, LAMBDA s : s.protocol = "RFCOMM" /\ s.port # 0)
      best   == SelectSeq(rfcomm, IsSpp) \o rfcomm
  IN IF best = <<>> THEN <<>> ELSE <<best[1].port>>
=============================================================================
