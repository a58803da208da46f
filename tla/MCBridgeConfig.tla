--------------------------- MODULE MCBridgeConfig ---------------------------
(***************************************************************************)
(* The entries that are written in the small instances of BridgeConfig.    *)
(***************************************************************************)
EXTENDS Integers, TLC

Address(mac, spelled) == [mac |-> mac, spelled |-> spelled]
Entry(mac, port) == [mac_address |-> Address(mac, "upper"), tcp_port |-> port]

\* Five devices that go together; the first one spelled otherwise; one on its port; an
\* odd number of digits; no port; keys without an address.
EntryTable ==
  { Entry("m1", 8888) @@ [on_open_hex |-> <<0, 1, -1, 10, 15>>],
    Entry("m2", 8889) @@ [channel |-> 30],
    Entry("m3", 8890), Entry("m4", 65535), Entry("m5", 1),
    [mac_address |-> Address("m1", "lower"), tcp_port |-> 9000],
    Entry("m6", 8888),
    Entry("m7", 8892) @@ [on_open_hex |-> <<0, -1, 1, 2>>],
    [mac_address |-> Address("m8", "upper"), channel |-> 2],
    [channel |-> 2] }

MCWritten == EntryTable
=============================================================================
