----------------------------- MODULE MCNumbers ------------------------------
(***************************************************************************)
(* What is published and looked up in the small instances of Numbers.      *)
(***************************************************************************)
EXTENDS Integers, Sequences

Spelled(digits, hi, lo) ==
  [digits |-> digits, hi |-> hi, lo |-> lo, onBase |-> TRUE,
   prefix |-> FALSE, braces |-> FALSE, upper |-> FALSE]
Vendor(hi, lo) == [Spelled(32, hi, lo) EXCEPT !.onBase = FALSE]

Row(table, uuid, name) == [table |-> table, uuid |-> uuid, name |-> name]

\* 2A37 renamed, 2C06 and 1101 new, a vendor's UUID with 2A37 in it, 2902.
RowTable ==
  { Row("characteristic", [Spelled(4, 0, 10807) EXCEPT !.upper = TRUE], "heart rate"),
    Row("characteristic", [Spelled(4, 0, 11270) EXCEPT !.prefix = TRUE], "new"),
    Row("characteristic", Vendor(0, 10807), "vendor"),
    Row("descriptor", Spelled(4, 0, 10498), "cccd"),
    Row("sdp", Spelled(0, 0, 4353), "serial port"),
    Row("sdp", Spelled(0, 1, 4355), "beyond"),
    Row("protocol", [Spelled(4, 0, 3) EXCEPT !.prefix = TRUE], "rfcomm"),
    Row("company", Spelled(0, 0, 53), "company"), Row("ad", Spelled(0, 0, 51), "type") }

Spellings ==
  {Spelled(0, 0, 10807), Spelled(4, 0, 10807), [Spelled(4, 0, 11270) EXCEPT !.upper = TRUE],
   Spelled(8, 0, 65505), Spelled(8, 18, 10807), Vendor(0, 10807),
   [Spelled(32, 0, 10807) EXCEPT !.braces = TRUE, !.upper = TRUE],
   [Spelled(4, 0, 11270) EXCEPT !.braces = TRUE]}

AskedTable ==
  ({"normalized"} \X Spellings)
  \cup ({"gatt", "sdp", "protocol"} \X
          {[Spelled(32, 0, 4353) EXCEPT !.upper = TRUE], Spelled(0, 0, 3),
           Spelled(0, 0, 10498), Spelled(32, 1, 4355), Vendor(0, 4353)})
  \cup ({"company"} \X {1, 53, 76, 65535}) \cup ({"ad"} \X {1, 51, 255})
  \cup ({"appearance"} \X {0, 832, 833, 1155, 3392, 65535})
  \cup ({"cod"} \X {2097676, 5898764, 8191, 9472, 16777215})

MCRows == RowTable
MCAsked == AskedTable

\* Two characteristics, each in several spellings.
MCSpelt ==
  {Spelled(4, 0, 10807), Spelled(0, 0, 10807),
   [Spelled(32, 0, 10807) EXCEPT !.braces = TRUE, !.upper = TRUE],
   [Spelled(8, 0, 65505) EXCEPT !.upper = TRUE], [Spelled(32, 0, 65505) EXCEPT !.upper = TRUE]}
=============================================================================
