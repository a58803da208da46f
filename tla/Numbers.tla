------------------------------- MODULE Numbers ------------------------------
(***************************************************************************)
(* untether_bt.numbers over tables that tools/gen_assigned_numbers.py      *)
(* regenerates from the registries (external), and normalize_uuid.         *)
(*                                                                         *)
(* A UUID is what was written: an int (digits = 0), or a string of so many *)
(* hex digits, with "0x", braces or capitals or not.  hi and lo are the    *)
(* two halves of its first 32 bits; onBase, that the rest of a full one is *)
(* the base UUID's.  A name of a shipped table is <<table, number>>.       *)
(***************************************************************************)
EXTENDS AssignedNumbers, SequencesExt, FiniteSetsExt

CONSTANTS
  Rows,        \* what the registries may publish: [table, uuid, name]
  Asked,       \* what is looked up: <<function, value>>
  MaxRows      \* bound on the rows published

VARIABLES
  registry,    \* the rows published since the shipped tables were made
  generated,   \* of the module on disk: [asOf, tables], tables beyond the shipped ones
  imported,    \* the same of the module that the process has imported
  label        \* the last answer: <<>>, or <<[question, answer]>>

numbersVars == <<registry, generated, imported, label>>

Shipped ==
     "service" :> GATT_SERVICES @@ "characteristic" :> GATT_CHARACTERISTICS
  @@ "descriptor" :> GATT_DESCRIPTORS @@ "sdp" :> SDP_SERVICE_CLASSES
  @@ "protocol" :> PROTOCOL_IDS @@ "company" :> COMPANY_IDS @@ "ad" :> AD_TYPES

AsShipped == [asOf |-> 0, tables |-> [t \in DOMAIN Shipped |-> <<>>]]

NumbersInit ==
  registry = <<>> /\ generated = AsShipped /\ imported = AsShipped /\ label = <<>>

-----------------------------------------------------------------------------
\* UUIDs

FullUuid(hi, lo) ==
  [digits |-> 32, hi |-> hi, lo |-> lo, onBase |-> TRUE,
   prefix |-> FALSE, braces |-> FALSE, upper |-> FALSE]

IsNumber(uuid) == uuid.digits = 0
Stripped(uuid) == [uuid EXCEPT !.braces = FALSE, !.upper = FALSE]

\* MUTANT: capitals stay.
WithoutBraces(uuid) ==
  IF IsNumber(uuid) THEN FullUuid(uuid.hi, uuid.lo)
  ELSE IF uuid.digits \in {4, 8} /\ ~uuid.prefix THEN FullUuid(uuid.hi, uuid.lo)
  ELSE [uuid EXCEPT !.braces = FALSE]

\* gatt.normalize_uuid; by its length, a string of four or eight has no prefix, but
\* one of "0x" and six digits would.
NormalizeUuid(uuid) ==
  IF IsNumber(uuid) THEN FullUuid(uuid.hi, uuid.lo)
  ELSE IF uuid.digits \in {4, 8} /\ ~uuid.prefix THEN FullUuid(uuid.hi, uuid.lo)
  ELSE Stripped(uuid)

\* uuid128_to_16
Contracted(uuid) ==
  IF Stripped(uuid) = FullUuid(0, uuid.lo) THEN <<uuid.lo>> ELSE <<>>

-----------------------------------------------------------------------------
\* The generator

Number(row) == 65536 * row.uuid.hi + row.uuid.lo

\* A dict comprehension: of the rows of a number the last one stays.
ByNumber(rows) ==
  [n \in {Number(r) : r \in Range(rows)} |->
    rows[Max({k \in DOMAIN rows : Number(rows[k]) = n})].name]

\* MUTANT: "0x" counts as two digits.
BareDigits(rows) ==
  ByNumber(SelectSeq(rows, LAMBDA r : \/ IsNumber(r.uuid) /\ r.uuid.hi = 0
                                      \/ r.uuid.digits \in 1..4 /\ ~r.uuid.prefix))

\* _u16_map: 16-bit entries, whether YAML read a number or JSON a string.
U16Map(rows) ==
  ByNumber(SelectSeq(rows, LAMBDA r : \/ IsNumber(r.uuid) /\ r.uuid.hi = 0
                                      \/ r.uuid.digits \in 1..4))

Publish(row) ==
  /\ Len(registry) < MaxRows
  /\ registry' = Append(registry, row)
  /\ UNCHANGED <<generated, imported, label>>

\* main.  Codes of companies and types of advertising data are numbers already.  The
\* nested tables of appearances and device classes, which it writes too, stay as shipped.
Regenerate ==
  /\ generated.asOf # Len(registry)
  /\ generated' = [asOf |-> Len(registry),
                   tables |-> [t \in DOMAIN Shipped |->
                                 LET rows == SelectSeq(registry, LAMBDA r : r.table = t)
                                 IN IF t \in {"company", "ad"} THEN ByNumber(rows)
                                    ELSE U16Map(rows)]]
  /\ UNCHANGED <<registry, imported, label>>

-----------------------------------------------------------------------------
\* Lookups.  A name that may be missing is a sequence of at most one.

CompanyOverrides == {1}
GattOverrides    == {10498, 65504, 65505, 65520, 65521}   \* 2902, FFE0, FFE1, FFF0, FFF1
SdpOverrides     == {4353}

Named(table, n) ==
  IF n \in DOMAIN imported.tables[table] THEN <<imported.tables[table][n]>>
  ELSE IF n \in Shipped[table] THEN << <<table, n>> >> ELSE <<>>

Overridden(overrides, n, otherwise) ==
  IF n \in overrides THEN << <<"override", n>> >> ELSE otherwise

AtMostOne(names) == SubSeq(names, 1, IF names = <<>> THEN 0 ELSE 1)

\* One lookup over the three GATT tables; the later table wins.
GattName(n) ==
  Overridden(GattOverrides, n,
             AtMostOne(Named("descriptor", n) \o Named("characteristic", n) \o Named("service", n)))

SdpServiceName(n) == Overridden(SdpOverrides, n, Named("sdp", n))
ProtocolName(n)   == Named("protocol", n)
CompanyName(n)    == Overridden(CompanyOverrides, n, Named("company", n))
AdTypeName(n)     == Named("ad", n)

NameIn(namespace, n) ==
  CASE namespace = "sdp"      -> SdpServiceName(n)
    [] namespace = "protocol" -> ProtocolName(n)
    [] OTHER                  -> GattName(n)

DescribeUuid(namespace, uuid) ==
  LET u16 == IF IsNumber(uuid) THEN <<65536 * uuid.hi + uuid.lo>> ELSE Contracted(uuid)
  IN [number |-> u16,
      text   |-> IF u16 # <<>> THEN <<>> ELSE <<[uuid EXCEPT !.upper = FALSE]>>,
      name   |-> IF u16 = <<>> THEN <<>> ELSE NameIn(namespace, u16[1])]

\* Category and subcategory, each by its number.
AppearanceName(value) ==
  LET category == value \div 64
      sub      == value % 64
  IN IF category \notin APPEARANCE_CATEGORIES THEN <<>>
     ELSE <<category>> \o IF category \in DOMAIN APPEARANCE_SUBCATEGORIES
                             /\ sub \in APPEARANCE_SUBCATEGORIES[category] THEN <<sub>> ELSE <<>>

NumberNamed(n, names) == IF n \in names THEN <<n>> ELSE <<>>

ParseClassOfDevice(cod) ==
  LET major == (cod \div 256) % 32
      minor == (cod \div 4) % 64
  IN [services |-> {bit \in COD_MAJOR_SERVICE_CLASSES : (cod \div 2^bit) % 2 = 1},
      major |-> major, minor |-> minor,
      majorName |-> NumberNamed(major, COD_MAJOR_DEVICE_CLASSES),
      minorName |-> IF major \in DOMAIN COD_MINOR_DEVICE_CLASSES
                    THEN NumberNamed(minor, COD_MINOR_DEVICE_CLASSES[major]) ELSE <<>>]

Import ==
  /\ imported # generated
  /\ imported' = generated /\ label' = <<>>
  /\ UNCHANGED <<registry, generated>>

Ask(how, of) ==
  /\ label' = <<[how |-> how, of |-> of,
                 answer |-> CASE how = "company"    -> CompanyName(of)
                              [] how = "ad"         -> AdTypeName(of)
                              [] how = "appearance" -> AppearanceName(of)
                              [] how = "cod"        -> ParseClassOfDevice(of)
                              [] how = "normalized" -> DescribeUuid("gatt", NormalizeUuid(of))
                              [] OTHER              -> DescribeUuid(how, of)]>>
  /\ UNCHANGED <<registry, generated, imported>>

NumbersNext ==
  \/ \E row \in Rows : Publish(row)
  \/ Regenerate \/ Import
  \/ \E question \in Asked : Ask(question[1], question[2])

-----------------------------------------------------------------------------
\* Properties

\* The 16-bit number that a UUID means, however it is written.
Meant(uuid) ==
  IF uuid.hi = 0 /\ (uuid.digits < 32 \/ uuid.onBase) THEN <<uuid.lo>> ELSE <<>>

\* What the registries said when the imported tables were made.
Registered(table, n) ==
  LET said == SelectSeq(SubSeq(registry, 1, imported.asOf),
                        LAMBDA r : r.table = table /\ Meant(r.uuid) = <<n>>)
  IN IF said # <<>> THEN <<Last(said).name>>
     ELSE IF n \in Shipped[table] THEN << <<table, n>> >> ELSE <<>>

ExpectedName(namespace, n) ==
  CASE namespace = "sdp"      -> Overridden(SdpOverrides, n, Registered("sdp", n))
    [] namespace = "protocol" -> Registered("protocol", n)
    [] OTHER -> Overridden(GattOverrides, n, AtMostOne(FlattenSeq(
                  <<Registered("descriptor", n), Registered("characteristic", n),
                    Registered("service", n)>>)))

SumOfBits(bits) == MapThenSumSet(LAMBDA b : 2^b, bits)

\* A label says what the registries said of that very number when the tables were
\* generated, in the namespace asked for, however the UUID is written and the registry
\* wrote it; a vendor's 128-bit UUID is never taken for the 16-bit number inside it.
\* The fields of an appearance and of a class of device give the number back
\* (numbers.py, "distinct namespaces"; gen_assigned_numbers.py _u16_map, "skip vendor
\* 128-bit UUIDs").
LabelsMeanTheNumber ==
  label # <<>> =>
    LET how == label[1].how  of == label[1].of  answer == label[1].answer
    IN CASE how = "company" -> answer = Overridden(CompanyOverrides, of, Registered("company", of))
         [] how = "ad"      -> answer = Registered("ad", of)
         [] how = "appearance" ->
              /\ Len(answer) = 1 => of \div 64 = answer[1]
              /\ Len(answer) = 2 => of = 64 * answer[1] + answer[2]
         [] how = "cod" ->
              of - (of % 4) = SumOfBits(answer.services) + 256 * answer.major + 4 * answer.minor
         [] OTHER ->
              LET namespace == IF how = "normalized" THEN "gatt" ELSE how
              IN /\ answer.number = Meant(of)
                 /\ answer.name = IF Meant(of) = <<>> THEN <<>>
                                  ELSE ExpectedName(namespace, Meant(of)[1])
=============================================================================
