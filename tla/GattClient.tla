----------------------------- MODULE GattClient -----------------------------
(***************************************************************************)
(* untether_bt.gatt.GattClient over a bleak client (external), which knows *)
(* the peripheral's characteristics by their full lower-case UUIDs, keeps  *)
(* one callback for each, and forgets them when the link goes.             *)
(***************************************************************************)
EXTENDS Numbers

CONSTANTS
  Peripheral,   \* the characteristics of the peripheral, by number
  Spelt,        \* how the caller writes UUIDs
  Callbacks

\* No characteristic has number 0, and nobody's callback is "caller".
ASSUME PeripheralAssumption == Peripheral \subseteq Nat \ {0} /\ "caller" \notin Callbacks

\* The caller means characteristics of the peripheral, by a number, by four or eight
\* digits, or by all of them, in capitals or braces or not.
ASSUME SpellingAssumption ==
  \A uuid \in Spelt :
    /\ uuid.hi = 0 /\ uuid.lo \in Peripheral /\ Meant(uuid) = <<uuid.lo>>
    /\ \/ IsNumber(uuid)
       \/ uuid.digits \in {4, 8} /\ ~uuid.prefix
       \/ Stripped(uuid) = FullUuid(0, uuid.lo)

VARIABLES
  client,       \* "none", "made"
  gattUp,
  notifying,    \* bleak's callbacks: UUID -> callback
  asked,        \* what the caller subscribed to: number -> callback
  called,       \* the last notification: [of, to]: the characteristic and who was told
  gattRaised    \* how the last call ended: "no", "unknown characteristic", "other"

gattVars == <<client, gattUp, notifying, asked, called, gattRaised>>

NoCalls == [c \in {} |-> {}]
NothingCalled == [of |-> 0, to |-> {}]

GattInit ==
  /\ client = "none" /\ gattUp = FALSE
  /\ notifying = NoCalls /\ asked = NoCalls
  /\ called = NothingCalled /\ gattRaised = "no"

With(f, x, y) == [z \in DOMAIN f \cup {x} |-> IF z = x THEN y ELSE f[z]]
Without(f, x) == [y \in DOMAIN f \ {x} |-> f[y]]
Known == {FullUuid(0, n) : n \in Peripheral}
NumberOf(uuid) == Meant(uuid)[1]

Outcome(uuid, works) ==
  gattRaised' = IF gattUp /\ NormalizeUuid(uuid) \notin Known THEN "unknown characteristic"
                ELSE IF works THEN "no" ELSE "other"

\* bleak is imported the first time; connecting may fail.
Connect ==
  /\ ~gattUp
  /\ client' = "made"
  /\ gattUp' \in BOOLEAN
  /\ gattRaised' = IF gattUp' THEN "no" ELSE "other"
  /\ called' = NothingCalled
  /\ UNCHANGED <<notifying, asked>>

LinkEnds ==
  /\ gattUp' = FALSE
  /\ notifying' = NoCalls /\ asked' = NoCalls /\ called' = NothingCalled

Disconnect ==
  /\ client = "made" /\ gattUp
  /\ LinkEnds
  /\ gattRaised' = "no"
  /\ UNCHANGED client

LinkLost ==
  /\ gattUp
  /\ LinkEnds
  /\ UNCHANGED <<client, gattRaised>>

\* A second subscription to a characteristic is bleak's to refuse.
Subscribe(uuid, callback) ==
  /\ client = "made"
  /\ LET canonical == NormalizeUuid(uuid)
         works == gattUp /\ canonical \in Known \ DOMAIN notifying
     IN /\ Outcome(uuid, works)
        /\ notifying' = IF works THEN With(notifying, canonical, callback) ELSE notifying
        /\ asked' = IF works THEN With(asked, NumberOf(uuid), callback) ELSE asked
  /\ called' = NothingCalled
  /\ UNCHANGED <<client, gattUp>>

Unsubscribe(uuid) ==
  /\ client = "made"
  /\ LET canonical == NormalizeUuid(uuid)
         works == gattUp /\ canonical \in Known
     IN /\ Outcome(uuid, works)
        /\ notifying' = IF works THEN Without(notifying, canonical) ELSE notifying
        /\ asked' = IF works THEN Without(asked, NumberOf(uuid)) ELSE asked
  /\ called' = NothingCalled
  /\ UNCHANGED <<client, gattUp>>

\* read and write; called stands for the characteristic that was reached.
ReadOrWrite(uuid) ==
  /\ client = "made"
  /\ LET works == gattUp /\ NormalizeUuid(uuid) \in Known
     IN /\ Outcome(uuid, works)
        /\ called' = IF works THEN [of |-> NormalizeUuid(uuid).lo, to |-> {"caller"}]
                     ELSE NothingCalled
  /\ UNCHANGED <<client, gattUp, notifying, asked>>

Notify(n) ==
  /\ gattUp
  /\ called' = [of |-> n, to |-> IF FullUuid(0, n) \in DOMAIN notifying
                                 THEN {notifying[FullUuid(0, n)]} ELSE {}]
  /\ gattRaised' = "no"
  /\ UNCHANGED <<client, gattUp, notifying, asked>>

GattNext ==
  \/ Connect \/ Disconnect \/ LinkLost
  \/ \E uuid \in Spelt :
       \/ \E callback \in Callbacks : Subscribe(uuid, callback)
       \/ Unsubscribe(uuid) \/ ReadOrWrite(uuid)
  \/ \E n \in Peripheral : Notify(n)

-----------------------------------------------------------------------------
\* Properties

\* In each of the spellings normalize_uuid takes (a number, four or eight digits, the
\* whole UUID, in braces or capitals) a characteristic is the same one to every call:
\* the peripheral's are never unknown, at most one callback is subscribed to each, the
\* one that was asked for last, and it alone is told, until the characteristic is
\* unsubscribed in any of them (gatt.py, "normalizing 16-bit <-> 128-bit UUIDs").
OneUuidOneSubscription ==
  /\ gattRaised # "unknown characteristic"
  /\ {u.lo : u \in DOMAIN notifying} = DOMAIN asked
  /\ Cardinality(DOMAIN notifying) = Cardinality(DOMAIN asked)
  /\ called.to \ {"caller"} =
       IF called.of \in DOMAIN asked /\ "caller" \notin called.to
       THEN {asked[called.of]} ELSE {}
=============================================================================
