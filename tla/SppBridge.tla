----------------------------- MODULE SppBridge ------------------------------
(***************************************************************************)
(* untether_bt.spp, SppBridge and AsyncSppBridge: a request/response client *)
(* of a bridge.  A request sends a frame and collects, for a window of     *)
(* time, the frames found in whatever bytes come in; what is left of a     *)
(* partial frame is kept for the next window.                              *)
(*                                                                         *)
(* The device side of the connection is a sequence of items: whole frames, *)
(* frames cut short (the bridge drops bytes it has no room for) and noise. *)
(* TCP delivers their bytes in chunks of any size.                         *)
(***************************************************************************)
EXTENDS Framing

CONSTANTS
  Replies,        \* what a request may make the device send: sequences of items
  MaxItems        \* bound: items on one connection

VARIABLES
  sock,        \* _sock: none, up, ended by the peer, or broken
  leftover,    \* _leftover
  window,      \* is read_frames collecting?
  out,         \* the frames it has collected
  returned,    \* frames returned to callers on this connection
  items,       \* what the device has sent on this connection
  seen         \* how many bytes of it the client has received

vars == <<framing, sock, leftover, window, out, returned, items, seen>>

\* Items
Whole(frame) == [kind |-> "frame", frame |-> frame]
Cut(frame, n) == [kind |-> "cut", frame |-> frame, length |-> n]
Noise(bytes) == [kind |-> "noise", bytes |-> bytes]

Item == [kind : {"frame"}, frame : AFrame] \cup [kind : {"cut"}, frame : AFrame, length : Nat]
          \cup [kind : {"noise"}, bytes : Seq(Byte)]

ASSUME ClientAssumption == MaxItems \in Nat /\ Replies \subseteq Seq(Item)

BytesOf(item) ==
  CASE item.kind = "frame" -> Build(item.frame)
    [] item.kind = "cut" -> LET b == Build(item.frame) IN Take(b, Min({item.length, Len(b)}))
    [] item.kind = "noise" -> item.bytes

\* What the first n items are on the wire.
Wire(n) == FlattenSeq([k \in 1..n |-> BytesOf(items[k])])
Stream == Wire(Len(items))
Received == Take(Stream, seen)

TypeOK ==
  /\ framing \in Framings
  /\ sock \in {"none", "up", "ended", "broken"}
  /\ leftover \in Seq(Byte)
  /\ window \in BOOLEAN
  /\ {out, returned} \subseteq Seq(AFrame)
  /\ out # <<>> => window
  /\ seen \in 0..Len(Stream)
  /\ items \in Seq(Item) /\ Len(items) <= MaxItems

Init ==
  /\ framing \in Framings
  /\ sock = "none" /\ leftover = <<>>
  /\ window = FALSE /\ out = <<>> /\ returned = <<>>
  /\ items = <<>> /\ seen = 0

-----------------------------------------------------------------------------
\* The client

Connect ==
  /\ ~window
  /\ sock' = "up" /\ leftover' = <<>>
  /\ items' = <<>> /\ seen' = 0 /\ returned' = <<>>
  /\ UNCHANGED <<framing, window, out>>

\* request: send the frame, which the device may answer, now or later; then
\* read_frames.
Request ==
  /\ sock \in {"up", "ended"} /\ ~window
  /\ window' = TRUE
  /\ \E reply \in Replies \cup {<<>>} :
       /\ sock = "ended" => reply = <<>>
       /\ Len(items) + Len(reply) <= MaxItems
       /\ items' = items \o reply
  /\ UNCHANGED <<framing, sock, leftover, out, returned, seen>>

\* MUTANT: the partial frame of the last chunk is not put before this one.
RecvFresh(n) ==
  LET parsed == IterFrames(SubSeq(Stream, seen + 1, seen + n))
  IN /\ window /\ sock \in {"up", "ended"}
     /\ out' = out \o parsed.frames
     /\ leftover' = parsed.rest
     /\ seen' = seen + n
     /\ UNCHANGED <<framing, sock, window, returned, items>>

\* recv returns n bytes.
Recv(n) ==
  LET parsed == IterFrames(leftover \o SubSeq(Stream, seen + 1, seen + n))
  IN /\ window /\ sock \in {"up", "ended"}
     /\ out' = out \o parsed.frames
     /\ leftover' = parsed.rest
     /\ seen' = seen + n
     /\ UNCHANGED <<framing, sock, window, returned, items>>

\* The window is over, or recv has found the end of the stream.
WindowEnds ==
  /\ window
  /\ window' = FALSE
  /\ returned' = returned \o out
  /\ out' = <<>>
  /\ UNCHANGED <<framing, sock, leftover, seen, items>>

\* recv or send raises: what the window has collected is lost with it.
Breaks ==
  /\ sock \in {"up", "ended"}
  /\ sock' = "broken"
  /\ window' = FALSE /\ out' = <<>>
  /\ UNCHANGED <<framing, leftover, returned, seen, items>>

Close ==
  /\ sock # "none" /\ ~window
  /\ sock' = "none"
  /\ UNCHANGED <<framing, leftover, window, out, returned, seen, items>>

-----------------------------------------------------------------------------
\* The device and the bridge

\* The device speaks without being asked.
Speaks ==
  /\ sock = "up"
  /\ \E reply \in Replies :
       /\ Len(items) + Len(reply) <= MaxItems
       /\ items' = items \o reply
  /\ UNCHANGED <<framing, sock, leftover, window, out, returned, seen>>

PeerEnds ==
  /\ sock = "up"
  /\ sock' = "ended"
  /\ UNCHANGED <<framing, leftover, window, out, returned, seen, items>>

Next ==
  \/ Connect \/ Request \/ WindowEnds \/ Breaks \/ Close
  \/ \E n \in 1..(Len(Stream) - seen) : Recv(n)
  \/ Speaks \/ PeerEnds

Spec == Init /\ [][Next]_vars

-----------------------------------------------------------------------------
\* Properties

Usable == sock \in {"up", "ended"}

\* However TCP cuts the stream and whenever windows end, callers get what one call of
\* iter_frames makes of all the bytes of this connection, and the same partial frame is
\* kept (spp.py read_frames with framing.py iter_frames); without stuffing that is
\* shorter than the longest frame, whatever the noise ("max_frame: reject implausibly
\* large LEN", framing.py Framing).
ChunksDoNotMatter ==
  Usable =>
    /\ Parsed(returned \o out, leftover) = IterFrames(Received)
    /\ ~Stuffed => Len(leftover) <= 1 + LenBytes + MaxFrame - Counted + CrcBytes

\* Item k has been received to its last byte.
Complete(k) == Len(Wire(k)) <= seen

\* The frames of the items in ks, in the order of the items.
FramesOf(ks) ==
  FlattenSeq([k \in DOMAIN items |-> IF k \in ks THEN <<items[k].frame>> ELSE <<>>])

\* The whole frames that have come in and that the parser accepts: the one without
\* stuffing takes a body no longer than the CRC, where LEN does not count the CRC, for
\* no frame at all.
WholeFrames ==
  {k \in DOMAIN items :
     /\ items[k].kind = "frame" /\ Complete(k)
     /\ Stuffed \/ 1 + Len(items[k].frame.args) + Counted >= 1 + CrcBytes}

\* Noise that looks like no frame, and frames that are not cut short.
Quiet(k) == items[k].kind = "noise" => Soi \notin ToSet(items[k].bytes)
Uncut(k) == items[k].kind # "cut"

\* Between noise that looks like no frame, callers have got exactly the frames that
\* have come in whole, in order ("Split a byte buffer into complete frames",
\* framing.py iter_frames).
Delivered ==
  Usable /\ (\A k \in DOMAIN items : Quiet(k) /\ Uncut(k)) =>
    returned \o out = FramesOf(WholeFrames)

\* A frame cut short costs a stuffed stream no more than the one frame after it
\* ("each frame is the bytes between an SOI and the next EOI", _iter_stuffed).
RecoversAfterCut ==
  Usable /\ Stuffed /\ (\A k \in DOMAIN items : items[k].kind # "noise") =>
    returned \o out = FramesOf({k \in WholeFrames : k = 1 \/ Uncut(k - 1)})
=============================================================================
