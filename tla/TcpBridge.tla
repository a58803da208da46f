----------------------------- MODULE TcpBridge ------------------------------
(***************************************************************************)
(* The data path of one bridged device: its RFCOMM link on one side, its   *)
(* TCP server with a single client slot on the other.                      *)
(*                                                                         *)
(* The loop task runs tcp_service_, here one action per socket or ring     *)
(* buffer call, with pc between them; the Bluedroid task runs              *)
(* on_spp_event, one action per callback, at any point in between.         *)
(* Bytes are numbered in the order in which their sender produced them.    *)
(***************************************************************************)
EXTENDS Naturals, SequencesExt

CONSTANTS
  RingCap,     \* RB_SIZE: bytes the ring buffer holds
  SockCap,     \* bytes the client's TCP connection holds towards the client
  Chunk,       \* TCP_RX, and the largest DATA_IND
  MaxDown,     \* bound: bytes the device produces
  MaxUp        \* bound: bytes the clients produce

ASSUME BoundsAssumption ==
  /\ {RingCap, SockCap, Chunk} \subseteq Nat \ {0}
  /\ {MaxDown, MaxUp} \subseteq Nat

VARIABLES
  listening,   \* listen_fd >= 0
  slot,        \* client_fd, with the state of the client at its other end
  queue,       \* connections in the listen backlog
  pc,          \* where tcp_service_ is
  buf,         \* bytes recv'd and not yet written to the link
  ring,        \* rb_in
  wire,        \* bytes sent to the client and not read yet
  inbox,       \* bytes from the client and not recv'd yet
  open,        \* spp_open
  congested,   \* spp_congested
  stalled,     \* stack: the link has no credit and has said so
  down, up,    \* bytes produced so far by the device and by the clients
  toClient,    \* bytes clients have read
  toDevice,    \* bytes the device has received
  unsent,      \* history: bytes whose write the stack refused, or failed later
  broken       \* history: has a link or a client's connection ever broken?

server == <<listening, slot, queue>>
link == <<open, congested, stalled>>
vars == <<listening, slot, queue, pc, buf, ring, wire, inbox,
          open, congested, stalled, down, up, toClient, toDevice, unsent, broken>>

Bytes == Seq(Nat)

TypeOK ==
  /\ listening \in BOOLEAN
  /\ slot \in {"none", "live", "left", "reset"}
  /\ queue \in 0..1
  /\ pc \in {"top", "drain", "uplink", "write", "refused"}
  /\ ring \in Bytes /\ Len(ring) <= RingCap
  /\ wire \in Bytes /\ Len(wire) <= SockCap
  /\ buf \in Bytes /\ Len(buf) <= Chunk
  /\ inbox \in Bytes /\ toClient \in Bytes /\ toDevice \in Bytes
  /\ {open, congested, stalled, broken} \subseteq BOOLEAN
  /\ unsent \subseteq Nat
  /\ down \in 0..MaxDown /\ up \in 0..MaxUp
  /\ slot = "none" => pc = "top"
  /\ buf # <<>> <=> pc = "write"

Least(a, b) == IF a < b THEN a ELSE b
Take(s, n) == SubSeq(s, 1, n)
Drop(s, n) == SubSeq(s, n + 1, Len(s))
NewBytes(from, n) == [i \in 1..n |-> from + i]

-----------------------------------------------------------------------------
(* tcp_service_ in the loop task.                                          *)

\* MUTANT: the socket is closed but client_fd is not reset.
FreeSlotForgets == UNCHANGED <<slot, wire, inbox>>

\* The slot becomes free: close(client_fd), client_fd = -1.
FreeSlot == slot' = "none" /\ wire' = <<>> /\ inbox' = <<>>
KeepSlot == UNCHANGED <<slot, wire, inbox>>

\* tcp_setup_, retried on the next pass when a socket call fails.
Setup ==
  /\ pc = "top"
  /\ ~listening
  /\ listening' \in BOOLEAN
  /\ UNCHANGED <<slot, queue, pc, buf, ring, wire, inbox, link, down, up, toClient, toDevice, unsent, broken>>

Accept ==
  /\ pc = "top"
  /\ listening
  /\ slot = "none"
  /\ queue > 0
  /\ queue' = queue - 1
  /\ slot' = "live"
  /\ UNCHANGED <<listening, pc, buf, ring, wire, inbox, link, down, up, toClient, toDevice, unsent, broken>>

\* A pass with a client in the slot.
Enter ==
  /\ pc = "top"
  /\ listening
  /\ slot # "none"
  /\ pc' = "drain"
  /\ UNCHANGED <<server, buf, ring, wire, inbox, link, down, up, toClient, toDevice, unsent, broken>>

\* MUTANT: the item is returned to the ring although it was sent.
DrainTwice ==
  /\ pc = "drain"
  /\ slot = "live"
  /\ \E n \in 1..Len(ring) :
       LET m == Least(n, SockCap - Len(wire)) IN
       /\ wire' = wire \o Take(ring, m)
       /\ pc' = IF m = 0 THEN "uplink" ELSE "drain"
  /\ UNCHANGED <<server, buf, ring, inbox, link, down, up, toClient, toDevice, unsent, broken>>

\* Receive an item from the ring (up to n bytes, as the buffer wraps), send it and
\* return it.  What the socket has no room for is gone.
Drain ==
  /\ pc = "drain"
  /\ slot = "live"
  /\ \E n \in 1..Len(ring) :
       LET m == Least(n, SockCap - Len(wire)) IN
       /\ wire' = wire \o Take(ring, m)
       /\ ring' = Drop(ring, n)
       /\ pc' = IF m = 0 THEN "uplink" ELSE "drain"
  /\ UNCHANGED <<server, buf, inbox, link, down, up, toClient, toDevice, unsent, broken>>

\* The same to a client that is gone.  One that has only closed its own side takes
\* the bytes, or answers them with a reset; then send fails.
DrainToNobody ==
  /\ pc = "drain"
  /\ \E n \in 1..Len(ring) : ring' = Drop(ring, n)
  /\ \/ slot = "left" /\ KeepSlot /\ UNCHANGED <<pc, broken>>
     \/ slot = "left" /\ slot' = "reset" /\ inbox' = <<>> /\ broken' = TRUE /\ UNCHANGED <<wire, pc>>
     \/ slot = "reset" /\ FreeSlot /\ pc' = "top" /\ UNCHANGED broken
  /\ UNCHANGED <<listening, queue, buf, link, down, up, toClient, toDevice, unsent>>

DrainDone ==
  /\ pc = "drain"
  /\ ring = <<>>
  /\ pc' = "uplink"
  /\ UNCHANGED <<server, buf, ring, wire, inbox, link, down, up, toClient, toDevice, unsent, broken>>

\* The link can take data: recv a chunk, or nothing, or find the client gone.
Recv ==
  /\ pc = "uplink"
  /\ open /\ ~congested
  /\ \/ /\ inbox # <<>>
        /\ buf' = Take(inbox, Least(Chunk, Len(inbox)))
        /\ inbox' = Drop(inbox, Len(buf'))
        /\ pc' = "write"
        /\ UNCHANGED <<slot, wire>>
     \/ /\ inbox = <<>> /\ slot = "live"
        /\ pc' = "top"
        /\ KeepSlot /\ UNCHANGED buf
     \/ /\ inbox = <<>> /\ slot # "live"
        /\ pc' = "top"
        /\ FreeSlot /\ UNCHANGED buf
  /\ UNCHANGED <<listening, queue, ring, link, down, up, toClient, toDevice, unsent, broken>>

\* MUTANT: the probe consumes the byte it looks at.
ProbeConsumes ==
  /\ pc = "uplink"
  /\ ~(open /\ ~congested)
  /\ pc' = "top"
  /\ IF inbox = <<>> /\ slot # "live"
     THEN FreeSlot
     ELSE inbox' = Drop(inbox, Least(1, Len(inbox))) /\ UNCHANGED <<slot, wire>>
  /\ UNCHANGED <<listening, queue, buf, ring, link, down, up, toClient, toDevice, unsent, broken>>

\* MUTANT: nothing is done while the link cannot take data.
ProbeNothing ==
  /\ pc = "uplink"
  /\ ~(open /\ ~congested)
  /\ pc' = "top"
  /\ UNCHANGED <<server, buf, ring, wire, inbox, link, down, up, toClient, toDevice, unsent, broken>>

\* The link is down or congested: look at one byte without consuming it.
Probe ==
  /\ pc = "uplink"
  /\ ~(open /\ ~congested)
  /\ pc' = "top"
  /\ IF inbox = <<>> /\ slot # "live" THEN FreeSlot ELSE KeepSlot
  /\ UNCHANGED <<listening, queue, buf, ring, link, down, up, toClient, toDevice, unsent, broken>>

\* esp_spp_write of the chunk to spp_handle, which is 0 if the link went down.  The
\* stack sends it; or it fails, which it says at once (refused) or only in the
\* status of a WRITE event, which nobody looks at.  recv has taken the bytes, so
\* they are lost either way.
Write ==
  /\ pc = "write"
  /\ buf' = <<>>
  /\ \/ open /\ toDevice' = toDevice \o buf /\ pc' = "top" /\ UNCHANGED unsent
     \/ /\ unsent' = unsent \cup ToSet(buf)
        /\ pc' \in {"top", "refused"}
        /\ UNCHANGED toDevice
  /\ UNCHANGED <<server, ring, wire, inbox, link, down, up, toClient, broken>>

\* esp_spp_write returned an error.
Refused ==
  /\ pc = "refused"
  /\ congested' = TRUE
  /\ pc' = "top"
  /\ UNCHANGED <<server, buf, ring, wire, inbox, open, stalled, down, up, toClient, toDevice, unsent, broken>>

TcpService ==
  Setup \/ Accept \/ Enter \/ Drain \/ DrainToNobody \/ DrainDone \/ Recv \/ Probe
        \/ Write \/ Refused

-----------------------------------------------------------------------------
(* on_spp_event in the Bluedroid task.                                     *)

service == <<pc, buf>>

OpenEvt ==
  /\ ~open
  /\ open' = TRUE
  /\ congested' = FALSE
  /\ UNCHANGED <<server, service, ring, wire, inbox, stalled, down, up, toClient, toDevice, unsent, broken>>

CloseEvt ==
  /\ open
  /\ open' = FALSE
  /\ stalled' = FALSE
  /\ broken' = TRUE
  /\ UNCHANGED <<server, service, ring, wire, inbox, congested, down, up, toClient, toDevice, unsent>>

CongEvt(cong) ==
  /\ open
  /\ stalled # cong
  /\ stalled' = cong
  /\ congested' = cong
  /\ UNCHANGED <<server, service, ring, wire, inbox, open, down, up, toClient, toDevice, unsent, broken>>

\* DATA_IND of n bytes: staged whole, or dropped whole when the ring is too full.
DataInd(n) ==
  /\ open
  /\ down + n <= MaxDown
  /\ down' = down + n
  /\ ring' = IF Len(ring) + n <= RingCap THEN ring \o NewBytes(down, n) ELSE ring
  /\ UNCHANGED <<server, service, wire, inbox, link, up, toClient, toDevice, unsent, broken>>

\* WRITE completion of an earlier write, reporting congestion.
WriteEvt ==
  /\ open
  /\ toDevice # <<>> \/ unsent # {}
  /\ stalled' = TRUE
  /\ congested' = TRUE
  /\ UNCHANGED <<server, service, ring, wire, inbox, open, down, up, toClient, toDevice, unsent, broken>>

SppEvent ==
  \/ OpenEvt \/ CloseEvt \/ WriteEvt
  \/ \E cong \in BOOLEAN : CongEvt(cong)
  \/ \E n \in 1..Chunk : DataInd(n)

-----------------------------------------------------------------------------
(* The clients.                                                            *)

Connect ==
  /\ listening
  /\ queue = 0
  /\ queue' = 1
  /\ UNCHANGED <<listening, slot, service, ring, wire, inbox, link, down, up, toClient, toDevice, unsent, broken>>

ClientSend ==
  /\ slot = "live"
  /\ up < MaxUp
  /\ up' = up + 1
  /\ inbox' = Append(inbox, up')
  /\ UNCHANGED <<server, service, ring, wire, link, down, toClient, toDevice, unsent, broken>>

ClientRead ==
  /\ slot = "live"
  /\ \E n \in 1..Len(wire) :
       /\ toClient' = toClient \o Take(wire, n)
       /\ wire' = Drop(wire, n)
  /\ UNCHANGED <<server, service, ring, inbox, link, down, up, toDevice, unsent, broken>>

\* The client closes; what it sent before is still to be recv'd.
ClientLeave ==
  /\ slot = "live"
  /\ slot' = "left"
  /\ UNCHANGED <<listening, queue, service, ring, wire, inbox, link, down, up, toClient, toDevice, unsent, broken>>

\* The connection breaks; what was not recv'd is gone.
ClientReset ==
  /\ slot \in {"live", "left"}
  /\ slot' = "reset"
  /\ inbox' = <<>>
  /\ broken' = TRUE
  /\ UNCHANGED <<listening, queue, service, ring, wire, link, down, up, toClient, toDevice, unsent>>

Client == Connect \/ ClientSend \/ ClientRead \/ ClientLeave \/ ClientReset

-----------------------------------------------------------------------------

Init ==
  /\ listening = FALSE
  /\ slot = "none" /\ queue = 0
  /\ pc = "top" /\ buf = <<>>
  /\ ring = <<>> /\ wire = <<>> /\ inbox = <<>>
  /\ open = FALSE /\ congested = FALSE /\ stalled = FALSE
  /\ down = 0 /\ up = 0
  /\ toClient = <<>> /\ toDevice = <<>> /\ unsent = {}
  /\ broken = FALSE

Next == TcpService \/ SppEvent \/ Client

Spec == Init /\ [][Next]_vars

\* The loop task is called for ever.  Nothing is asked of the link or the clients.
FairSpec == Spec /\ WF_vars(TcpService)

-----------------------------------------------------------------------------
(* Properties.                                                             *)

DownPipe == INSTANCE BytePipe WITH sent <- down, out <- toClient
UpPipe == INSTANCE BytePipe WITH sent <- up, out <- toDevice

\* Whatever is lost on the way, no byte reaches the other side twice or out of order,
\* over any number of clients and links: neither from the device to the clients nor
\* from the clients to the device.
BothInOrder == DownPipe!Spec /\ UpPipe!Spec

\* As long as no link and no client's connection breaks, all the device misses is
\* what the stack did not take: congestion, however it comes and goes between recv,
\* write and the callbacks, pauses the clients and loses nothing.  Of the bytes the
\* clients sent, the last ones are in the loop's hands or still in the socket, in
\* order; each one before them the device has, or its own write failed.
UpComplete ==
  ~broken =>
    LET held == buf \o inbox
        k == up - Len(held)
    IN  /\ held = NewBytes(k, Len(held))
        /\ ToSet(toDevice) \cup unsent = 1..k
        /\ ToSet(toDevice) \cap unsent = {}

\* A client that left without unread bytes frees the slot, link up or not.
QuietClientReaped == (slot = "left" /\ inbox = <<>>) ~> slot = "none"

\* On a link that stays usable every departed client frees the slot.
ReapedOnUsableLink ==
  <>[](open /\ ~congested) => (slot = "left" ~> slot = "none")

\* "A client that disconnects is reaped even while its SPP link is down or
\* congested (so a stuck device can never wedge its TCP server)".
ClientReaped == slot = "left" ~> slot = "none"
=============================================================================
