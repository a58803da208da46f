--------------------------- MODULE SppLinksProofs ---------------------------
(***************************************************************************)
(* Theorems about SppLinks, for every number of devices, every set of      *)
(* handles and every assignment of channels.  The first group holds        *)
(* whatever the stack does; the second holds until an answer is overdue.   *)
(***************************************************************************)
EXTENDS SppLinks, TLAPS

\* The stack gives every call and every link a handle of its own.
HandlesOwned ==
  /\ \A c1, c2 \in calls : c1.h = c2.h => c1 = c2
  /\ \A l1, l2 \in links : l1.h = l2.h => l1 = l2
  /\ \A c \in calls, l \in links : c.h # l.h

\* Only live links have been offered the handshake.
GreetedLive == greeted \cup refused \subseteq {l.h : l \in links}

\* What holds however late the answers are.
LinkInv ==
  /\ TypeOK
  /\ HandlesOwned
  /\ OpenHasLink
  /\ GreetedLive
  /\ HandshakeOncePerLink

\* The device being connected has no link.
ConnectingIsDown == connecting # NoDevice => ~open[connecting]

\* What holds in addition as long as the stack was never overdue.
InTimeInv ==
  /\ Serialized
  /\ ConnectingIsDown
  /\ ChannelIsOwn
  /\ LinkIsKnown
  /\ NoDeviceForgotten

ManagerInv == LinkInv /\ (~late => InTimeInv)

-----------------------------------------------------------------------------

LEMMA DeviceFacts == NoDevice \notin Device /\ Device \subseteq Nat
BY NAssumption DEF Device, NoDevice

\* by_handle_ is unambiguous: two open devices never share a handle, because each
\* has the stack's link with that handle.
LEMMA DistinctHandles ==
  ASSUME HandlesOwned, OpenHasLink
  PROVE  HandlesDistinct
<1> SUFFICES ASSUME NEW d \in Device, NEW e \in Device,
                    open[d], open[e], handle[d] = handle[e]
             PROVE  d = e
  BY DEF HandlesDistinct
<1>1. /\ [h |-> handle[d], dev |-> d] \in links
      /\ [h |-> handle[e], dev |-> e] \in links
  BY DEF OpenHasLink
<1>2. [h |-> handle[d], dev |-> d] = [h |-> handle[e], dev |-> e]
  BY <1>1 DEF HandlesOwned
<1> QED
  BY <1>2

\* by_handle_ finds exactly the open device that has the handle.
LEMMA ByHandleFinds ==
  ASSUME HandlesOwned, OpenHasLink, NEW h, NEW d \in Device
  PROVE  d \in ByHandle(h) <=> open[d] /\ handle[d] = h
<1>1. HandlesDistinct
  BY DistinctHandles
<1>2. \A e \in Device : Bears(e, h) /\ Bears(d, h) => e = d
  BY <1>1 DEF HandlesDistinct, Bears
<1>3. d <= d
  BY DeviceFacts
<1> QED
  BY <1>2, <1>3 DEF ByHandle, Bears

-----------------------------------------------------------------------------
(* Type correctness.                                                       *)

LEMMA DialType ==
  ASSUME calls \subseteq Call, NEW d \in Device, NEW ch \in Nat, Dial(d, ch)
  PROVE  calls' \subseteq Call
BY DEF Dial, Call

LEMMA TypeInit == Init => TypeOK
BY ChannelAssumption DEF Init, TypeOK

LEMMA TypeStep == TypeOK /\ [Next]_vars => TypeOK'
<1> SUFFICES ASSUME TypeOK, [Next]_vars
             PROVE  TypeOK'
  OBVIOUS
<1> USE DEF TypeOK, bridge, stack
<1>1. ASSUME NEW d \in Device, Attempt(d) PROVE TypeOK'
  <2>1. calls' \subseteq Call
    BY <1>1, DialType DEF Attempt
  <2>2. looking' \subseteq Device
    BY <1>1 DEF Attempt, StartDiscovery
  <2> QED
    BY <1>1, <2>1, <2>2 DEF Attempt
<1>2. CASE Timeout
  BY <1>2 DEF Timeout, Retry
<1>3. ASSUME NEW d \in Device, SendOnOpen(d) PROVE TypeOK'
  BY <1>3 DEF SendOnOpen, WriteHandshake
<1>4. ASSUME NEW d \in Device, WriteRefused(d) PROVE TypeOK'
  BY <1>4 DEF WriteRefused
<1>5. CASE SppInit
  BY <1>5 DEF SppInit
<1>6. ASSUME NEW d \in Device, DiscoveryFound(d) PROVE TypeOK'
  <2>1. Remote[d] \in Nat
    BY ChannelAssumption
  <2>2. calls' \subseteq Call
    BY <1>6, <2>1, DialType DEF DiscoveryFound
  <2> QED
    BY <1>6, <2>1, <2>2 DEF DiscoveryFound
<1>7. ASSUME NEW d \in Device, DiscoveryFailed(d) PROVE TypeOK'
  BY <1>7 DEF DiscoveryFailed, Retry
<1>8. ASSUME NEW d \in Device, QueryLost(d) PROVE TypeOK'
  BY <1>8 DEF QueryLost
<1>9. ASSUME NEW c \in calls, OpenOk(c) PROVE TypeOK'
  BY <1>9 DEF OpenOk, Call, Link
<1>10. ASSUME NEW c \in calls, OpenFailed(c) PROVE TypeOK'
  BY <1>10 DEF OpenFailed, Retry
<1>11. ASSUME NEW h \in Handle, Close(h) PROVE TypeOK'
  BY <1>11 DEF Close
<1>12. ASSUME NEW l \in links, WriteCongested(l) PROVE TypeOK'
  BY <1>12 DEF WriteCongested
<1>13. ASSUME NEW l \in links, NEW full \in BOOLEAN, Cong(l, full) PROVE TypeOK'
  BY <1>13 DEF Cong
<1>14. CASE UNCHANGED vars
  BY <1>14 DEF vars
<1> QED
  BY <1>1, <1>2, <1>3, <1>4, <1>5, <1>6, <1>7, <1>8, <1>9, <1>10, <1>11, <1>12,
     <1>13, <1>14 DEF Next, Loop, Callback, DiscoveryComp, OpenEvt

\* Every variable keeps its type: in particular the handles, channels and the
\* connecting index the callbacks store are always valid ones.
THEOREM TypeCorrect == Spec => []TypeOK
BY TypeInit, TypeStep, PTL DEF Spec

-----------------------------------------------------------------------------
(* What holds however late the answers are.                                *)

LEMMA LinkInit == Init => LinkInv
BY TypeInit DEF Init, LinkInv, HandlesOwned, OpenHasLink, GreetedLive, HandshakeOncePerLink

LEMMA DialOwned ==
  ASSUME HandlesOwned, NEW d, NEW ch, Dial(d, ch), UNCHANGED links
  PROVE  HandlesOwned'
BY DEF HandlesOwned, Dial, Used

\* Every step keeps the handles apart.
LEMMA OwnedStep == LinkInv /\ [Next]_vars => HandlesOwned'
<1> SUFFICES ASSUME LinkInv, [Next]_vars
             PROVE  HandlesOwned'
  OBVIOUS
<1> USE DEF LinkInv, bridge, stack
<1>1. ASSUME NEW d \in Device, Attempt(d) PROVE HandlesOwned'
  BY <1>1, DialOwned DEF Attempt, HandlesOwned
<1>2. ASSUME NEW d \in Device, DiscoveryFound(d) PROVE HandlesOwned'
  BY <1>2, DialOwned DEF DiscoveryFound, HandlesOwned
<1>3. ASSUME NEW c \in calls, OpenOk(c) PROVE HandlesOwned'
  BY <1>3 DEF OpenOk, HandlesOwned
<1>4. ASSUME NEW c \in calls, OpenFailed(c) PROVE HandlesOwned'
  BY <1>4 DEF OpenFailed, HandlesOwned
<1>5. ASSUME NEW h \in Handle, Close(h) PROVE HandlesOwned'
  BY <1>5 DEF Close, HandlesOwned
<1>6. ASSUME UNCHANGED <<calls, links>> PROVE HandlesOwned'
  BY <1>6 DEF HandlesOwned
<1> QED
  BY <1>1, <1>2, <1>3, <1>4, <1>5, <1>6
  DEF Next, Loop, Callback, DiscoveryComp, OpenEvt, vars, Timeout, SendOnOpen, WriteRefused,
      SppInit, DiscoveryFailed, QueryLost, WriteCongested, Cong

\* What is open after an OPEN, and after a CLOSE.
LEMMA OpenChanges ==
  ASSUME LinkInv, NEW c \in calls, OpenOk(c), NEW d \in Device
  PROVE  /\ d = c.dev => open'[d] /\ handle'[d] = c.h /\ (pending'[d] <=> d \in OnOpen)
         /\ d # c.dev => /\ open'[d] = open[d]
                         /\ handle'[d] = handle[d]
                         /\ pending'[d] = pending[d]
BY DEF LinkInv, TypeOK, OpenOk

LEMMA CloseChanges ==
  ASSUME LinkInv, NEW h \in Handle, Close(h), NEW d \in Device
  PROVE  /\ open'[d] <=> open[d] /\ handle[d] # h
         /\ open'[d] => handle'[d] = handle[d]
<1>1. d \in ByHandle(h) <=> open[d] /\ handle[d] = h
  BY ByHandleFinds DEF LinkInv
<1> QED
  BY <1>1 DEF LinkInv, TypeOK, Close

LEMMA OpenHasLinkStep == LinkInv /\ [Next]_vars => OpenHasLink'
<1> SUFFICES ASSUME LinkInv, [Next]_vars
             PROVE  OpenHasLink'
  OBVIOUS
<1> USE DEF LinkInv, bridge, stack
<1>1. ASSUME NEW c \in calls, OpenOk(c) PROVE OpenHasLink'
  <2> SUFFICES ASSUME NEW d \in Device, open'[d]
               PROVE  [h |-> handle'[d], dev |-> d] \in links'
    BY DEF OpenHasLink
  <2>1. links' = links \cup {[h |-> c.h, dev |-> c.dev]}
    BY <1>1 DEF OpenOk
  <2>2. CASE d = c.dev
    BY <1>1, <2>1, <2>2, OpenChanges
  <2>3. CASE d # c.dev
    BY <1>1, <2>1, <2>3, OpenChanges DEF OpenHasLink
  <2> QED
    BY <2>2, <2>3
<1>2. ASSUME NEW h \in Handle, Close(h) PROVE OpenHasLink'
  <2> SUFFICES ASSUME NEW d \in Device, open'[d]
               PROVE  [h |-> handle'[d], dev |-> d] \in links'
    BY DEF OpenHasLink
  <2>1. open[d] /\ handle[d] # h /\ handle'[d] = handle[d]
    BY <1>2, CloseChanges
  <2> QED
    BY <1>2, <2>1 DEF OpenHasLink, Close
<1>3. ASSUME UNCHANGED <<open, handle, links>> PROVE OpenHasLink'
  BY <1>3 DEF OpenHasLink
<1> QED
  BY <1>1, <1>2, <1>3
  DEF Next, Loop, Callback, DiscoveryComp, OpenEvt, vars, Attempt, Timeout, SendOnOpen,
      WriteRefused, SppInit, DiscoveryFound, DiscoveryFailed, QueryLost, OpenFailed,
      WriteCongested, Cong

\* The handshake state of one device.
Tried(d) ==
  /\ pending[d] <=> handle[d] \notin greeted \cup refused
  /\ handle[d] \notin greeted \cap refused

LEMMA GreetedStep == LinkInv /\ [Next]_vars => GreetedLive' /\ HandshakeOncePerLink'
<1> SUFFICES ASSUME LinkInv, [Next]_vars
             PROVE  GreetedLive' /\ HandshakeOncePerLink'
  OBVIOUS
<1> USE DEF LinkInv, bridge, stack, Tried
<1>0. \A e \in OnOpen : e \in Device /\ (open[e] => Tried(e))
  BY OnOpenAssumption DEF HandshakeOncePerLink
<1>1. ASSUME NEW d \in Device, SendOnOpen(d) PROVE GreetedLive' /\ HandshakeOncePerLink'
  <2>1. /\ greeted' \cup refused' = greeted \cup refused \cup {handle[d]}
        /\ handle[d] \notin greeted \cup refused => handle[d] \notin greeted' \cap refused'
        /\ (greeted' \cap refused') \subseteq (greeted \cap refused) \cup {handle[d]}
    BY <1>1 DEF SendOnOpen, WriteHandshake
  <2>2. GreetedLive'
    <3>1. [h |-> handle[d], dev |-> d] \in links /\ links' = links
      BY <1>1 DEF SendOnOpen, OpenHasLink
    <3>2. handle[d] \in {l.h : l \in links'}
      BY <3>1
    <3> QED
      BY <2>1, <3>1, <3>2 DEF GreetedLive
  <2>3. ASSUME NEW e \in OnOpen, open'[e] PROVE Tried(e)'
    <3>0. e \in Device /\ open' = open /\ handle' = handle /\ Tried(e)
      BY <1>0, <1>1, <2>3 DEF SendOnOpen
    <3>1. CASE e = d
      BY <1>1, <2>1, <3>0, <3>1 DEF SendOnOpen, TypeOK
    <3>2. CASE e # d
      <4>1. open[e] /\ open[d] /\ handle' = handle /\ pending'[e] = pending[e]
        BY <1>1, <2>3, <3>0, <3>2 DEF SendOnOpen, TypeOK
      <4>2. handle[e] # handle[d]
        BY <3>0, <3>2, <4>1, DistinctHandles DEF HandlesDistinct
      <4> QED
        BY <2>1, <3>0, <4>1, <4>2
    <3> QED
      BY <3>1, <3>2
  <2> QED
    BY <2>2, <2>3 DEF HandshakeOncePerLink
<1>2. ASSUME NEW c \in calls, OpenOk(c) PROVE GreetedLive' /\ HandshakeOncePerLink'
  <2>1. /\ greeted' = greeted /\ refused' = refused
        /\ links' = links \cup {[h |-> c.h, dev |-> c.dev]}
    BY <1>2 DEF OpenOk
  <2>2. GreetedLive'
    BY <2>1 DEF GreetedLive
  <2>3. c.h \notin greeted \cup refused
    BY DEF GreetedLive, HandlesOwned
  <2>4. ASSUME NEW e \in OnOpen, open'[e] PROVE Tried(e)'
    <3>1. CASE e = c.dev
      BY <1>0, <1>2, <2>1, <2>3, <3>1, OpenChanges
    <3>2. CASE e # c.dev
      BY <1>0, <1>2, <2>1, <2>4, <3>2, OpenChanges
    <3> QED
      BY <3>1, <3>2
  <2> QED
    BY <2>2, <2>4 DEF HandshakeOncePerLink
<1>3. ASSUME NEW h \in Handle, Close(h) PROVE GreetedLive' /\ HandshakeOncePerLink'
  <2>1. /\ greeted' = greeted \ {h} /\ refused' = refused \ {h}
        /\ links' = {l \in links : l.h # h} /\ pending' = pending
    BY <1>3 DEF Close
  <2>2. GreetedLive'
    BY <2>1 DEF GreetedLive
  <2>3. ASSUME NEW e \in OnOpen, open'[e] PROVE Tried(e)'
    <3>1. open[e] /\ handle[e] # h /\ handle'[e] = handle[e]
      BY <1>0, <1>3, <2>3, CloseChanges
    <3> QED
      BY <1>0, <2>1, <3>1
  <2> QED
    BY <2>2, <2>3 DEF HandshakeOncePerLink
<1>4. ASSUME UNCHANGED <<open, handle, pending, links, greeted, refused>>
      PROVE  GreetedLive' /\ HandshakeOncePerLink'
  BY <1>4 DEF GreetedLive, HandshakeOncePerLink
<1> QED
  BY <1>1, <1>2, <1>3, <1>4
  DEF Next, Loop, Callback, DiscoveryComp, OpenEvt, vars, Attempt, Timeout,
      WriteRefused, SppInit, DiscoveryFound, DiscoveryFailed, QueryLost, OpenFailed,
      WriteCongested, Cong

LEMMA LinkStep == LinkInv /\ [Next]_vars => LinkInv'
BY TypeStep, OwnedStep, OpenHasLinkStep, GreetedStep DEF LinkInv

LEMMA LinkInvariant == Spec => []LinkInv
BY LinkInit, LinkStep, PTL DEF Spec

\* The bridge never takes a dead link, or another device's, for a device's own,
\* however late the stack answers.
THEOREM OpenLinksAreReal == Spec => []OpenHasLink
BY LinkInvariant, PTL DEF LinkInv

\* At this granularity the handshake is tried once per link, late answers or not: a
\* link is either still waiting for it, or was given it, or was refused it for good.
THEOREM HandshakeOnce == Spec => []HandshakeOncePerLink
BY LinkInvariant, PTL DEF LinkInv

\* A device goes down only with its own link.
THEOREM OnlyOwnCloseHolds == Spec => OnlyOwnClose
<1> DEFINE Own == \A d \in Device : open[d] /\ ~open'[d] =>
                    [h |-> handle[d], dev |-> d] \in links \ links'
<1>1. LinkInv /\ [Next]_vars => [Own]_vars
  <2> SUFFICES ASSUME LinkInv, Next, NEW d \in Device, open[d], ~open'[d]
               PROVE  [h |-> handle[d], dev |-> d] \in links \ links'
    OBVIOUS
  <2> USE DEF LinkInv, bridge, stack
  <2>1. ASSUME NEW c \in calls, OpenOk(c) PROVE FALSE
    BY <2>1, OpenChanges
  <2>2. ASSUME NEW h \in Handle, Close(h)
        PROVE  [h |-> handle[d], dev |-> d] \in links \ links'
    <3>1. handle[d] = h
      BY <2>2, CloseChanges
    <3> QED
      BY <2>2, <3>1 DEF Close, OpenHasLink
  <2>3. ASSUME UNCHANGED open PROVE FALSE
    BY <2>3
  <2> QED
    BY <2>1, <2>2, <2>3
    DEF Next, Loop, Callback, DiscoveryComp, OpenEvt, Attempt, Timeout, SendOnOpen,
        WriteRefused, SppInit, DiscoveryFound, DiscoveryFailed, QueryLost, OpenFailed,
        WriteCongested, Cong
<1> QED
  BY <1>1, LinkInvariant, PTL DEF Spec, OnlyOwnClose

-----------------------------------------------------------------------------
(* What holds in addition as long as no answer is overdue.                 *)

LEMMA ManagerInit == Init => ManagerInv
BY LinkInit, ChannelAssumption
DEF Init, ManagerInv, InTimeInv, Serialized, ConnectingIsDown, ChannelIsOwn, LinkIsKnown, NoDeviceForgotten

LEMMA ChannelStep ==
  ASSUME LinkInv, InTimeInv, [Next]_vars
  PROVE  ChannelIsOwn'
<1> USE DEF bridge, stack
<1>1. ASSUME NEW d \in Device, DiscoveryFound(d) PROVE ChannelIsOwn'
  <2>1. d = connecting
    BY <1>1 DEF DiscoveryFound, InTimeInv, Serialized
  <2> QED
    BY <1>1, <2>1 DEF DiscoveryFound, InTimeInv, LinkInv, TypeOK, ChannelIsOwn
<1>2. ASSUME UNCHANGED channel PROVE ChannelIsOwn'
  BY <1>2 DEF InTimeInv, ChannelIsOwn
<1> QED
  BY <1>1, <1>2
  DEF Next, Loop, Callback, DiscoveryComp, OpenEvt, vars, Attempt, Timeout, SendOnOpen,
      WriteRefused, SppInit, DiscoveryFailed, QueryLost, OpenOk, OpenFailed, Close,
      WriteCongested, Cong

LEMMA SerializedStep ==
  ASSUME LinkInv, InTimeInv, [Next]_vars, ~late'
  PROVE  Serialized'
<1> USE DEF bridge, stack
<1>0. Serialized /\ TypeOK /\ NoDevice \notin Device
  BY DeviceFacts DEF InTimeInv, LinkInv
<1>1. ASSUME NEW d \in Device, Attempt(d) PROVE Serialized'
  <2>1. looking = {} /\ calls = {}
    BY <1>0, <1>1 DEF Attempt, Serialized, TypeOK, Call
  <2> QED
    BY <1>1, <2>1 DEF Attempt, Dial, StartDiscovery, Serialized
<1>2. CASE Timeout
  BY <1>2 DEF Timeout, Quiet, Serialized
<1>3. ASSUME NEW d \in Device, DiscoveryFound(d) PROVE Serialized'
  <2>1. looking = {d} /\ calls = {} /\ connecting = d
    BY <1>0, <1>3 DEF DiscoveryFound, Serialized
  <2>2. connecting # NoDevice
    BY <1>0, <2>1
  <2>3. Dial(connecting, Remote[d]) /\ looking' = {} /\ connecting' = connecting
    BY <1>3, <2>1, <2>2 DEF DiscoveryFound
  <2> QED
    BY <2>1, <2>3 DEF Dial, Serialized
<1>4. ASSUME NEW d \in Device, DiscoveryFailed(d) PROVE Serialized'
  <2>1. looking = {d} /\ calls = {}
    BY <1>0, <1>4 DEF DiscoveryFailed, Serialized
  <2> QED
    BY <1>4, <2>1 DEF DiscoveryFailed, Serialized
<1>5. ASSUME NEW c \in calls, OpenOk(c) \/ OpenFailed(c) PROVE Serialized'
  <2>1. calls = {c} /\ looking = {}
    BY <1>0, <1>5 DEF Serialized
  <2> QED
    BY <1>5, <2>1 DEF OpenOk, OpenFailed, Serialized
<1>6. ASSUME NEW h \in Handle, Close(h) PROVE Serialized'
  BY <1>0, <1>6 DEF Close, Serialized
<1>7. ASSUME NEW d \in Device, QueryLost(d) PROVE Serialized'
  BY <1>0, <1>7 DEF QueryLost, Serialized
<1>8. ASSUME UNCHANGED <<connecting, looking, calls>> PROVE Serialized'
  BY <1>0, <1>8 DEF Serialized
<1> QED
  BY <1>1, <1>2, <1>3, <1>4, <1>5, <1>6, <1>7, <1>8
  DEF Next, Loop, Callback, DiscoveryComp, OpenEvt, vars, SendOnOpen, WriteRefused, SppInit,
      WriteCongested, Cong

LEMMA KnownStep ==
  ASSUME LinkInv, InTimeInv, [Next]_vars
  PROVE  LinkIsKnown' /\ ConnectingIsDown'
<1> USE DEF bridge, stack
<1>0. /\ LinkInv /\ TypeOK /\ LinkIsKnown /\ ConnectingIsDown /\ Serialized
      /\ NoDevice \notin Device
  BY DeviceFacts DEF InTimeInv, LinkInv
<1>1. ASSUME NEW c \in calls, OpenOk(c) PROVE LinkIsKnown' /\ ConnectingIsDown'
  <2>1. c.dev \in Device /\ ~open[c.dev]
    BY <1>0 DEF Serialized, ConnectingIsDown, TypeOK, Call
  <2>2. ASSUME NEW l \in links PROVE open'[l.dev] /\ handle'[l.dev] = l.h
    <3>1. l.dev \in Device /\ l.dev # c.dev
      BY <1>0, <2>1 DEF LinkIsKnown, TypeOK, Link
    <3> QED
      BY <1>0, <1>1, <3>1, OpenChanges DEF LinkIsKnown
  <2>3. open'[c.dev] /\ handle'[c.dev] = c.h
    BY <1>0, <1>1, <2>1, OpenChanges
  <2> QED
    BY <1>1, <2>2, <2>3 DEF OpenOk, LinkIsKnown, ConnectingIsDown
<1>2. ASSUME NEW h \in Handle, Close(h) PROVE LinkIsKnown' /\ ConnectingIsDown'
  <2>1. ASSUME NEW l \in links, l.h # h PROVE open'[l.dev] /\ handle'[l.dev] = l.h
    <3>1. l.dev \in Device /\ open[l.dev] /\ handle[l.dev] # h
      BY <1>0, <2>1 DEF LinkIsKnown, TypeOK, Link
    <3> QED
      BY <1>0, <1>2, <3>1, CloseChanges DEF LinkIsKnown
  <2>2. ConnectingIsDown'
    BY <1>0, <1>2 DEF Close, ConnectingIsDown, TypeOK
  <2> QED
    BY <1>2, <2>1, <2>2 DEF Close, LinkIsKnown
<1>3. ASSUME NEW d \in Device, Attempt(d) PROVE LinkIsKnown' /\ ConnectingIsDown'
  BY <1>0, <1>3 DEF Attempt, LinkIsKnown, ConnectingIsDown
<1>4. ASSUME UNCHANGED <<open, handle, links>>, connecting' \in {connecting, NoDevice}
      PROVE  LinkIsKnown' /\ ConnectingIsDown'
  BY <1>0, <1>4 DEF LinkIsKnown, ConnectingIsDown
<1> QED
  BY <1>1, <1>2, <1>3, <1>4
  DEF Next, Loop, Callback, DiscoveryComp, OpenEvt, vars, Timeout, SendOnOpen,
      WriteRefused, SppInit, DiscoveryFound, DiscoveryFailed, QueryLost, OpenFailed,
      WriteCongested, Cong

LEMMA ForgottenStep ==
  ASSUME LinkInv, InTimeInv, [Next]_vars
  PROVE  NoDeviceForgotten'
<1> USE DEF bridge, stack
<1>0. /\ LinkInv /\ TypeOK /\ Serialized /\ NoDeviceForgotten
      /\ NoDevice \notin Device
  BY DeviceFacts DEF InTimeInv, LinkInv
<1>1. ASSUME NEW d \in Device, Attempt(d) PROVE NoDeviceForgotten'
  BY <1>0, <1>1 DEF Attempt, NoDeviceForgotten, TypeOK
<1>2. CASE Timeout
  BY <1>0, <1>2 DEF Timeout, Retry, NoDeviceForgotten, TypeOK
<1>3. CASE SppInit
  BY <1>3 DEF SppInit, NoDeviceForgotten
<1>4. ASSUME NEW d \in Device, DiscoveryFailed(d) PROVE NoDeviceForgotten'
  BY <1>0, <1>4 DEF DiscoveryFailed, Retry, NoDeviceForgotten, TypeOK
<1>5. ASSUME NEW c \in calls, OpenOk(c) PROVE NoDeviceForgotten'
  <2>1. connecting = c.dev
    BY <1>0 DEF Serialized
  <2> QED
    BY <1>0, <1>5, <2>1 DEF OpenOk, NoDeviceForgotten, TypeOK
<1>6. ASSUME NEW c \in calls, OpenFailed(c) PROVE NoDeviceForgotten'
  <2>1. connecting = c.dev
    BY <1>0 DEF Serialized
  <2> QED
    BY <1>0, <1>6, <2>1 DEF OpenFailed, Retry, NoDeviceForgotten, TypeOK
<1>7. ASSUME NEW h \in Handle, Close(h) PROVE NoDeviceForgotten'
  BY <1>0, <1>7 DEF Close, NoDeviceForgotten
<1>8. ASSUME UNCHANGED <<ready, open, want, connecting>> PROVE NoDeviceForgotten'
  BY <1>0, <1>8 DEF NoDeviceForgotten
<1> QED
  BY <1>1, <1>2, <1>3, <1>4, <1>5, <1>6, <1>7, <1>8
  DEF Next, Loop, Callback, DiscoveryComp, OpenEvt, vars, SendOnOpen, WriteRefused,
      DiscoveryFound, QueryLost, WriteCongested, Cong

\* Once an attempt has been given up unanswered, that stays on record.
LEMMA LateStays == TypeOK /\ [Next]_vars /\ late => late'
BY DEF TypeOK, Next, Loop, Callback, DiscoveryComp, OpenEvt, vars, bridge, stack, Attempt,
       Timeout, SendOnOpen, WriteRefused, SppInit, DiscoveryFound, DiscoveryFailed, QueryLost,
       OpenOk, OpenFailed, Close, WriteCongested, Cong

LEMMA ManagerStep == ManagerInv /\ [Next]_vars => ManagerInv'
<1> SUFFICES ASSUME ManagerInv, [Next]_vars
             PROVE  ManagerInv'
  OBVIOUS
<1>1. LinkInv /\ LinkInv'
  BY LinkStep DEF ManagerInv
<1>2. ASSUME ~late' PROVE InTimeInv'
  <2>1. ~late
    BY <1>1, <1>2, LateStays DEF LinkInv
  <2>2. InTimeInv
    BY <2>1 DEF ManagerInv
  <2> QED
    BY <1>1, <1>2, <2>2, SerializedStep, KnownStep, ChannelStep, ForgottenStep DEF InTimeInv
<1> QED
  BY <1>1, <1>2 DEF ManagerInv

LEMMA ManagerInvariant == Spec => []ManagerInv
BY ManagerInit, ManagerStep, PTL DEF Spec

\* Until an attempt is given up that the stack still works on, attempts are
\* serialized (manage_connections_: "one connect/discovery outstanding at a time").
THEOREM AttemptsSerialized == Spec => []SerializedInTime
<1>1. ManagerInv => SerializedInTime
  BY DEF ManagerInv, InTimeInv, SerializedInTime
<1> QED
  BY <1>1, ManagerInvariant, PTL

\* Likewise every SDP result, which carries no address, is stored for the device
\* that was asked (DISCOVERY_COMP).
THEOREM ChannelsOwn == Spec => []ChannelIsOwnInTime
<1>1. ManagerInv => ChannelIsOwnInTime
  BY DEF ManagerInv, InTimeInv, ChannelIsOwnInTime
<1> QED
  BY <1>1, ManagerInvariant, PTL

\* Likewise the bridge loses track of no link of the stack (OPEN, CLOSE).
THEOREM LinksKnown == Spec => []LinkIsKnownInTime
<1>1. ManagerInv => LinkIsKnownInTime
  BY DEF ManagerInv, InTimeInv, LinkIsKnownInTime
<1> QED
  BY <1>1, ManagerInvariant, PTL

\* Likewise no device is ever left without a link, an attempt or a turn to come.
THEOREM NoneForgotten == Spec => []NoDeviceForgottenInTime
<1>1. ManagerInv => NoDeviceForgottenInTime
  BY DEF ManagerInv, InTimeInv, NoDeviceForgottenInTime
<1> QED
  BY <1>1, ManagerInvariant, PTL
=============================================================================
