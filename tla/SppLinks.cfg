CONSTANTS
  N = 2
  Handle = {h1, h2, h3}
  NoHandle = noHandle
  Remote <- MCRemote
  Config <- MCConfig
  OnOpen <- MCOnOpen
SPECIFICATION FairSpec
INVARIANTS
  TypeOK
  SerializedInTime
  ChannelIsOwnInTime
  LinkIsKnownInTime
  NoDeviceForgottenInTime
  OpenHasLink
  HandshakeOncePerLink
PROPERTIES
  OnlyOwnClose
  AttemptEnds
  KeepsTrying
