CONSTANTS
  w1 = w1
  w2 = w2
  v1 = v1
  Absent = Absent
  Malformed = Malformed
  AnyScheme = AnyScheme
  NoToken = NoToken
  NoCookie = NoCookie
  Removal = Removal
  Requests = 3
  Worker <- MCWorker
  Value <- MCValue
  Offsets <- MCOffsets
  TicksPerSecond = 2
  MaxAge = 1
  MaxSkew = 1
  Horizon = 5
  Concurrent = 2
  AllowedHosts <- MCAllowedHosts
  TrustedOrigins <- MCTrustedOrigins
  SocketOrigins <- MCSocketOrigins
  EnforceHosts = TRUE
  CsrfEnabled = TRUE
  CheckOrigin = TRUE
  EnforceSocketOrigin = TRUE
  RequireOrigin = TRUE
  MissingOrigin = FALSE
  Pages <- MCPages
  Addresses <- MCAddresses
  OwnAddresses <- MCOwnAddresses
  TrustedPages <- MCTrustedPages
  SocketPages <- MCSocketPages
SPECIFICATION Spec
INVARIANTS
  OwnPageServed
  OthersRefused
PROPERTIES
  SessionLifetime
