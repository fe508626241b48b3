SPECIFICATION FairSpec
CONSTANTS
  Signals <- MCSignals
  Deliverable <- MCUnixSignals
  Codes <- MCCodes
  SigCap = 1
  MaxRequests = 3
  MaxChunks = 1
INVARIANTS
  TypeOK
  StatusIsFinal
PROPERTIES
  KeepsPromise
  RequestsDrain
  KillIsObeyed
  HandlerFinishes
