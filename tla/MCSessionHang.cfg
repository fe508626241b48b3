SPECIFICATION FairSpec
CONSTANTS
  Signals <- MCSignals
  Deliverable <- MCUnixSignals
  Codes <- MCCodes
  SigCap = 1
  MaxRequests = 0
  MaxChunks = 1
PROPERTY
  ExitIsReported
