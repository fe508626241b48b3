SPECIFICATION FairSpec
INVARIANTS
  TypeOK
  OutcomeIsChilds
  NothingIsLeft
  WorksWithoutFile
PROPERTIES
  AllAttemptsCount
  CommandReturns
