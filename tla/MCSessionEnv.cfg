SPECIFICATION Spec
CONSTANTS
  Words <- MCWords
  Entries <- MCEntries
  Bases <- MCBases
  Term <- MCTerm
  MaxEntries = 2
  MaxWrites = 2
INVARIANTS
  TypeOK
  UntouchedIsCurrent
  PathIsClean
  OrderDoesNotMatter
  PercentsPair
