SPECIFICATION FairSpec
CONSTANTS
  None = None
  CredentialShaped = {}
  AsOf = 2
  MaxRuns = 1
  MaxCaptures = 1
  MaxSwitches = 1
  Affinity <- MCAffinity
  Checkouts <- MCCheckouts
  BranchTicketSets <- MCBranchTicketSets
  Args <- MCArgs
  Stores <- MCStores
  NewItem <- MCNewItem
  Judgements <- MCJudgements
  Evidence <- MCEvidence
INVARIANTS TypeOK ReadsAfterWhatItRestsOn NothingSelectedIsLost
PROPERTY ComposingEnds
