SPECIFICATION MCSpec
CHECK_DEADLOCK FALSE
CONSTANTS
  Spellings <- MCSpellings
  Fold <- MCFold
  Root <- MCRoot
  Windows = FALSE
  Stored <- MCStored
  Lead <- MCLead
  Redirects <- MCRedirects
  Shares <- MCShares
  Nested <- MCNested
  Contracts <- MCContracts
  Declarations <- MCDeclarations
  Changes <- MCChanges
  Lockfiles <- NoNames
  InfraNames <- NoNames
  SqlNames <- NoNames
  SecurityParts <- NoNames
  DocNames <- NoNames
  UserEdits <- MCUserEdits
  Tops <- MCTops
  MaxGov = 1
  MaxTasks = 2
INVARIANTS GovernanceKept UserWorkKept GrantedUnderOneGovernance
PROPERTIES PacksStrengthen
