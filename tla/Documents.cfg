SPECIFICATION Spec
CONSTANTS
  Lower <- MCLower
  Words <- MCWords
  Garbage <- MCGarbage
  Endpoints <- MCEndpoints
  Pages <- MCPages
  Corpora <- MCCorpora
INVARIANTS
  MaintenanceForgets
  BestSignatureWins
  HonestServerIdentified
