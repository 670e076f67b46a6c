CONSTANTS
  Names = {"A"}
  Foreign <- Elsewhere
  Servers = {s1}
  Usages <- TwoUsages
  Writers = {w1}
  Deleters = {d1}
  MaxId = 3
  MaxRefs = 1
  CertChainMaxDepth = 3
SPECIFICATION Spec
CHECK_DEADLOCK FALSE
INVARIANTS
  TypeOK
  ParentSigned
  
  ChainFound
  ExportMatches
