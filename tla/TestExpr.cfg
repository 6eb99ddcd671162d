SPECIFICATION Spec
CONSTANTS
  NoTree = NoTree
  Jobs <- MCJobs
  VarType <- MCVarType
  VarInit <- MCVarInit
  ResultVar = "result"
INVARIANTS
  ResultsAreRight
  CodeFits
