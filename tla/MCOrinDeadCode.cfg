CONSTANTS
  Trees <- MCTrees
  Expr <- MCExpr
  Stmt <- MCStmt
  Name <- MCName
  Size <- MCSize
  Inputs <- MCInputs
  Text <- MCText
  Fuel = 26
  IntMax = 7
  LongMax = 15
SPECIFICATION Spec
PROPERTY DeadCodeIsDead
CHECK_DEADLOCK FALSE
