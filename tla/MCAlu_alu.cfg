SPECIFICATION Spec
CONSTANTS
  Half = 3
  Alu32 = TRUE
  Base = 21
  BitAnd <- AndOf
  BitOr <- OrOf
  BitXor <- XorOf
INVARIANTS
  Computes
  Loads
  Branches
  TablesAgree
CHECK_DEADLOCK FALSE
