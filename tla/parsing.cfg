SPECIFICATION Spec
CONSTANTS
  Symbols <- MCSymbols
  Programs <- MCPrograms
  Damaged <- MCDamaged
  Alphabet <- MCAlphabet
  MaxDamage = 1
INVARIANTS WrittenIsParsed TokensKept
CHECK_DEADLOCK FALSE
