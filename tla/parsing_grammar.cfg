SPECIFICATION Spec
CONSTANTS
  Symbols <- MCSymbols
  Programs <- DictPrograms
  Damaged <- NoPrograms
  Alphabet <- MCAlphabet
  MaxDamage = 0
INVARIANT CommentsHold
CHECK_DEADLOCK FALSE
