CONSTANTS
  None = None
  Junk = Junk
  MaxU32 = 4
  Texts <- MCTexts
SPECIFICATION Spec
INVARIANTS
  OrderIsDocumented
  NeverRevisits
  Trichotomy
\* the newest version of Texts accepts no offer
CHECK_DEADLOCK FALSE
