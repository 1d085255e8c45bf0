SPECIFICATION Spec
CONSTANTS
  Sound <- SoundSetups
  Odd <- OddSetups
INVARIANTS
  TermsExact
  SupervisionOfToken
  PairsComparable
  SoundAccepted
CHECK_DEADLOCK FALSE
