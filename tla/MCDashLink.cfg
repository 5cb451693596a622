SPECIFICATION LinkFairSpec
CONSTANTS
  SeqMod = 6
  StallAfter = 0
  StaleAfter = 0
  LostAfter = 1
  MaxBoots = 2
  MaxAnswers = 1
  MaxNoise = 1
INVARIANTS LinkTypeOK NoneRefused
PROPERTIES OldBootGone StateIsShown
