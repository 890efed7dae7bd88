SPECIFICATION TabFairSpec
CONSTANTS
  MaxTakes = 2
  MaxVisits = 3
  MaxEssays = 2
  WritingIds = {w1}
  SpeakingIds = {s1}
  OtherIds = {x}
  Texts = {t1, t2}
  Blank = Blank
  None = None
INVARIANTS TabTypeOK OneUrl ClipStaysForGrading ListIsShared TextStaysForGrading
PROPERTIES QuietUnmountCleansUp StoppedBecomesClip LoadingEnds
CHECK_DEADLOCK FALSE
