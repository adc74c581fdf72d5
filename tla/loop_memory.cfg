SPECIFICATION FairSpec
CONSTANTS
  Server = server
  Runners = {r1, r2}
  NoThread = nobody
  Outcomes = {o1, o2}
  Note = note
  MaxEdits = 3
  MaxFaults = 2
INVARIANTS LoopIsTold DocumentInOrder
PROPERTIES StopEnds LearnedAgain
