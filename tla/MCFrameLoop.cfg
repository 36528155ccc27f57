CONSTANTS
  Workers = {w1, w2}
  Game = game
  Main = main
  Audio = audio
  Callers = {game, main, audio}
  Nobody = nobody
  NumAudioBuffers = 2
  Resizes = TRUE
  EarlySignal = FALSE
SPECIFICATION FairSpec
INVARIANTS Accounting SwapExclusive EmptyBetweenFrames
PROPERTIES FrameCompletes
CHECK_DEADLOCK FALSE
