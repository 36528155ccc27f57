CONSTANTS
  Workers = {w1}
  Game = game
  Main = main
  Audio = audio
  Callers = {game, main, audio}
  Nobody = nobody
  NumAudioBuffers = 2
  Resizes = FALSE
  EarlySignal = FALSE
SPECIFICATION FairSpec
PROPERTIES ShutsDown
CHECK_DEADLOCK FALSE
