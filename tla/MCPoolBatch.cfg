SPECIFICATION PoolSpec
CONSTANTS
  A = A
  B = B
  w1 = w1
  w2 = w2
  text = text
  code = code
  x = x
  y = y
  r1 = r1
  Corpus = {A}
  AnyCorpus = none
  Kind = {text}
  Chunk = {1, 2}
  Rep = {}
  NoRep = norep
  Text = {x}
  Token = {1, 2, 3}
  NoToken = 0
  MaxAttempts = 2
  Durable = TRUE
  Worker = {w1}
  Serves <- OneCorpus
  Fits = {w1}
  Axes <- EveryAxis
  Scoped = TRUE
  Late = FALSE
  RepOf <- NoReps
  KindOf <- OneKind
  NoText = notext
  FirstText = {x}
  BornStatus = {"pending", "error"}
  Killers = {}
  BatchSize = 2
  Searched = FALSE
  MaxMishaps = 2
PROPERTIES DeadLetterIsTerminal
