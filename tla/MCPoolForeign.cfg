SPECIFICATION PoolSpec
CONSTANTS
  A = A
  B = B
  w1 = w1
  w2 = w2
  text = text
  code = code
  x = x
  y = y
  r1 = r1
  Corpus = {A, B}
  AnyCorpus = none
  Kind = {text}
  Chunk = {1}
  Rep = {}
  NoRep = norep
  Text = {x}
  Token = {1, 2, 3}
  NoToken = 0
  MaxAttempts = 2
  Durable = FALSE
  Worker = {w1, w2}
  Serves <- TwoCorpora
  Fits = {w1, w2}
  Axes <- EveryAxis
  Scoped = FALSE
  Late = FALSE
  RepOf <- NoReps
  KindOf <- OneKind
  NoText = notext
  FirstText = {x}
  BornStatus = {"pending", "error"}
  Killers = {}
  BatchSize = 1
  Searched = FALSE
  MaxMishaps = 1
PROPERTIES ForeignJobsReturned
