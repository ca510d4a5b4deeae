SPECIFICATION PoolSpec
CONSTANTS
  A = A
  B = B
  w1 = w1
  w2 = w2
  text = text
  code = code
  x = x
  y = y
  r1 = r1
  Corpus = {A}
  AnyCorpus = none
  Kind = {text, code}
  Chunk = {1, 2}
  Rep = {r1}
  NoRep = norep
  Text = {x, y}
  Token = {1, 2, 3}
  NoToken = 0
  MaxAttempts = 2
  Durable = TRUE
  Worker = {w1, w2}
  Serves <- OneCorpus
  Fits = {w1, w2}
  Axes <- EveryAxis
  Scoped = TRUE
  Late = TRUE
  RepOf <- OneRep
  KindOf <- KindPerText
  NoText = notext
  FirstText = {x}
  BornStatus = {"pending"}
  Killers = {}
  BatchSize = 1
  Searched = FALSE
  MaxMishaps = 2
INVARIANTS OkIsCurrent
