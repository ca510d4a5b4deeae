SPECIFICATION MSpec
CONSTANTS
  A = A
  B = B
  Corpus = {A, B}
  AnyCorpus = none
  Kind = {text}
  Chunk = {1}
  Rep = {}
  NoRep = norep
  Text = {x}
  Token = {1, 2}
  NoToken = 0
  MaxAttempts = 2
  Sent <- SentJobs
  Served = {B}
PROPERTIES ImplementsQueue EveryJobGetsItsTurn
