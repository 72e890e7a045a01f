CONSTANTS
  t1 = t1
  t2 = t2
  c1 = c1
  u1 = u1
  Topics <- MCTopics
  ClientIds <- MCClientIds
  Usernames <- MCUsernames
  AgeModulus <- MCAgeModulus
  MaxWall <- MCMaxWall
  MaxStarts <- MCMaxStarts
  TornWrites = TRUE
  InitialFiles <- MCInitialFiles

SPECIFICATION Spec
INVARIANT TypeOK
PROPERTY LoadRestoresSaved
PROPERTY AgesReconstructed
