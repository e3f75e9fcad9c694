CONSTANTS
  c1 = c1
  c2 = c2
  s1 = s1
  s2 = s2
  cakra = cakra
  talenta = talenta
  ownKey = ownKey
  None = None
  Client <- TwoClients
  Seeder <- TwoSeeders
  Seeded <- SeedList
  Name <- Names
  OwnKey <- OneKey
  MaxFaults = 2
  CommitFirst = TRUE
  Character <- Characters
  MaxLength = 6
SPECIFICATION EitherSpec
CHECK_DEADLOCK FALSE
INVARIANTS
  TypeOK
  NameOnce
  AnswerIsTrue
  PrintedKeyWorks
  KeysLost
  ScheduleMeaning
PROPERTY ImplementsRegistry
