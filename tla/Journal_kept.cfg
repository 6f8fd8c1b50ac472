SPECIFICATION FairSpec
CONSTANTS
  s1 = s1
  s2 = s2
  r1 = r1
  Server <- MCServer
  Reader <- MCReader
  MaxAttempts = 2
  MaxEvents = 3
  MaxChunk = 2
  Tries = 2
  MaxFaults = 3
  Races = FALSE
INVARIANTS
  VerdictStandsOnJournal
  HotJournalHasNoArchive
  LogIsTheAttempts
PROPERTIES
  ReadersLoseNothing
  ImplementsTrialLog
  ColdJournalIsArchived
CHECK_DEADLOCK FALSE
