CONSTANTS
  Modules = {1, 2, 3}
  Main = 0
  Error = Error
  None = None
  Workers = 2
  BadFiles = 2
  Programs <- MCPrograms
SPECIFICATION FairSpec
INVARIANTS
  TypeOK
  LastFutureIsQuiet
  NoModuleMissed
  ModulesReclaimed
  DeterministicOutput
  OnlyDuplicatesLeak
PROPERTIES
  OutcomeIsDeterministic
  Terminates
