SPECIFICATION FairSpec
CONSTANTS
  simA = simA
  simB = simB
  t1 = t1
  NoSim = NoSim
  NoValue = NoValue
  Sims <- MCSims
  Tasks <- MCTasks
  Keys <- MCKeys
  SimOf <- MCSimOf
  Written <- MCWritten
  Builtin <- MCBuiltin
  ConfigFile <- MCConfigFile
  CommandLine <- MCCommandLine
  Messages <- MCMessages
  ImageSizes = {1, 2}
  MaxRetries = 1
  MaxWrites = 1
INVARIANTS
  SettingsAreOwn
  SentMessageFits
  DataIsMapped
PROPERTIES
  EncodingEnds
CHECK_DEADLOCK FALSE
