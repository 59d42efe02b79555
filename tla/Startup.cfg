SPECIFICATION FairSpec
CONSTANTS
  Keys = {"SPS_LOGIN_EMAIL", "SMTP_PORT"}
  Required = {"SPS_LOGIN_EMAIL"}
  Typos = {"SPS_BIN"}
  Others = {"PATH"}
  Processes = {p1, p2}
  Builtins = 2
  Edited = {1}
  Sources <- MCSources
  Usual <- MCUsual
  MaxOdd = 1
  NoOne = NoOne
  MaxBoots = 3
  MaxEvents = 2
INVARIANTS
  TypeOK
  LoadedAsMeant
  BuiltinsWhole
  IdsIncreaseAlone
PROPERTIES
  EditsKept
  StartsAndStops
CHECK_DEADLOCK FALSE
