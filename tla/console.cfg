SPECIFICATION ConsoleSpec
CONSTANTS
  MAX_SSID_LENGTH = 2
  MAX_PASSWORD_LENGTH = 4
  MAX_ADRESSE_LENGTH = 2
  MAX_LENGTH_STATION_NAME = 2
  MAX_TOPIC_LENGTH = 2
  NB_ADRESSE = 2
  MAX_NUMBER = 2
  Chars <- MCChars
  Erased = 255
  MaxKeys = 7
  MaxLosses = 2
INVARIANTS  StringsEnd  NeverMixed RestartKeeps
CHECK_DEADLOCK FALSE
