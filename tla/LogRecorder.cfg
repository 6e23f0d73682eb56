SPECIFICATION RecorderSpec
CONSTANTS
  MaxBytes = 2
  MaxBackups = 2
  Loops = {"l1", "l2"}
INVARIANTS
  NewestKept
  SettingFollowed
PROPERTIES
  ReadersStop
  RecordingGoesOn
