SPECIFICATION RemindersSpec
CONSTANTS
  Layouts       = {"standard", "compact"}
  Policies      = {"normal", "dnd"}
  Allowed       <- MCMatrix
  DefaultLayout = "standard"
  DefaultPolicy = "normal"
  Texts         = {"t"}
  Modes         = {"auto", "disabled"}
  TimeLists     <- MCTimeLists
  DefaultTimes  <- MCDefaultTimes
  Absent        = Absent
  Junk          = Junk
  Unreadable    = Unreadable
  Found         <- MCFound
  MaxChanges    = 2
  LastHour      = 3
  Window        = 1
  Delay         = 1
  SnoozeLimit   = 1
  MaxMidnights  = 1
  Budget        = 3
INVARIANTS SettingsInv RemindersInv
PROPERTY DoneIsQuiet
CHECK_DEADLOCK FALSE
