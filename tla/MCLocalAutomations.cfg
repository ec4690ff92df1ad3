CONSTANTS
  Tasks = {t1, t2}
  Presets = {t1}
  PresetSchedule <- Daily
  Calendars <- AllCalendars
  Schedules <- UserSchedules
  DayLength = 2
  Grace = 1
  HistoryLength = 2
  MaxTime = 3
  MaxManual = 1
  MaxEdits = 2
  MaxFaults = 1
SPECIFICATION FairSpec
INVARIANTS
  TypeOK
  OneExecution
  EditsKept
  RunningIsRunning
  NextIsEarliest
PROPERTIES
  OccurrenceOnce
  DueIsExecuted
CHECK_DEADLOCK FALSE
