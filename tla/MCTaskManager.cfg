CONSTANTS MaxTasks = 2 MaxCalls = 4 MaxPending = 3
  Faults = {"function", "cron", "delay"}
  Calendar <- SmallCalendar MaxDom = 4 Week = 3 Hours = 2 Minutes = 2
SPECIFICATION MCSpec
INVARIANTS RunningContinues OneRunAtATime ToldIsFinished DeferredUsedOnce EntryIsListed SkipsNothing
PROPERTIES StoppedIsTold
CHECK_DEADLOCK FALSE
