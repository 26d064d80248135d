CONSTANTS
  MaxPosts = 3
  Source = {s1, s2}
  FirstSources = {s1}
  Nobody = Nobody
  Editor = Editor
  MaxEvents = 3
  Actions = {"person"}  Timers = {"timer"}  MaxEdits = 1  PageFaults = 1
  Requests = {"one", "two"}  MaxClients = 2  MaxProcesses = 2
  Sweeper = "timer"  MaxRuntimes = 2
SPECIFICATION PartsSpec
INVARIANTS QuietPageIsUpToDate SeenWasPlayed OutcomeIsItsOwn ClosedAtRest
PROPERTIES EditsSurvive OnlyCompleteEvidence WorkIsNotAnOrphan PaysOncePerInput RunningEnds
CHECK_DEADLOCK FALSE
