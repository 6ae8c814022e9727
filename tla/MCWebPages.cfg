CONSTANTS Filters = {"", "a"} NoFilter = "" Starts = {1, 2} NoStart = 0 NoAsk = none
  MaxRequests = 3 MaxEvents = 4 MaxFailures = 1
  Pages = {"home", "dashboard"} Columns <- PageColumns Layout <- PageLayout
  Fetched = {"dashboard"} NoPage = "none"
SPECIFICATION MCSpec
INVARIANTS OneTimer IconsTell
PROPERTIES Settles RestoresOwn
CHECK_DEADLOCK FALSE
