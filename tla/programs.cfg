SPECIFICATION ProgramSpec
CONSTANTS
  DayOf <- Days
  WeekOf <- Weeks
  MonthOf <- Months
  YearOf <- Years
  KeepAll = 1
  KeepDaily = 3
  KeepWeekly = 6
  KeepMonthly = 7
  KeepYearly = FALSE
  LastTime = 8
  MostKept = 3
  Windows = {w1, w2}
  Systems = {s1}
  LeaseTime = 2
  LastMoment = 3
  Tokens = {1}
  Callers = {c1, c2}
  QuotaWindow = 3
  Allowance = 2
  RateWindow = 2
  LastInstant = 4
  System = system
  Home = home
  Worker = worker
  Hand = hand
  Notice = 1
  Interval = 2
  RateLimit = 1
  LastHour = 2
  MostSaves = 1
  Requesters = {r1, r2}
  MostStarts = 3
  MostGiB = 2
  MostDevices = 2
  MostRuns = 1
  MostRules = 3
  MostIdle = 2
  MostTicks = 4
  MostReads = 2
  Accounts = {a, b}
  Locked = {a}
  Keys = {k1, k2}
  MostMinted = 1
  MostHelperRuns = 2
  MostEdits = 2
  MostSwitches = 3
  MostFaults = 1
  MostCreated = 3
  MostCalls = 3
  MostSwaps = 2
  MostChanges = 3
  MostVisits = 2
  Domains = {"docker", "apt", "git", "hosts", "files", "artifacts", "processes", "services"}
  Places = {p, q}
  Capacity = 1
  Lasting = {"hosts", "artifacts"}
  MostObserved = 2
  LastTick = 1
  Texts = {"git", "git st"}
  Several = {"for"}
  MostKeys = 6
  MostHelpers = 4
  Shells = {1, 2}
  Learned = {"a", "b"}
  MostLines = 3
  LinesRead = 2
  EntriesKept = 1
  MostRecords = 5
  MostKills = 2
  Lines <- Words
  Typed <- Letter
  Confidences = {640}
  Quiet = 2
  MostCandidates = 3
  Viewers = {v1, v2}
  Secured = {v1}
  MostLoads = 2
  MostRecoveries = 2
  Entries = {e1}
  MostVersions = 2
  Seconds = 2
  MostTaskRuns = 2
  MostServices = 2
  StartupQueries = 1
  FailedQueries = 2
  Schedulers = {u1, u2}
  MostRestores = 1
  MostBuilds = 1
CHECK_DEADLOCK FALSE
INVARIANTS
  HistoryIsCovered
  HelperIsSafe
  AutomationObeys
  MaintenanceIsHonest
  DesktopToolsAreSafe
  SecurityKeysAreSafe
  KeyPagesAreHonest
  GuessesAreHonest
  WindowsAreHonest
  ArtifactsFitRecord
