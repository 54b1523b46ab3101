\* Two edits and one scrape job that heals, on one preset.
SPECIFICATION PartsSpec
CONSTANTS
  Driven = {"presets"}
  People = {a1, a2}
  Jobs = {j1}
  Fields = {"title", "urls"}
  Selectors = {"old", "new", "outside"}
  Outside = {"outside"}
  Contents <- TheContents
  Plans <- ThePlans
  Pages <- ThePages
  MaxPages = 2
  MaxClock = 4
  Cells = 4
  MaxLinks = 3
  Concurrency = 2
  Absent = Absent
  Blank = Blank
  Sids = {"s1", "s2"}
  Existing = {"s1"}
  Callers = {c1, c2}
  Pins <- ThePins
  Requests <- TheRequests
  MaxSessions = 1
  Missing = Missing
  Fetches = {f1, f2, f3}
  MaxScore = 3
  MaxUsage = 4
  MaxCreated = 3
  Hosts = {h1, h2, h3}
  Urls = {h1, h2, h3}
  Host <- OwnHost
  MaxSize = 5
  Intervals = {5, 10}
  MaxInterval = 20
  Cooldown = 2
  Nodes = {1, 2, 3, 4, 5, 6, 7}
  Root = 1
  Parent <- TheParents
  Rows <- TheRows
  Bare = {7}
  MaxSteps = 3
  ResultRows <- TheResults
  Length = 3
  Limit = 2
  NoPage = NoPage
  MaxDigits = 8
  Sites <- TheSites
  Asked <- TheAsked
  Fallback <- TheFallback
  MaxUrls = 4
  MaxSitemaps = 3
  MaxRedirects = 5
INVARIANTS RestSurvives
CHECK_DEADLOCK FALSE
