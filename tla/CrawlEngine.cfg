\* Crawls of three small sites: any answers to the fetches, a cap that some
\* crawls reach, cancels and the timeout at any point, under fair schedules.
SPECIFICATION FairSpec
CONSTANTS
  home = home  www = www  other = other
  s = s  a = a  b = b  c = c  d = d  wwwA = wwwA  o1 = o1  o2 = o2
  Urls = {s, a, b, c, d, wwwA, o1}
  Hosts = {home, www, other}
  Host <- MCHost
  Workers = {w1, w2, w3}
  Seed = s
  Fingerprint <- MCFingerprint
  Site <- MCSite
  InScope <- Home
  MaxDepth = 2
  MaxPages = 4
  MaxRetries = 2
  Concurrency = 1
  Malformed = Malformed
  Unjoinable = Unjoinable
  SiteMaps <- AnySite
  Stops = {"soft", "hard", "timeout"}
INVARIANTS PageCap NoWorkAfterReturn NoLinkLost
PROPERTIES LifeSpec Finishes
CHECK_DEADLOCK FALSE
