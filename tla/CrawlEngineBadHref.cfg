\* An href that urljoin refuses.
SPECIFICATION Spec
CONSTANTS
  home = home  www = www  other = other
  s = s  a = a  b = b  c = c  d = d  wwwA = wwwA  o1 = o1  o2 = o2
  Urls = {s, a, b, c, d, wwwA, o1}
  Hosts = {home, www, other}
  Host <- MCHost
  Workers = {w1, w2, w3, w4}
  Seed = s
  Fingerprint <- MCFingerprint
  Site <- MCSite
  InScope <- Home
  MaxDepth = 2
  MaxPages = 4
  MaxRetries = 1
  Concurrency = 1
  Malformed = Malformed
  Unjoinable = Unjoinable
  SiteMaps <- BadSite
  Stops = {}
INVARIANTS BadHrefKeepsWorker
CHECK_DEADLOCK FALSE
