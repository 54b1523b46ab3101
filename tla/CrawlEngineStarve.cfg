\* One site takes every worker while another one has a page ready.
SPECIFICATION Spec
CONSTANTS
  home = home  www = www  other = other
  s = s  a = a  b = b  c = c  d = d  wwwA = wwwA  o1 = o1  o2 = o2
  Urls = {s, a, b, c, d, o1, o2, wwwA}
  Hosts = {home, www, other}
  Host <- MCHost
  Workers = {w1, w2, w3, w4}
  Seed = s
  Fingerprint <- MCFingerprint
  Site <- MCSite
  InScope <- AllUrls
  MaxDepth = 2
  MaxPages = 9
  MaxRetries = 0
  Concurrency = 1
  Malformed = Malformed
  Unjoinable = Unjoinable
  SiteMaps <- UnevenSite
  Stops = {}
INVARIANTS NoHostStarved
CHECK_DEADLOCK FALSE
