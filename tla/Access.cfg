CONSTANTS
  Agents = {a1, a2}
  Urls = {u1}
  NoUrl = noUrl
  Inserters = {t1}
  Hosts = {h1}
  Movers = {a1}
  Suspects = {a1}
  Home <- MCHome
SPECIFICATION Spec
INVARIANTS OnlyClearedAreHeard
CHECK_DEADLOCK FALSE
PROPERTIES BlockTakesHold AccessStays
