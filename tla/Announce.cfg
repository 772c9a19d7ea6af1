CONSTANTS
  Clients = {n1}
  Tokens = {t1, t2, t3, t4}
  NoToken = noToken
  IdleLimit = 3
  KeepEvery = 2
  Urls = {u1, u2}
  NoUrl = noUrl
  Gone = gone
  MaxTasks = 2
  MaxLive = 2
SPECIFICATION Spec
INVARIANT OpenConnectionKeepsToken
PROPERTY RelayRecovers
PROPERTY Announced
PROPERTY Withdrawn
