\* One poll without any cancel.
CONSTANTS
  poll = poll
  info = info
  other = other
  c1 = c1
  c2 = c2
  Requests = {poll, info, other}
  Clients = {c1, c2}
  Leaving = {c1}
  Owner <- MCOwner
  Cancelable = {poll}
  Limited = {info}
  Watched = {other}
  Reissued = {poll}
  MaxRetry = 1
  CacheSize = 2
  Nobody = Nobody
SPECIFICATION Spec
INVARIANT CanceledByUser
CHECK_DEADLOCK FALSE
