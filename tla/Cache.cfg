\* Two users' entries, one lifetime of two ticks, one clearPattern beside every other call.
CONSTANTS
  user1 = user1  user10 = user10  v1 = v1  v2 = v2  call1 = call1
  NoValue = NoValue
  Keys = {user1, user10}
  Values = {v1, v2}
  Ttls = {1}
  Sec = 2
  Callers = {call1}
  Patterns = {user1, user10}
  Matching <- UserPattern
  MaxTime = 3
SPECIFICATION FairSpec
PROPERTIES
  ExpiryIsInvisible
  ClearedAreGone
  ExpiredAreSwept
