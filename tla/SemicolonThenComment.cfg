SPECIFICATION Spec
CONSTANTS
  e1 = e1
  e2 = e2
  Elems = {e1, e2}
  Buckets = 2
  BucketOf <- MCBucketOf
  KeyTypes = {"string", "hash", "set", "list", "stream"}
  MaxWrites = 2
  Texts <- MCTexts
  LaterTexts <- MCLaterTexts
  MaxRows = 2
  MaxWarnings = 2
  Sizes = {1, 2}
  Never = 99
  Patterns = {star, a}
  Star = star
  Empty = empty
  NoItem = noItem
  NoRequest = noRequest
  MaxItems = 1
  MaxFull = 1
  Pages = 3
  MaxInFlight = 2
  MaxAlters = 3
INVARIANT TrailingSemicolonAllowed
