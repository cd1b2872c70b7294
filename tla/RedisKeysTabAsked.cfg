CONSTANTS
  Patterns = {star, a}
  Star = star
  Empty = empty
  NoItem = noItem
  NoRequest = noRequest
  MaxItems = 1
  MaxFull = 1
  Pages = 3
  MaxInFlight = 2
SPECIFICATION ListSpec
INVARIANTS
  SearchShowsWhatWasAsked
