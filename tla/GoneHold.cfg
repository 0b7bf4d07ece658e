CONSTANTS
  Holds = {h1, h2}
  Nothing = Nothing
  MaxCrashes = 1

SPECIFICATION ReplySpec
INVARIANT GoneStaysGone
