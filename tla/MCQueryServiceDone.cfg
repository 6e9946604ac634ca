\* One question as a stream: what follows an error frame.
CONSTANTS
  Queries = {1, 2, 3}
  Sessions = {s}
  Owners = {ann, bob}
  FirstOwner = ann
  Processes = {p1}
  Modes = {"hybrid"}
  MaxCached = 2
  MaxTokens = 1
  Nobody = Nobody

SPECIFICATION QuestionsSpec

INVARIANT ErrorIsFollowedByDone

CHECK_DEADLOCK FALSE
