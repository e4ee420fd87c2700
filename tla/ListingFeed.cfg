SPECIFICATION FeedSpec
CONSTANTS
  Market <- Towns
  Attributes <- Traits
  Answers <- SomeAnswers
  Texts <- SomeTexts
  Messages = {m1}
  Workers = {w1}
  Requests = {q1, q2}
  Budget <- Twice
INVARIANTS FeedTypeOK QuarantinedIsHidden VisiblePriceIsPlausible
PROPERTIES RerunChangesNothing PassKeepsVerdicts HiddenLeavesFeed
CHECK_DEADLOCK FALSE
