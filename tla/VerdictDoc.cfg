SPECIFICATION FeedSpec
CONSTANTS
  Market <- Towns
  Attributes <- Traits
  Answers <- SomeAnswers
  Texts <- SomeTexts
  Messages = {m1}
  Workers = {w1, w2}
  Requests = {q1}
  Budget <- Twice
PROPERTIES VerdictStands
CHECK_DEADLOCK FALSE
