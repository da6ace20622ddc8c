CHECK_DEADLOCK FALSE
SPECIFICATION ReviewFairSpec
CONSTANTS
  Jobs = {1, 2, 3}
  ApiJobs = {1, 3}
  Workers = {w1}
  Nobody = Nobody
  PageSize = 1
  Filters = {{}, {"scored"}, {"api", "completed"}, {"failed"}}
  Readers = {"stats", "walk", "poll", "scrape"}
INVARIANTS
  ReviewTypeOK
  StatsAddUp
  WalkIsComplete
  ShownIsFinal
  BacklogIsSeen
PROPERTY OutcomeIsShown
