SPECIFICATION ResearchSpec
CONSTANTS
  Origins = {o1, o2, o3}
  Pages = {p1, p2}
  Files = {f1}
  MaxSubquestions = 2
  MaxHits = 2
  TopN = 2
  MaxQuotes = 1
INVARIANTS SourcesAreTheHits
CHECK_DEADLOCK FALSE
