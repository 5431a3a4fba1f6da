SPECIFICATION SearchSpec
CONSTANTS
  Collectors = {"run"}
  Pages = {"page", "other"}
  Posts = {"first", "second"}
  PageOf <- OnePage
  Comments = {"hello", "thanks"}
  PostOf <- OneEach
  Rejected = {}
  Overlapping = FALSE
  MaxCrashes = 1
INVARIANT CompletedIsAnalysed
CHECK_DEADLOCK FALSE
