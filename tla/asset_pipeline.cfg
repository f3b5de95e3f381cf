SPECIFICATION Spec
CONSTANTS
  Profiles <- SmallProfiles
  Strategies = {"max", "mean"}
  FrameLimits = {1, 2}
  Categories <- SmallCategories
  SubLabels = {"topless"}
  Alien = "alien"
  Tags <- SmallTags
  Threshold = 1
  MaxScore = 1
  MaxFound = 3
INVARIANTS MetadataIsHonest ErrorsAreRecorded ResultFollowsFrames DoubtIsReviewed
CHECK_DEADLOCK FALSE
