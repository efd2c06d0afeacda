SPECIFICATION ApiSpec
CONSTANTS
  w1 = w1 w2 = w2 w3 = w3 w4 = w4 w5 = w5 w6 = w6 a1 = a1 a2 = a2 g1 = g1 t1 = t1 t2 = t2 t3 = t3 t4 = t4
  Work = {w1, w2, w3}
  Profile = {a1}
  Page = {g1}
  Order <- ListedSources
  Payload <- Bodies
  Manifest <- Manifests
  Policy <- Policies
  MaxRuns = 3
  DayLength = 2
  SampleLimit = 2
  ProfileTagLimit = 1
  Weights <- DefaultWeights
  TagNames <- NamedTags
  SampleWorkLimit = 3
  MaxTagsPerWork = 3
  MaxEdgeLimit = 1
  CandidateLimit = 1
  Thresholds <- FirstThresholds
  Listing <- Listings
  PageLimit = 1
INVARIANTS WorkIsNewest TagsFollowRow ReviewsAreQueued WalkIsExact ViewsReconcile TrendsAddUp SampleIsHalved InfluenceIsMonotone SensitivityIsNested
CHECK_DEADLOCK FALSE
