\* Four pages of one to three controls, the extractions a replay may make, five specs a human may write.
SPECIFICATION ReviewSpec
CONSTANTS
  Pages <- SmallPages
  Reads <- SmallReads
  Specs <- SmallSpecs
INVARIANTS
  EvidenceStands
  ReturnsAsReviewed
