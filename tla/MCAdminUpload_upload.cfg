SPECIFICATION Spec
CONSTANTS
  Sizes = {0, 1, 5}
  Fields = {"typed", "changed"}
  Tags = {"tag1", "tag2"}
  MaxTags = 1
  Chunk = 2
  ServiceChunk = 2
  MaxSubmits = 2
  MaxFaults = 2
CHECK_DEADLOCK FALSE
INVARIANT DoneIsWhole
