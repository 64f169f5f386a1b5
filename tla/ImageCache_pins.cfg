\* One run over two items that share an image; either may be marked persistent.
SPECIFICATION CacheSpec
CONSTANTS
  CacheRuns = {c1}
  CacheItems = {1, 2}
  Images = {"a"}
  Needs <- MCNeeds
PROPERTIES
  PinnedImagesKept
