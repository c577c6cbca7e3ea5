SPECIFICATION Spec
CONSTANTS
  ChunkSize = 25
  Replies <- MCReplies
  Leftovers = {0, 2}
  BlockSize = 4
  Indices = {0, 1, 2}
  ApiBuff = 17
  StreamIds = {0, 3, 12}
  MaxRequests = 1
INVARIANTS CatalogCanBeListed
