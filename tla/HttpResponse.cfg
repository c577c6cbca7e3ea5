SPECIFICATION FairSpec
CONSTANTS
  BuffSize = 7
  Replies <- MCReplies
INVARIANTS BodyInOrder BodyComplete ShortReplyPadded
PROPERTIES ReadReturns
CHECK_DEADLOCK FALSE
