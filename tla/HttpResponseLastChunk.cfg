SPECIFICATION Spec
CONSTANTS
  BuffSize = 7
  Replies <- MCReplies
INVARIANTS CompleteReplySucceeds
CHECK_DEADLOCK FALSE
