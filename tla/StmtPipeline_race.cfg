SPECIFICATION Spec
CONSTANTS
  Kinds = {"prepare"}
  Fields = {"UNKNOWN"}
  Replies <- MCReplies
  Blocking = {FALSE}
INVARIANT PrepareReplyFirst
