SPECIFICATION Spec
CONSTANTS
  Kinds = {"direct", "guarded", "prepare", "execute"}
  Fields = {"UNKNOWN"}
  Replies <- MCReplies
  Blocking = {TRUE, FALSE}
INVARIANTS TypeOK RepliesMatched NoProtocolError FirstErrorTells NothingLeft FieldRight
PROPERTY Completes
