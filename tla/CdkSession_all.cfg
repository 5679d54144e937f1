SPECIFICATION Spec
CONSTANTS
  Hosts = {"a", "b", "c", "d"}
  Sockets = {"b"}
  Prio <- MCPrio
  Weight <- MCWeight
  OptionSets <- MCOptions
  Stmts = {"s1", "s2", "s3"}
  Replies <- MCReplies
INVARIANTS TypeOK TriedInOrder AttemptsReported CompressionPreferred SecureAsAsked ValidMeansAuthenticated ListLinked RepliesInOrder CleanSlate
PROPERTY CallsEnd
CHECK_DEADLOCK FALSE
