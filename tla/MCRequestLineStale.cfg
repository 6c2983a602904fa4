SPECIFICATION Spec
CONSTANTS
  UriLimit = 4
  MaxMethod = 3
  MaxVersion = 3
  MethodBytes = {"G", "e", "T"}
  UriBytes = {"a"}
  VersionBytes = {"/", ".", "1"}
  MaxRequests = 2
INVARIANTS ServedAsGet
CHECK_DEADLOCK FALSE
