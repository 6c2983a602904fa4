SPECIFICATION Spec
CONSTANTS
  UriLimit = 3
  MaxMethod = 3
  MaxVersion = 4
  MethodBytes = {"G", "e", "T"}
  UriBytes = {"a"}
  VersionBytes = {"/", ".", "-", "1"}
  MaxRequests = 2
INVARIANTS UriFits AcceptsExactlyLines VersionRefused FirstServedAsGet UriIsToken
CHECK_DEADLOCK FALSE
