SPECIFICATION ClientSpec
CONSTANTS
  d = d
  f = f
  Name = {d, f}
  MaxDepth = 2
  MaxNode = 4
  Handle = {h1, h2, h3, h4}
  NoHandle = NoHandle
  NoPath = NoPath
  Renames = {"file", "directory"}
  MaxFds = 1
  Ends = {"sigterm"}
  NoRequest = NoRequest
  NoAnswer = NoAnswer
  Client = {c1, c2}
  Callbacks <- SomeCallbacks
  MaxCalls <- CallBounds
  c1 = c1
  c2 = c2
  InitialTree <- DirAndFile
CHECK_DEADLOCK FALSE
INVARIANTS HandlesFit ActsOnce
PROPERTIES SuccessMeansDone
SYMMETRY Symmetric
