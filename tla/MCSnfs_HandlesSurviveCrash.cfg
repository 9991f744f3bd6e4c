SPECIFICATION Spec
CONSTANTS
  Name = {a, b}
  MaxDepth = 2
  MaxNode = 3
  Handle = {h1, h2, h3}
  NoHandle = NoHandle
  NoPath = NoPath
  Renames = {"file"}
  MaxFds = 1
  Ends = {"sigterm", "crash"}
PROPERTY HandlesSurviveCrash
