SPECIFICATION Spec
CONSTANTS
  Name = {a, b}
  MaxDepth = 2
  MaxNode = 3
  Handle = {h1, h2, h3, h4}
  NoHandle = NoHandle
  NoPath = NoPath
  Renames = {"file"}
  MaxFds = 1
  Ends = {"sigterm"}
SYMMETRY Symmetric
PROPERTY HandlesImplementMap
