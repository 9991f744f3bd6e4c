SPECIFICATION Spec
CONSTANTS
  Name = {a, b}
  MaxDepth = 2
  MaxNode = 4
  Handle = {h1, h2, h3}
  NoHandle = NoHandle
  NoPath = NoPath
  Renames = {"file", "overwrite", "directory"}
  MaxFds = 1
  Ends = {"sigterm", "crash"}
SYMMETRY Symmetric
INVARIANTS TypeOK Paired GrantedHandleWorks
PROPERTIES ErrorChangesNothing RenameKeepsFile
