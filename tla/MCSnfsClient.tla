---------------------------- MODULE MCSnfsClient ----------------------------
(***************************************************************************)
(* A small instance of SnfsClient for TLC: the served directory holds a    *)
(* directory with a file in it.                                            *)
(***************************************************************************)
EXTENDS SnfsClientProperties, TLC

CONSTANTS d, f,    \* the two names
          c1, c2   \* the two clients

CallBounds == [c \in Client |-> IF c = c1 THEN 2 ELSE 1]

DirAndFile ==
  [p \in Path |-> CASE p = Root   -> [id |-> 1, dir |-> TRUE]
                    [] p = <<d>>  -> [id |-> 2, dir |-> TRUE]
                    [] p = <<d, f>> -> [id |-> 3, dir |-> FALSE]
                    [] OTHER      -> Absent]

Asked(kinds, paths, targets) == [kind : kinds, path : paths, to : targets]

(* One client uses the file, the other changes the names above it.         *)
SomeCallbacks ==
  c1 :> Asked({"open", "read", "write", "create", "getattr", "unlink"}, {<<d, f>>}, {Root})
        \cup Asked({"create"}, {Root}, {Root}) \cup Asked({"readdir"}, {<<d>>}, {Root})
  @@
  c2 :> Asked({"rename"}, {<<d>>, <<d, f>>}, {<<f>>}) \cup Asked({"mkdir"}, {<<f>>}, {Root})
        \cup Asked({"setattr", "opendir"}, {Root}, {Root}) \cup Asked({"rmdir"}, {<<d>>}, {Root})

(* Every callback on the file or its directory.                             *)
AllCallbacks == [c \in Client |-> Asked(Kind, {<<d>>, <<d, f>>}, {<<f>>})]

(* Handles are only compared for equality.                                  *)
Symmetric == Permutations(Handle)
=============================================================================
