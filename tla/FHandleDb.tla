----------------------------- MODULE FHandleDb ------------------------------
(***************************************************************************)
(* The file handle database of the SNFS server (lab2/src/server/           *)
(* fhandledb.c): one Berkeley DB file that holds, for every path that has  *)
(* been given a handle, a record handle -> path and a record path ->       *)
(* handle.  The two records are written and deleted one after the other.   *)
(***************************************************************************)
EXTENDS ServedTree

CONSTANTS
  Handle,    \* the values get_random may draw
  NoHandle,  \* find() of a path returns NULL
  NoPath     \* find() of a handle returns NULL

ASSUME Sentinels == NoHandle \notin Handle /\ NoPath \notin Path

Db == [path : [Handle -> Path \cup {NoPath}],
       handle : [Path -> Handle \cup {NoHandle}]]

EmptyDb == [path   |-> [h \in Handle |-> NoPath],
            handle |-> [p \in Path |-> NoHandle]]

get_file(db, h) == db.path[h]

(* Mutant: only the record handle -> path is written.                       *)
MutantInsert(db, p, h) == [db EXCEPT !.path[h] = p]

new_fhandle(db, p, h) == [db EXCEPT !.path[h] = p, !.handle[p] = h]

(* The handles that may be drawn for a new entry.  A 64-bit random value is *)
(* taken never to be drawn twice.                                           *)
generate_new_fhandle(db, drawn) == {h \in Handle \ drawn : get_file(db, h) = NoPath}

(* Mutant: a path that has a handle is given another one.                   *)
MutantFindOrInsert(db, p, drawn) ==
  {[fh |-> h, db |-> new_fhandle(db, p, h)] : h \in generate_new_fhandle(db, drawn)}

(* The handle and the database name_find_or_insert(p) may end with.         *)
name_find_or_insert(db, p, drawn) ==
  IF db.handle[p] # NoHandle THEN {[fh |-> db.handle[p], db |-> db]}
  ELSE {[fh |-> h, db |-> new_fhandle(db, p, h)] :
          h \in generate_new_fhandle(db, drawn)}

(* What name_remove(p) does: it returns false if p has no handle, exits the *)
(* server if the record handle -> path is missing, and else succeeds.       *)
RemoveResult(db, p) ==
  IF db.handle[p] = NoHandle THEN "false"
  ELSE IF db.path[db.handle[p]] = NoPath THEN "exit"
  ELSE "true"

(* Mutant: only the record path -> handle is deleted.                       *)
MutantRemoved(db, p) == [db EXCEPT !.handle[p] = NoHandle]

Removed(db, p) ==
  IF db.handle[p] = NoHandle THEN db
  ELSE [db EXCEPT !.path[db.handle[p]] = NoPath, !.handle[p] = NoHandle]
=============================================================================
