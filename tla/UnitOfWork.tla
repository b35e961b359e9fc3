---- MODULE UnitOfWork ----
(***************************************************************************)
(* The database session a request works with (backend/database/session.py):*)
(* a handler reads a row, computes on its own copy, and commit writes the  *)
(* columns whose value it has changed, whatever the row has become in the  *)
(* meantime: no handler takes a row lock and no table has a version column.*)
(***************************************************************************)
EXTENDS Naturals

\* Mutant: the row is written as the session knows it.
FlushWholeRow(row, read, new) == new

\* A row whose columns are set to what is given for them.
With(row, given) == [c \in DOMAIN row |-> IF c \in DOMAIN given THEN given[c] ELSE row[c]]

\* Mutant: all columns are, as the session knows them.
DirtyWholeRow(read, new) == new

\* The columns a session has changed, with their new values.
Dirty(read, new) == [c \in {d \in DOMAIN read : new[d] # read[d]} |-> new[c]]

\* What row becomes when a session that read "read" commits "new".
Flush(row, read, new) ==
    [c \in DOMAIN row |-> IF new[c] = read[c] THEN row[c] ELSE new[c]]

====
