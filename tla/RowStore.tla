------------------------------ MODULE RowStore ------------------------------
(***************************************************************************)
(* How a handler's copy of a database row reaches the database.  The code  *)
(* never writes SQL for a row it has loaded: it assigns attributes of the  *)
(* object session.get returned and calls session.commit.  The sessions are *)
(* built with expire_on_commit=False (app/db/session.py:18), so the object *)
(* keeps the values of the moment it was loaded however long the handler   *)
(* waits in between.  On commit SQLAlchemy compares each attribute with    *)
(* its LOADED value and sends UPDATE ... WHERE id for the columns that     *)
(* differ, and for no others: a column assigned the value it was loaded    *)
(* with is not written, whatever the table holds by then.                  *)
(***************************************************************************)

\* The value of one column after the flush: the table's own unless the
\* handler gave the column a value other than the one it had loaded.
Flushed(stored, loaded, assigned) ==
    IF assigned # loaded THEN assigned ELSE stored

=============================================================================
