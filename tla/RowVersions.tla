---------------------------- MODULE RowVersions ----------------------------
(***************************************************************************)
(* The rows of a PostgreSQL table under READ COMMITTED, as the handlers    *)
(* see them: a row has a committed version and, while the transaction      *)
(* `by` holds its lock, the version that transaction has written.  Others  *)
(* read the committed version and wait to write until the lock is free.    *)
(***************************************************************************)
CONSTANT Null

Committed(value) == [cur |-> value, new |-> value, by |-> Null]

RowVersion(Value, Writer) == [cur : Value, new : Value, by : Writer \cup {Null}]

\* What a statement of transaction t reads: its own write, else the last commit.
Read(row, t) == IF row.by = t THEN row.new ELSE row.cur

Write(row, t, value) == [cur |-> row.cur, new |-> value, by |-> t]

\* The whole table when t commits, and when t rolls back.
Publish(table, t) ==
  [k \in DOMAIN table |-> IF table[k].by = t THEN Committed(table[k].new)
                                             ELSE table[k]]
Discard(table, t) ==
  [k \in DOMAIN table |-> IF table[k].by = t THEN Committed(table[k].cur)
                                             ELSE table[k]]

\* The last committed state of a table.
Current(table) == [k \in DOMAIN table |-> table[k].cur]
=============================================================================
