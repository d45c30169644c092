-------------------------------- MODULE Null --------------------------------
(* What the tables, the requests and the code have where there is nothing,  *)
(* and how tables, which are functions from keys to rows, get rows.         *)

CONSTANT Nil

\* The row of one key is set.
Put(table, key, row) ==
  [k \in DOMAIN table \cup {key} |-> IF k = key THEN row ELSE table[k]]

\* The rows of one table, and those of another whose keys it does not have.
Over(table, others) ==
  [k \in DOMAIN table \cup DOMAIN others |-> IF k \in DOMAIN table THEN table[k] ELSE others[k]]

=============================================================================
