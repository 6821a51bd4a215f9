----------------------------- MODULE MCDbLayout -----------------------------
(* DbLayout on a medium of five cells, under three firmwares.                 *)
EXTENDS DbLayout, TLC

Table(id, size, ver, secret) == [id |-> id, size |-> size, ver |-> ver, secret |-> secret]

\* The second firmware grows the first table, which moves the second by one
\* cell, and gives the second a new layout version.  The third drops the first
\* table and puts a new one ahead of the second.
First == <<Table(1, 1, 1, FALSE), Table(2, 1, 1, TRUE)>>
Second == <<Table(1, 2, 1, FALSE), Table(2, 1, 2, TRUE)>>
Third == <<Table(3, 1, 1, FALSE), Table(2, 1, 2, TRUE)>>

MCFirmwares == {First, Second, Third}

Interchangeable == Permutations(Values)
=============================================================================
