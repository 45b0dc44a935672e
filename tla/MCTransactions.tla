---------------------------- MODULE MCTransactions ----------------------------
EXTENDS Transactions

CONSTANTS thread1, thread2, other, reader, db1, db2, db3

\* Two threads of one process on its connection, and two more processes.
MCConn ==
    [a \in Actors |-> CASE a = other -> db2 [] a = reader -> db3 [] OTHER -> db1]

\* Every helper is outermost somewhere: the reader begins without the write lock,
\* and makes a COMMIT of the other process fail.
MCOpens ==
    [a \in Actors |-> CASE a = other -> {"conversation", "mutex"}
                        [] a = reader -> {"summary"}
                        [] OTHER -> {"mutex"}]

\* As in this repository: no operation of a store begins a repair.
MCNests == {<<k, l>> \in Kinds \X Kinds : l = "mutex" => k = "mutex"}

MCTimeouts == [a \in Actors |-> {"begin", "commit"}]

\* Bound: nothing is explored after a lapse, where no property says anything.
MCNext == ~lapsed /\ TxNext

MCSpec == TxInit /\ [][MCNext]_txvars

\* The hypothesis of the theorems about Transactions holds of this instance.
ASSUME MCDisciplined == Disciplined
=============================================================================
