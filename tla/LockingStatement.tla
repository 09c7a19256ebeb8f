-------------------------- MODULE LockingStatement --------------------------
(* The statement reader beside transfers of the locking strategy.           *)
EXTENDS LockingTransfer, Statement

StatementInit == Init /\ ReaderInit

StatementNext ==
  \/ Next /\ UNCHANGED readerVars
  \/ ReadPage(entries) /\ UNCHANGED vars

StatementSpec == StatementInit /\ [][StatementNext]_<<vars, readerVars>>

\* Pages already read never gain an entry: the row locks are taken before the
\* entry ids are drawn and kept until COMMIT.
StablePages == PagesStable(entries)

\* A statement read to its end is the ledger of that account at one moment.
StatementComplete == [][CompleteWhenDone(entries)]_<<vars, readerVars>>
=============================================================================
