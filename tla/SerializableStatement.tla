------------------------ MODULE SerializableStatement ------------------------
(* The statement reader beside transfers of the serializable strategy.      *)
EXTENDS SerializableTransfer, Statement

StatementInit == Init /\ ReaderInit

StatementNext ==
  \/ Next /\ UNCHANGED readerVars
  \/ ReadPage(entries) /\ UNCHANGED vars

StatementSpec == StatementInit /\ [][StatementNext]_<<vars, readerVars>>

\* What the plan's advice to page by cursor and not by offset is meant to give:
\* pages already read never gain an entry.
StablePages == PagesStable(entries)
=============================================================================
