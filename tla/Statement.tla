------------------------------ MODULE Statement ------------------------------
(***************************************************************************)
(* A client that reads an account's statement page by page, passing each   *)
(* page's next_after to the next request, until a page has none.  The log  *)
(* of committed entries is a parameter: the modules that compose this      *)
(* reader with an executor pass their entries table.                       *)
(***************************************************************************)
EXTENDS Ledger, FiniteSetsExt

CONSTANTS Account,  \* whose statement is read
          Limit     \* entries per page

ASSUME StatementAssumption == Account \in Accounts /\ Limit \in Nat \ {0}

VARIABLES cursor,  \* the after of the next request
          got,     \* ids of the entries returned so far
          done     \* the last page had no next_after

readerVars == <<cursor, got, done>>

\* The ids of the account's committed entries.
EntryIds(log) == {e.id : e \in {log[i] : i \in {j \in 1 .. Len(log) : log[j].account = Account}}}

\* ListByAccount: the first n ids above after.
ListByAccount(log, after, n) ==
  LET above == {x \in EntryIds(log) : x > after} IN
    {x \in above : Cardinality({y \in above : y <= x}) <= n}

ReaderInit == cursor = 0 /\ got = {} /\ done = FALSE

\* Variant: the cursor is the extra row that was fetched to see if there are
\* more pages.
ReadPageExtra(log) ==
  LET rows == ListByAccount(log, cursor, Limit + 1)
      more == Cardinality(rows) > Limit
      page == IF more THEN rows \ {Max(rows)} ELSE rows
  IN  /\ ~ done
      /\ got' = got \cup page
      /\ cursor' = IF more THEN Max(rows) ELSE cursor
      /\ done' = ~ more

\* One request for a page: AccountService.Entries reads Limit + 1 rows, returns
\* Limit, and sets NextAfter if there was one more.
ReadPage(log) ==
  LET rows == ListByAccount(log, cursor, Limit + 1)
      more == Cardinality(rows) > Limit
      page == IF more THEN rows \ {Max(rows)} ELSE rows
  IN  /\ ~ done
      /\ got' = got \cup page
      /\ cursor' = IF more THEN Max(page) ELSE cursor
      /\ done' = ~ more

\* Pages that were read stay as they were: no entry turns up before one that
\* the client was given, or behind the cursor (ListByAccount pages by id).
PagesStable(log) ==
  \A x \in EntryIds(log), y \in got \cup {cursor} : x <= y => x \in got

\* A statement read to the end is exactly the account's entries at the moment
\* of the last page, although the pages were read at different moments: what
\* the client adds up is the balance at that moment.
CompleteWhenDone(log) == done' /\ ~ done => got' = EntryIds(log)
=============================================================================
