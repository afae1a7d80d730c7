------------------------------ MODULE TaskMemory -------------------------------
(***************************************************************************)
(* The memory stores (in-memory-store.ts, sqlite-memory-store.ts,          *)
(* postgres-memory-store.ts, sql-utils.ts) under the recorder, and a       *)
(* client that reads the entries of a trace page by page from              *)
(* GET /memory/traces/:traceId while others append.                        *)
(*                                                                         *)
(* An entry is stamped when append() is called.  Two of the stores insert  *)
(* it in that call; with PostgreSQL the insert is a query that ends later, *)
(* or fails, which the recorders' callers ignore.  The clock of a process  *)
(* is taken not to run backwards.  An entry is its number, the others of   *)
(* its fields being copied.                                                *)
(***************************************************************************)
EXTENDS Naturals, Sequences, SequencesExt

CONSTANTS
  Histories,   \* trace ids
  PageSize,    \* the limit of a reading
  MaxEntries,  \* bound: calls of append()
  MaxTime      \* bound: the last millisecond

ASSUME MemoryConstants ==
  Histories # {} /\ PageSize \in Nat \ {0} /\ MaxEntries \in Nat /\ MaxTime \in Nat

Backends == {"memory", "sqlite", "postgres"}

VARIABLES
  backend,
  now,        \* the clock, in milliseconds
  appended,   \* for each entry, its trace and its created_at
  rows,       \* the entries of the store, in the order of their insertion
  inserting,  \* entries whose insert has not ended
  reading,    \* the trace that the client reads, or the empty set
  pages,      \* what it has got of it
  \* History, of when the reading began:
  expected,   \* the entries that it would have got in one page
  begun       \* the number of entries that had been appended

memoryVars == <<backend, now, appended, rows, inserting, reading, pages, expected, begun>>

MemoryInit ==
  /\ backend \in Backends
  /\ now = 0
  /\ appended = <<>>
  /\ rows = <<>>
  /\ inserting = {}
  /\ reading = {}
  /\ pages = <<>>
  /\ expected = <<>>
  /\ begun = 0

-------------------------------------------------------------------------------
(* Appending.                                                               *)

\* append().
AppendEntry(t) ==
  /\ Len(appended) < MaxEntries
  /\ appended' = Append(appended, [trace |-> t, at |-> now])
  /\ IF backend = "postgres"
     THEN inserting' = inserting \cup {Len(appended) + 1} /\ UNCHANGED rows
     ELSE rows' = Append(rows, Len(appended) + 1) /\ UNCHANGED inserting
  /\ UNCHANGED <<backend, now, reading, pages, expected, begun>>

\* An insert ends, whichever began first.
EndInsert(e, succeeds) ==
  /\ e \in inserting
  /\ inserting' = inserting \ {e}
  /\ rows' = IF succeeds THEN Append(rows, e) ELSE rows
  /\ UNCHANGED <<backend, now, appended, reading, pages, expected, begun>>

TimePasses ==
  /\ now < MaxTime
  /\ now' = now + 1
  /\ UNCHANGED <<backend, appended, rows, inserting, reading, pages, expected, begun>>

-------------------------------------------------------------------------------
(* Reading.                                                                 *)

\* matchesQuery(), buildWhereClause(): the filters of a query, here the trace.
Matching(t) == {e \in ToSet(rows) : appended[e].trace = t}

Before(d, e) == \E i, j \in DOMAIN rows : rows[i] = d /\ rows[j] = e /\ i < j

\* Mutant: the newest entries come first.
OrdersNewestFirst(t) ==
  {s \in SetToSeqs(Matching(t)) : \A i, j \in DOMAIN s : i < j => Before(s[j], s[i])}

\* The results of a query before its limit: by created_at.  Among equals the sort of the
\* in-memory store, and the row ids of SQLite, keep the order of insertion; PostgreSQL
\* promises none.
Orders(t) ==
  {s \in SetToSeqs(Matching(t)) : \A i, j \in DOMAIN s : i < j =>
     \/ appended[s[i]].at < appended[s[j]].at
     \/ appended[s[i]].at = appended[s[j]].at /\ (backend = "postgres" \/ Before(s[i], s[j]))}

BeginReading(t) ==
  /\ reading = {}
  /\ reading' = {t}
  /\ pages' = <<>>
  /\ expected' \in Orders(t)
  /\ begun' = Len(appended)
  /\ UNCHANGED <<backend, now, appended, rows, inserting>>

\* query() of the next page, with what was read so far as the offset.
ReadPage(t) ==
  /\ t \in reading
  /\ \E s \in Orders(t) :
       LET last == Len(pages) + PageSize
       IN pages' = pages \o SubSeq(s, Len(pages) + 1, IF last > Len(s) THEN Len(s) ELSE last)
  /\ UNCHANGED <<backend, now, appended, rows, inserting, reading, expected, begun>>

MemoryNext ==
  \/ \E t \in Histories : AppendEntry(t) \/ BeginReading(t) \/ ReadPage(t)
  \/ \E e \in inserting, succeeds \in BOOLEAN : EndInsert(e, succeeds)
  \/ TimePasses

MemorySpec == MemoryInit /\ [][MemoryNext]_memoryVars

-------------------------------------------------------------------------------
(* Properties.                                                              *)

\* Nothing that had been appended when the reading began was inserted later, and no two
\* entries of the trace have the same stamp.
Undisturbed(t) ==
  /\ {e \in Matching(t) : e <= begun} = ToSet(expected)
  /\ \A d, e \in Matching(t) : appended[d].at = appended[e].at => d = e

\* A trace that is read page by page while entries are appended to it comes out whole, in
\* order and with nothing twice, from the in-memory store and from SQLite.  From PostgreSQL
\* it does as far as what was there at the beginning goes, if no insert that began earlier
\* ended later and no two entries have the same stamp; else pages may shift.
PagesExact ==
  \A t \in reading :
    /\ backend # "postgres" => \A s \in Orders(t) : IsPrefix(pages, s)
    /\ Undisturbed(t) => IsPrefix(pages, expected) \/ IsPrefix(expected, pages)

===============================================================================
