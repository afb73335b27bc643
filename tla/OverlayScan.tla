---------------------------- MODULE OverlayScan ----------------------------
(***************************************************************************)
(* Overlay.Scan and overlayIter.Next of storage/storage.go: the merge of a *)
(* snapshot iterator with the entries a transaction has buffered, driven   *)
(* by a statement that goes on writing to the buffer between two rows.     *)
(*                                                                         *)
(* One action is one turn of the loop in Next, the call of base.Next being *)
(* a turn of its own.  The iterator's position in the base is the set of   *)
(* keys it has not returned yet, its position in the entries likewise.     *)
(***************************************************************************)
EXTENDS OrderedWriteSet

CONSTANTS NoRow,     \* the iterator has not produced a row
          NoKey      \* the nil bound of a range, and baseValid = false

ASSUME RowAssumption == NoKey \notin Int /\ NoRow \notin Int \X (Value \cup {Absent, NoEntry})

VARIABLES
  base,       \* the snapshot under the overlay
  buf,        \* the buffer of the transaction, written by the statement
  entries,    \* overlayIter.buf: the entries of the range when Scan was called
  left,       \* the keys of entries[bi:]
  baseLeft,   \* the keys the base iterator has not returned yet
  needBase,   \* overlayIter.needBase
  baseKey,    \* the key the base iterator stands on, NoKey if baseValid is FALSE
  row,        \* overlayIter.key and value
  pc,         \* "closed", "open" or "done"
  seen        \* history: what the transaction saw in the range at Scan

vars == <<base, buf, entries, left, baseLeft, needBase, baseKey, row, pc, seen>>

TypeOK ==
  /\ base \in Store
  /\ buf \in Buffer
  /\ entries \in Buffer
  /\ left \subseteq Key
  /\ baseLeft \subseteq Key
  /\ needBase \in BOOLEAN
  /\ baseKey \in Key \cup {NoKey}
  /\ row \in (Key \X Value) \cup {NoRow}
  /\ pc \in {"closed", "open", "done"}
  /\ seen \in Store

Init ==
  /\ base \in Store
  /\ buf \in Buffer
  /\ entries = EmptyBuffer
  /\ left = {}
  /\ baseLeft = {}
  /\ needBase = TRUE
  /\ baseKey = NoKey
  /\ row = NoRow
  /\ pc = "closed"
  /\ seen = EmptyStore

\* The keys of [lo, hi); NoKey is the nil bound.
InRange(lo, hi) == {k \in Key : /\ lo # NoKey => lo <= k
                                /\ hi # NoKey => k < hi}

Least(k, S) == k \in S /\ \A j \in S : k <= j

\* Overlay.Scan(start, end) with Buffer.rangeEntries: an inverted range is
\* empty.
Scan ==
  /\ pc = "closed"
  /\ \E lo, hi \in Key \cup {NoKey} :
        LET range == InRange(lo, hi) IN
        /\ entries' = Part(buf, range)
        /\ left' = Touched(buf) \cap range
        /\ baseLeft' = {k \in range : base[k] # Absent}
        /\ seen' = [k \in Key |-> IF k \in range THEN Overlay(base, buf)[k] ELSE Absent]
  /\ needBase' = TRUE
  /\ baseKey' = NoKey
  /\ pc' = "open"
  /\ UNCHANGED <<base, buf, row>>

\* Broken variants of the actions below, not part of the specification.

\* Entries sorts into the slice it returned last.
WritesThrough ==
  /\ pc = "open"
  /\ \E k \in Key, cell \in Cell :
        /\ buf' = Mutate(buf, k, cell)
        /\ entries' = IF k \in Touched(entries) THEN Mutate(entries, k, cell) ELSE entries
  /\ UNCHANGED <<base, left, baseLeft, needBase, baseKey, row, pc, seen>>

\* An exhausted base is asked again.
BaseNextForever ==
  /\ pc = "open"
  /\ needBase
  /\ needBase' = (baseLeft = {})
  /\ \/ baseLeft = {} /\ baseKey' = NoKey /\ UNCHANGED baseLeft
     \/ \E k \in Key : Least(k, baseLeft) /\ baseKey' = k /\ baseLeft' = baseLeft \ {k}
  /\ UNCHANGED <<base, buf, entries, left, row, pc, seen>>

\* A tombstone is produced like any other entry.
TakeTombstone ==
  /\ pc = "open"
  /\ ~needBase
  /\ \E k \in left :
        /\ Least(k, left)
        /\ baseKey # NoKey => k <= baseKey
        /\ left' = left \ {k}
        /\ needBase' = (baseKey = k)
        /\ row' = <<k, entries[k]>>
  /\ UNCHANGED <<base, buf, entries, baseLeft, baseKey, pc, seen>>

\* The base key that an entry replaces is not passed with it.
TakeEntryKeepsBase ==
  /\ pc = "open"
  /\ ~needBase
  /\ \E k \in left :
        /\ Least(k, left)
        /\ baseKey # NoKey => k <= baseKey
        /\ left' = left \ {k}
        /\ row' = IF entries[k] = Absent THEN row ELSE <<k, entries[k]>>
  /\ UNCHANGED <<base, buf, entries, baseLeft, needBase, baseKey, pc, seen>>

\* The statement writes between two rows: Buffer.Put or Buffer.Delete.  The
\* next call of Entries sorts into a fresh slice, so the one this scan holds
\* keeps its entries.
StatementWrites ==
  /\ pc = "open"
  /\ \E k \in Key, cell \in Cell : buf' = Mutate(buf, k, cell)
  /\ UNCHANGED <<base, entries, left, baseLeft, needBase, baseKey, row, pc, seen>>

\* m.baseValid = m.base.Next()
BaseNext ==
  /\ pc = "open"
  /\ needBase
  /\ needBase' = FALSE
  /\ \/ baseLeft = {} /\ baseKey' = NoKey /\ UNCHANGED baseLeft
     \/ \E k \in Key : Least(k, baseLeft) /\ baseKey' = k /\ baseLeft' = baseLeft \ {k}
  /\ UNCHANGED <<base, buf, entries, left, row, pc, seen>>

\* The buffer wins, on ties too; a tombstone produces no row.
TakeEntry ==
  /\ pc = "open"
  /\ ~needBase
  /\ \E k \in left :
        /\ Least(k, left)
        /\ baseKey # NoKey => k <= baseKey
        /\ left' = left \ {k}
        /\ needBase' = (baseKey = k)
        /\ row' = IF entries[k] = Absent THEN row ELSE <<k, entries[k]>>
  /\ UNCHANGED <<base, buf, entries, baseLeft, baseKey, pc, seen>>

TakeBase ==
  /\ pc = "open"
  /\ ~needBase
  /\ baseKey # NoKey
  /\ \A k \in left : baseKey < k
  /\ row' = <<baseKey, base[baseKey]>>
  /\ needBase' = TRUE
  /\ UNCHANGED <<base, buf, entries, left, baseLeft, baseKey, pc, seen>>

Exhausted ==
  /\ pc = "open"
  /\ ~needBase
  /\ baseKey = NoKey
  /\ left = {}
  /\ pc' = "done"
  /\ UNCHANGED <<base, buf, entries, left, baseLeft, needBase, baseKey, row, seen>>

Next == Scan \/ StatementWrites \/ BaseNext \/ TakeEntry \/ TakeBase \/ Exhausted

Spec == Init /\ [][Next]_vars

\* The caller keeps calling Next until it reports the end, as runUpdate and
\* runDelete do; how often it writes in between does not matter.
FairSpec == Spec /\ WF_vars(BaseNext \/ TakeEntry \/ TakeBase \/ Exhausted)

-----------------------------------------------------------------------------
(***************************************************************************)
(* Properties.                                                             *)
(***************************************************************************)
Pending == {k \in Key : seen[k] # Absent /\ (row # NoRow => row[1] < k)}

\* The base keys the merge has still to look at.
BasePending == baseLeft \cup (IF needBase \/ baseKey = NoKey THEN {} ELSE {baseKey})

\* Where the two iterators stand.  Both are ahead of the row that was
\* produced last, neither has passed a row that is still to come, and a base
\* key that an entry shadows is still ahead together with its entry.
MergeOK ==
  /\ pc = "closed" => row = NoRow
  /\ pc = "open" =>
     /\ left \subseteq Touched(entries)
     /\ \A k \in BasePending : base[k] # Absent
     /\ \A k \in BasePending : k \in Touched(entries) => k \in left
     /\ \A k \in left \cup BasePending : row # NoRow => row[1] < k
     /\ Pending \subseteq left \cup BasePending
     /\ \A k \in left : seen[k] = entries[k]
     /\ \A k \in BasePending \ left : seen[k] = base[k]
     /\ ~needBase /\ baseKey = NoKey => baseLeft = {}
     /\ ~needBase /\ baseKey # NoKey => \A k \in baseLeft : baseKey < k

\* A scan produces the rows the transaction saw when it opened the scan,
\* each once and in key order: the writes of the statement it drives, an
\* UPDATE that moves rows ahead of the scan say, do not show up in it
\* (storage.go:181-196, 255-312).
Frozen == INSTANCE FrozenScan WITH contents <- seen, rest <- Pending, phase <- pc
ImplementsFrozenScan == Frozen!Spec

\* The loop in Next, which goes round without producing a row for every
\* tombstone, comes to the end of the scan.
ScanEnds == pc = "open" ~> pc = "done"
=============================================================================
