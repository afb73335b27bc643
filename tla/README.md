# Formal models of keelsql

keelsql is a small SQL database engine in Go over an ordered key/value store,
keelstore. This directory holds TLA+ models of its core: transactions and
sessions, the write buffer and its merging iterator, row and index maintenance,
schema changes, statements that write while they scan, the planner's choice of
an access path together with the key encoding it relies on, the operators of
a SELECT, and expressions from their text to their value. TLC checks the
models on small instances; TLAPS proves the central theorems for every value of
the constants. Line numbers refer to the files of the repository, with `src/`
left out.

To run one check: `tlc -workers 2 -config KeelTx_atomic.cfg MCKeelTx`. To check
the proofs: `tlapm KeelTx_proof.tla`, and the same for the other modules whose name
ends in `_proof`.

## The system

| component | files | state | operations |
|---|---|---|---|
| Transaction engine | `keelsql.go` | keelstore, `commitMu`, per `Tx`: snapshot, buffer, `done` | `Open`, `begin`, `Commit`, `Rollback`, `Close` |
| Sessions and cursors | `conn.go` | `Conn.tx`; per `Rows`: operator tree, transaction, `owned` | `Exec`, `Query`, `BEGIN`/`COMMIT`/`ROLLBACK`, `Rows.Next`, `Rows.Close`, `ExecScript`, `EXPLAIN` |
| Write buffer and overlay | `storage/storage.go` | map of buffered entries, sorted entries, iterator positions | `Put`, `Delete`, `Get`, `Scan`, `overlayIter.Next` |
| In-memory store | `storage/memory.go` | sorted keys and values | the store interface, for tests |
| Catalog | `catalog/catalog.go` | tables by name, identifier counters, in memory and in the store | `Load`, `Create`, `Drop`, `AddIndex`, `RemoveIndex`, lookups |
| Row and index maintenance | `exec/dml.go` | none of its own; writes an overlay | `Mutator.Insert/Update/Delete`, `runInsert/runUpdate/runDelete`, `BuildIndex`, `DropIndexEntries`, `DropTableData` |
| Planner | `plan/*.go` | none | `Build`: binding, conjuncts, ranges, costs, access path, sort elimination |
| Executor | `exec/operators.go`, `exec/aggregate.go`, `exec/eval.go` | per operator: position, heap, groups | scans, filter, project, sort, top-N, limit, distinct, aggregate, expressions |
| Key encoding | `keycodec/*.go` | none | `Encode`, `Decode`, row and index keys, `PrefixEnd`, rows |
| Values | `types/*.go` | none | two orders, three-valued logic, arithmetic, LIKE, coercion |
| Lexer, parser, syntax tree | `lexer`, `parser`, `ast`, `format.go` | none | text to tree and back |
| Command line | `cmd/keelsql` | one `Conn` | a read-eval-print loop |
| keelstore | another module | the database's contents | single-key writes, snapshots, ordered iteration |

**How they interact.** A session hands a statement to the planner, which reads
the catalog; it then asks the engine for a transaction, or uses the one `BEGIN`
opened. A transaction is a snapshot of the store with a buffer over it. A DML
statement pulls rows out of an operator tree that reads that overlay and writes
through the mutator into the same overlay. `Commit` takes the write side of
`commitMu` and applies the buffer to the store key by key; `begin` takes the
read side around the snapshot. A schema change takes the write side for its
whole length and writes to the store directly. A query hands its transaction to
a cursor, which finishes it on `Close` unless it was borrowed from the session.

**What is hard about it.** Sessions run concurrently, one goroutine each. A
commit is many store writes that must look like one; any write may fail and the
process may die between two of them. Snapshots are released on many paths,
most of them error paths. The catalog is not versioned with the data, so a plan
may be older or younger than the snapshot it runs on. UPDATE reads the overlay it
writes. Index entries and rows are separate keys that nothing but discipline
keeps together. A range of values becomes a range of bytes, and the comparison
behind it is then never evaluated again. Expressions above a `GROUP BY` are found
by the text they print as, so what printer, parser and evaluator each do with an
expression has to fit together.

**What makes each part correct.**

- Transactions: a transaction sees one committed state and its own writes; a
  commit is one step to everyone else, and after a failure a prefix of one.
- Sessions: every snapshot is released exactly once, whatever path is taken.
- Overlay: a scan gives the rows visible when it was opened, once, in order.
- Rows and indexes: an index holds one entry per row and nothing else, in the
  store and in every transaction's view; statements act on the rows they read.
- Catalog: an identifier is never given out twice.
- Planner and key encoding: whatever path is chosen gives the rows that the
  WHERE clause is TRUE of, in the order the path claims.
- Executor: what the operators return row by row is what the statement means,
  whichever of them the planner left out, bounded or starved of columns.
- Expressions: what is printed reads back; what is evaluated is what SQL means,
  NULLs included; above the groups an expression is worth what it is worth on the
  rows of the group.

## Modules

Broken variants of some definitions stand next to them and are named as such;
no specification uses them. They are the plausible bugs that show what each
property notices.

**`WriteSet`, `OrderedWriteSet`.** A store is a function from keys to values or
`Absent`; a buffer one from keys to values, `Absent` (a tombstone) or `NoEntry`.
`Overlay` is `Overlay.Get` for every key, `Part` and `Prefix` describe pieces of
a write set in key order.

**`SnapshotTx`** is the abstract specification of a transaction, as the comment
on `Tx` promises it (`keelsql.go:118-139`): `Begin` copies the database, `Write`
changes the write set, `Commit` overlays the database with it in one step and
unconditionally. `Torn` and `Crash` weaken this for a store that fails: an
initial segment of the write set, in key order, stays.

**`KeelTx`** is the engine with its sessions. `store` is keelstore; `readers`
and `writer` are `commitMu`; `pinned`, `snap` and `buf` are the `Tx` objects not
`done`; `ctx[c]` is `Conn.tx`; `rows[c]` and `owned[c]` are the session's open
cursor; `pc[c]`, `run[c]`, `stmt[c]` and `todo[c]` are where the session's
goroutine is. `OpenTx`, `JoinDml`, `JoinQuery`, `Commit`, `Rollback` and
`CloseRows` are calls by the client; `RLock` and `Snapshot` are `begin`; `Write`,
`DmlDone`, `DmlFailed`, `CursorOpened`, `CursorFailed` are the body of `dml` and
`query` with every way out; `Lock`, `Drain`, `Apply`, `Applied`, `ApplyFailed` are
`Commit`, one store write per step. `Crash` is the death of the process and
`Open`. What a statement computes is any sequence of writes.

**`Mutator`** gives the buffer that `Mutator.Insert`, `Update` and `Delete`
leave, over keys that are distinct tuples, and says when an index is `Exact`.
`Alike` holds the pairs of primary keys that differ and that `types.Equal` takes
for one, as it does 0.0 and -0.0: `Update` then deletes nothing and writes
another row.

**`KeelDB`** puts contents into transactions: rows, index entries and the
catalog. It uses the transaction of `SnapshotTx`, which `KeelTx` implements, so
a commit is one step here. `Plan` reads the catalog before `Begin` takes the
snapshot; `RunInsert`, `RunUpdate`, `RunDelete`, `DmlFailed`, `Commit` and
`Rollback` follow `Conn.dml`. A schema change (`CreateTable`, `CreateIndex`,
`DropIndex`, `DropTable`) takes the lock, `DdlWrite` is one store write, `DdlDone`
the change of the catalog at the end, `DdlFailed` and `Crash` cut it short.
`EveryRowIndexed` is stated of the store and of the view of every transaction that
runs a statement planned through the index. The
history variables `used`, `dirty` and `anomalies` are read by properties only.

**`FrozenScan`** is what a scan promises: the rows visible at its start, in key
order, each once. **`OverlayScan`** is `Overlay.Scan` and `overlayIter.Next`, a
turn of the loop per action, with the statement writing to the buffer between
any two turns. `baseLeft`, `baseKey` and `needBase` are the base iterator's
position, `left` the unread part of the sorted entries.

**`RowLoop`** is `runInsert`, and `runUpdate` and `runDelete` over a table scan or
an index scan, several statements in one transaction. The iterator underneath is the one of
`FrozenScan`; an index scan fetches each row from the overlay as it is when the
entry is reached. `RowFails` is every way a statement can stop half way. The
history variable `spoilt` holds the keys between which a row was moved although
they are `Alike`; the properties except these keys.

**`KeyCodec`** has the values, `types.Order` (`Before`), `types.Compare`
(`Less`), and `Encode`, `Decode`, keys and `PrefixEnd` on bytes of a few bits.
**`Range`** is `plan/range.go` over any order. **`AccessPath`** is the planner's
loop over conjuncts (`Push`, `Leave`) and its choice (`Choose`), followed by what
the chosen scan and the filter over it produce, compared with the WHERE clause
evaluated on every row there can be.

**`Query`** is a SELECT above its scan. `Sorts`, `SortLimit` and `Mask` are what
`plainSelect` and `groupedSelect` decide; `feed` is what the lowest operator that
has not drained its input has yet to produce, and each action is the way of one
row from there: dropped by the filter, folded into a group, kept or evicted by
the sort, dropped by DISTINCT or OFFSET, or returned. `Answer` is the meaning of
the statement, computed from the whole input at once: `Groups` of the rows the WHERE
clause keeps, `Sorted`, `Projected`, without the rows that are equal to an earlier one
(`Firsts`), `Windowed`. It tells values apart as `types.Order` does; `AnswerByKey` is the
same by their encodings (`GroupsOf`, `Deduplicated`), which is what the code goes by.
`Working` says how far the operators are with the latter: `Below` are the rows of the scan
or of the Aggregate, `Top` these in the order of the Sort, `Fed` and `Through` how many of
them the Sort has read and how many went on to DISTINCT and LIMIT. `AnswerIsQuery` excepts
two things by name: what is not `InOrder`, a NaN with its sign bit set among values that
are grouped by or read in the order of an index; and `EncodedApart`, values that are equal
and encoded apart where the statement tells rows apart by them. The second exception does
not apply to `EncodingsDecide`, which says what comes of such values.

**`Syntax`** is an expression as text and as tree. `String` is the printer
(`ast/print.go`) with its few parentheses, `Lex` the lexer, `Parse` the parser's
precedence climbing (`parser/parser.go:622-891`), with the same division into
`Expr`, `Climb`, `Postfix`, `Unary`, `Primary` and `FuncCall`. A text is a sequence
of symbols; a word or a digit is one symbol, and inside a string every character
is. `Written` is the text of a client who leaves nothing to precedence: it stands
for the input, not for code.

**`Evaluator`** is `exec/eval.go` over `types/logic.go` and `types/ops.go`: `Eval`
and `EvalPredicate` with the operands they skip and the failures they return, the
single backtracking position of `Like`, and for a grouped query the environment
(`Collect`, `GroupEnv`) and the test `CheckGrouped` of `plan/build.go`.

**`Expressions`** takes one expression through them: `ParseClause`, then `Explain`
and `SendBack`, or `Run` on a row, or `GroupBy` with any of its parts as keys.
`Meaning` is what SQL says: an AND is true if it is true whatever the NULLs in it
stand for, BETWEEN and IN are abbreviations, a pattern either matches or does not.

**`MCKeelTx`, `MCKeelDB`, `MCOverlayScan`, `MCRowLoop`, `MCAccessPath`, `MCQuery`,
`MCExpressions`** give the constants values. **`KeelTx_proof`, `OverlayScan_proof`,
`RowLoop_proof`, `KeelDB_proof`, `AccessPath_proof`, `Query_proof`** hold the theorems
about the specifications they are named after. `RowLoop_proof` and `KeelDB_proof` rest
on the lemmas of **`Mutator_proof`**, `AccessPath_proof` and `Query_proof` on those of
**`KeyCodec_proof`**.

`KeelTx` composes with `KeelDB` through `SnapshotTx`, and `OverlayScan` with
`RowLoop` through `FrozenScan`: in both pairs the detailed module is proved to
implement the abstract one and the other is written over the abstract one.

## Runs

| run | what it checks | instance |
|---|---|---|
| `KeelTx_atomic` | `TypeOK`, `NoSnapshotLeak`, `Ownership`, `IInv`, `ImplementsSnapshotTx` | 2 sessions, 4 transactions, 2 keys, 1 value and tombstones, every kind of statement, no faults |
| `KeelTx_faulty` | `StoreIsCommittedPlusPrefix`, `ImplementsSnapshotTx`, `MutexIsNeverStuck` | 2 sessions, 2 transactions, 2 keys, BEGIN and DML, puts that fail and crashes, fairness |
| `KeelTx_cursor` | violates `CursorHoldsSnapshot` | as `KeelTx_atomic` |
| `KeelDB_indexes` | `TypeOK`, `IndexExactUnlessSpoilt`, `ViewExact`, `FreshIdsAreUnused`, `IInv` | 2 sessions, 2 primary keys, 2 values, 2 table and 2 index identifiers, `MaxStatements` 6, faults |
| `KeelDB_schema_race` | violates `EveryRowIndexed` | 1 table and 1 index identifier, `MaxStatements` 4, no faults |
| `KeelDB_conflict` | violates `NoDanglingEntry` | the same, `MaxStatements` 5 |
| `OverlayScan` | `TypeOK`, `MergeOK`, `ImplementsFrozenScan`, `ScanEnds` | 3 keys, 1 value and tombstones, every range, fairness |
| `RowLoop` | `TypeOK`, `PendingUntouched`, `IndexStaysExact`, `ReadsBeforeWrites`, `Ledger` | 3 primary keys of which 2 compare equal, 2 values, `MaxStatements` 2 |
| `AccessPath` | `TypeOK`, `RangesFit`, `RowsAreWhere`, `RowsInOrder`, `ScanStaysInside`, `EntriesDecode` | `SignBit` 4, which is numbers and bytes of 3 bits, TEXT of at most 2 bytes out of 0, 1 and 7, `MaxConjuncts` 2, 8 literals, 3 table identifiers, 3 primary keys |
| `AccessPath_null` | violates `NullNeverMatches` | the same, `MaxConjuncts` 1 |
| `Query` | `TypeOK`, `Working`, `AnswerIsQuery`, `EncodingsDecide`, `HeapHoldsFirst`, `GroupsAreExact` | `MaxRows` 3, 3 values of each column, 4 `Windows`, integers of 3 bits |
| `Expressions` | `TypeOK`, `ParserReads`, `PrintReadsBack`, `SqlMeaning`, `GroupedMeaning` | about 10 000 `Clauses`, 9 rows of an INT and a BOOL column, `MaxKeys` 2 over about 500 `GroupedClauses` |

**What the passing runs show.** `KeelTx_atomic`: with two sessions in any
interleaving, transactions are those of `SnapshotTx`, and no path forgets a
snapshot or releases one twice. `KeelTx_faulty`: the same when the store
refuses a put or the process dies, where a commit leaves an initial segment of
its write set, and `commitMu` is always given up. `KeelDB_indexes`: an index is
exact whenever none of four named things has happened (two transactions wrote
one row unseen by each other, a transaction planned before CREATE INDEX committed
after it, a schema change was cut short, an UPDATE moved a row between two keys that
compare equal); and a transaction that began with a
complete index and knows it sees the same rows through it as in the table. And
whatever a stale plan, a failed schema change or a crash leaves
behind carries an identifier that is never given out again. `OverlayScan`,
`RowLoop`: a statement that writes to the overlay it scans acts on each row it
read once, as if it had read them all first. `AccessPath`: range, cost, path and
residual filter give the rows of the WHERE clause, and a scan stays inside its
table or index, except as said below. `Query`: with
one ORDER BY and one GROUP BY key the answer is right however WHERE, DISTINCT, LIMIT and
OFFSET are combined with them, but for the two zeros where they are told apart, which
make two groups or two rows; the bounded sort keeps what a full sort would put first,
the accumulators are exact after every row, and DISTINCT and the window have let
through what they should of the rows so far. `Expressions`: the parser reads
what was meant; the printer's text reads back as the same tree, or one of four
named things is in it, and then it never does; the two evaluators agree with each
other and with SQL wherever SQL gives a meaning; and grouping changes no value
except in the two ways named.

**Why the bounds are enough.** Two sessions are enough for two commits, a commit
and a `begin`, or a schema change and a statement, to interleave; the code has no
rule about three. Four transactions let each session have an open cursor and a
transaction beside it. Two keys are the least for a commit to be half applied,
three for a merge to have one before, at and behind its position, and for a row
to move past another one. Two values tell an entry of the old row from one of the
new. In `KeelDB`, six statements are a table, an index and four more, of which
three are enough for two transactions to collide over a row that a third put
there, and four for a table or an index to be dropped and made again under a
statement that was planned before. Two identifiers of each kind are the least for one to be reused. `MaxStatements` 2
runs a statement over what an earlier one, failed or not, left in the buffer. Three
bits give every kind a negative number, zero and both ends, a float two zeros,
infinities and NaNs, and a byte that overflows in `PrefixEnd`; the bytes 0, 1 and
the last are those the escape treats differently. Two conjuncts are the least for
two bounds of one column, or bounds of two columns, to meet. Three rows are the
least for a heap of two to evict, with ties before and behind the evicted row; the
windows are none, one without rows, one inside three rows and one behind their end,
whose LIMIT + OFFSET does not fit three bits. The clauses of `Expressions` have
every operator over every kind of leaf, every operator as either operand of every
other, and every text of up to three characters against every pattern of up to
three, which is two wildcards and a literal between or around them; precedence and
three-valued logic have rules about an operator and its operand and about nothing
deeper. Two keys let two of them print alike. Sessions,
transactions, primary keys and values are interchangeable where a cfg declares
symmetry, which is used with safety properties only; keys of a commit, keys of a
scan and numbers are ordered and never symmetric.

**Deadlock** is checked for `KeelTx` and `KeelDB`. It is off where the modelled
thing ends by design: a scan that is done, the last of `MaxStatements`
statements, a path that is chosen, a query that is answered, an expression that
was evaluated.

**Fairness.** A goroutine inside `begin` or `Commit` keeps running, so `Snapshot`,
`Drain` and the loop of `Apply` are weakly fair. `RLock` and `Lock` compete, and are
strongly fair because of `sync.RWMutex`: a leaving writer lets the waiting readers
in, and the inner mutex hands itself over in order once a waiter has starved. No
fairness is assumed of clients: they need not commit, close a cursor or send
another statement. In `OverlayScan` the iterator is weakly fair because
`runUpdate` and `runDelete` call `Next` until it reports the end or an error ends
the statement.

## Where code and comments disagree

1. **A cursor outlives its snapshot** (`KeelTx_cursor`). `COMMIT` and `ROLLBACK`
   release the transaction's snapshot while a cursor of the session that borrowed
   it is open (`conn.go:121-140`, `204-215`); the comment on `Query` says that an
   open cursor holds the snapshot it is reading (`conn.go:90-91`).
2. **A row without its index entry** (`KeelDB_schema_race`). The catalog is not
   versioned with the snapshot. A transaction that wrote a row before `CREATE
   INDEX` plans its next statement through the index and does not find its own row;
   once it has committed, nobody does. The comment on `Mutator` says that an entry
   cannot be forgotten (`exec/dml.go:25-26`), the one on `Tx` that every statement
   reads the database as it was when the transaction began (`keelsql.go:123-125`).
3. **An entry without its row** (`KeelDB_conflict`). Last-writer-wins is applied key
   by key, and the entries of a row are other keys than the row. Two transactions
   that update one row leave an entry of the first beside the row of the second, or
   beside none; the comment in the index scan says this should never happen
   (`exec/operators.go:164-166`).
4. **`k < c` returns NULLs** (`AccessPath_null`). The range of an upper bound alone
   starts where the entries of NULL are, and the comparison is consumed
   (`plan/range.go:130`, `plan/build.go:525`); the filter's comment says that only
   TRUE keeps a row (`exec/operators.go:208`).

5. **0.0 and -0.0 are two groups**. The comment on `types.Order` says that GROUP BY and
   DISTINCT use it (`types/value.go:222-224`), and for it the two zeros of a FLOAT are
   one value. The operators go by `keycodec.Key` instead (`exec/aggregate.go:75`,
   `exec/operators.go:285`), as README.md:393 and the comment on `distinct` say
   (`exec/operators.go:271-273`), and the two have different encodings, although the
   comment on `Order` says that the encoding reproduces it byte for byte. So `SELECT
   DISTINCT a` returns both zeros, and `GROUP BY a` makes a group of each, where ORDER BY,
   MIN, MAX and `=` take them for one value. No run of its own shows this: `AnswerIsQuery`
   has `Order` for its reference and excepts such values by the name `EncodedApart`, and
   TLC finds two rows and DISTINCT as soon as that name is taken out of it.
   `EncodingsDecide` checks, and `KeysTellApart` proves, what the code makes of them.

`AccessPath` names what it excuses in `Blind`: the NULLs of point 4, and FLOAT
values whose keys are not in the order of the values. -0.0 equals 0.0 and has
another key, so a row with one of them may be missed, or added, by a range that ends at
the other; a NaN with its sign bit set has a key in front of every number. Both
are reached through an index on a FLOAT column only. In the same way `RowLoop` excepts an UPDATE of a primary key
from 0.0 to -0.0: `types.Equal` takes the two for one key (`exec/dml.go:64`), so
the row is stored a second time under its new key and the old one stays.

`Query` excepts the same NaN (`InOrder`). `Encode` flips every bit of a float with its
sign bit set, and a NaN may have one: of `x - x` and `-(x - x)`, where `x` overflowed to
infinity, one does. Its group comes before all others, and so does its row in an index
that replaces a sort, where the comment says that NaN encodes above +Inf
(`keycodec/value.go:46`) and README.md:402-403 that sorting the keys sorts the groups by
value. TLC finds it as soon as `ValuesOfA` holds such a value and `InOrder` is taken out
of `AnswerIsQuery` and `EncodingsDecide`.

`Expressions` names what it excepts, too:

- `Misprinted`: `-(-a)` prints as `--a`, which begins a comment (`ast/print.go:89`);
  the pattern of a LIKE is printed at comparison level and parsed one level tighter
  (`ast/print.go:136`, `parser/parser.go:732`), although precedences are shared "so
  the two cannot drift apart" (`ast/print.go:8-10`); a backslash in a text is printed
  single (`types/value.go:176`), although quoting is said to round-trip
  (`types/value.go:173`); and a column whose name is a keyword is printed without its
  quotes (`ast/ast.go:305-321`).
- `PercentInText`: `Like` compares a character before it asks whether the pattern has
  a wildcard there (`types/ops.go:123`), so `'%x' LIKE '%'` is false.
- `TextClash`: with a column named "true", `GROUP BY "true"` gives TRUE the value of
  the column, and MAX(TRUE) that of MAX("true").
- `BoundCondition`: `SELECT a = 1 AND a = 1 ... GROUP BY a = 1` is accepted by
  `checkGrouped` and fails when it runs, because `EvalPredicate` does not do the
  lookup that the comment on `Eval` puts before anything else
  (`exec/eval.go:38-41`).

## Proofs

The theorems hold for every value of the constants: any sets of keys, values,
sessions, transactions, tables and indexes, any number of statements and of
conjuncts, any number of rows, bytes of any width and texts of any length. Liveness
apart, every property that a passing run of `KeelTx`, `KeelDB`, `OverlayScan`,
`RowLoop`, `AccessPath` or `Query` checks is proved.

**Assumptions.** They are named and stand in the module that declares the
constants. `Absent`, `NoEntry` and the index entry's empty value are not values, and
`None` is no session and no transaction. Keys that are ordered are integers, where any
ordered set would do. Identifiers of tables and indexes are positive, as 0 is what
`NoTable` has. In `RowLoop` tables are finite, which is what makes counting their
rows possible; in `KeelDB` and `KeelTx` nothing needs to be. In `KeyCodec` a byte
is large enough for the tags of the kinds to fit it (`ByteAssumption`), and characters
are bytes. In `AccessPath` identifiers of tables are bytes, primary keys are in the
range of an INT, and literals are values, no FLOAT among them infinite or NaN, since
the parser reads none. A bound on the number of statements or conjuncts is a natural
number; the theorems hold for each. In `Query` a column has one kind, the column
that is summed is one of integers, and the number of rows, a LIMIT and an OFFSET each fit
an INT (`MaxRowsAssumption`, `WindowsAssumption`), the sum of the last two need not.

**`KeelTx_proof`.** `IInv` is inductive (`IInvHolds`). Its parts need each other:
that nobody is inside `begin` while a commit is applied (`Locking`) is what makes
the store equal to `committed` at every `Snapshot`; that a transaction is held by
one session (`Ownership`) is what keeps the buffer that a commit is applying from
being written or released; `SessionOK` carries what a session holds at each point
of a statement, without which neither survives an error path; and
`StoreIsCommittedPlusPrefix` needs the applied keys to be an initial segment.
`TypeCorrect`, `SnapshotsAreReleased`, `TransactionsAreOwned` and
`CommitsApplyPrefixes` are its consequences. `EngineKeepsPromise` is the refinement of
`SnapshotTx`: `Snapshot` is `Begin`, `Applied` is `Commit`, `ApplyFailed` is `Torn`,
`Crash` is `Crash` with the commit under way, `Apply` and the locking steps stutter.

**`OverlayScan_proof`.** `MergeOK` is inductive with the type invariant
(`MergeHolds`, `TypeCorrect`): both iterators are ahead of the last row, neither has
passed a row to come, and a base key shadowed by an entry is still ahead together with
it. `ScanIsFrozen` follows: `TakeEntry` of a value and `TakeBase` are steps of
`FrozenScan`, tombstones and base steps stutter, the statement's writes do not
touch what the scan holds.

**`Mutator_proof`.** What `Mutator.Insert`, `Update` and `Delete` do to one key is a
lemma each, in the buffer (`InsertBuffer`, ...) and in the view (`InsertView`,
...), and so is that they keep the entries of a key fitting its row (`InsertKeepsFit`,
...). An index is stated key by key for this reason.

**`KeelDB_proof`.** `IInv` is inductive (`IInvHolds`): from it follow `TypeCorrect`,
`IndexesStayExact`, `ViewsStayExact` and `IdentifiersAreFresh`. That the store's index is
exact is not inductive, because a commit applies a buffer that was filled against
another store. `BuffersFit` therefore says of a buffer and its snapshot alone, whatever
is committed meanwhile: of a row it leaves alone it holds no entries, and of a row it
writes the new entry and a tombstone for the one the snapshot has.
`SnapshotsAreCurrent` closes the gap at `Commit`: a row of the table on which the store
differs from the snapshot is in `dirty`, so a commit that writes it is the anomaly
"conflict". `ExactOrBuilding` follows CREATE INDEX through its single writes, where the
entries the index lacks are those still to be written, and `ChangeOK` says how far the
catalog is meanwhile. That a new table or index is empty, in the store and under every
buffer, is `KeysAreGivenOut`; it needs `PlansAreGivenOut`, since a stale plan is what
writes under an old identifier. `RowsHoldValues` and `SessionOK` are what keep an
error path from breaking the others. The anomalies that each part excepts are its
hypotheses: `BuffersFit` survives everything but a row moved between keys that compare
equal, the fresh identifiers survive everything.

**`RowLoop_proof`.** The invariant has two layers. `IInv` is the types,
`IndexStaysExact` and `PendingUntouched` (`IInvHolds`, `IndexIsExact`,
`RowsAreReadAsTheyWere`). The step that matters is `UpdateRow`: the keys of the rows
still to come are distinct from the key of the row at hand because a key has one row,
and from its new key because that one was free or is spoilt; so neither the row nor the
entries of a pending row are written. `spoilt` has to name exactly the two keys of a
move that the mutator takes for none. `Ledger` (`LedgerHolds`, `TypeCorrect`,
`RowsAreReadFirst`) adds that a statement leaves what it would leave had it read all
rows first. For this the history variable `result` must not lose a row: a row still to come is
unvisited, no two keys became the same row, and none became one that was kept
(`OneOrigin`); `Tally` bounds the count of changed rows by what has been read, by
cardinalities.

**`KeyCodec_proof`.** The order of keys is the order of values (`EncodeInOrder`,
`EscapedInOrder`): the first byte in which two texts differ decides, and after the
escape it still does, also where one text ends and the other goes on with a zero.
`PrefixEndIs` says which keys lie before the end of a prefix, `KeyAgainstBound` where a
key lies to a bound of a range, and `DecodeInverts` that `Decode` gives back the value and
the rest of the key. Texts have any length, so these are inductions over sequences of
bytes. They go through the least element of a set of natural numbers
(`LeastNatural`, `BytesInduction`), and the functions that `Escaped` and `DecodeText`
recurse with are shown to exist before anything is said of their values
(`EscapesExist`, `ReadsExist`).

**`AccessPath_proof`.** `RangesFit` is inductive (`RangesStayFit`). `WellFormed` has the types,
and that no bound of a range is a NaN with its sign bit set, which has no place among
the keys. `OwnersBound` and `RangesMean` say that the range of a column holds exactly the
values that every conjunct behind it leaves, and `Push` keeps this because `Intersect`
gives the values both ranges hold, of any weak order (`IntersectMeans`). `PathFits` says
that a path reads one of these ranges and consumes exactly the conjuncts behind it.
`RowsAreRight` then follows: a consumed comparison is TRUE where the value is within its
range (`ComparisonsMean`), the byte range of the scan holds the keys of these values
(`ScanMeans`), and the filter evaluates all other conjuncts. What is excepted is
`Blind`, no more: a value is at a bound if it is that bound, which holds of every kind but
FLOAT (`TiedIsSame`), and of a FLOAT unless it is a zero and the bound the other one. `ScansStayInside`, `ScansAreInOrder` and `EntriesAreReadBack` combine
the lemmas about bytes with what the path may be.

**`Query_proof`.** `IInv` is inductive (`IInvHolds`): what every operator holds
between two rows is a function of the rows so far, stated by their positions in the
scan (`Taken`).

- The heap (`HeapKeepsFirst`): items are ordered strictly because arrival decides among
  equals (`EarlierRanks`), the first `n` of a set are all of it or `n` that are in front of
  the others (`FirstIs`), and so one more item changes them by at most the exchange with
  the last (`HeapGrows`, `HeapReplaces`, `HeapOfNone`), which is the root.
- The groups (`GroupsHoldAggregates`): a sum over a set of rows does not depend on their
  order and grows by the value of the row that is added (`SumsAgree`, `TotalGrows`),
  wrapping a wrapped sum is wrapping the sum (`WrapFacts`), and the extremes of a set and
  one more value are the comparisons of `Add` (`ExtremesGrow`); together that is
  `SummaryAdds`.
- The answer by encodings (`KeysTellApart`), from `WorkingHolds`. A finite set has one arrangement in
  a strict order (`ArrangementExists`, `OneArrangement`). So a heap put in order is where a
  sort of all rows begins (`SortedItems`), buckets in the order of their keys are groups in
  the order of their values (`GroupsByA`, which is where `InOrder` is needed), and a sort
  that was left out would have moved nothing (`SortedStays`, `IndexSorts`). The columns
  the scan leaves out are in no row that is shown, nor in what rows are sorted by
  (`DecodedAlike`, `SortedAlike`), so the rows above the Sort are those the statement
  means (`TopMeans`). From there one row at a time: rows with one encoding are one row
  (`EncodedRowApart`, from `DecodeInverts`), so DISTINCT drops exactly the rows that are
  not new (`PassingIsNew`), and the new ones are dropped for the OFFSET or returned in
  their order (`NewNext`, `PassingCounts`). At the end that is the window of the
  reference (`WindowIs`), also when the Sort handed on only LIMIT + OFFSET rows; a sum of
  the two that wraps is negative and bounds nothing (`WindowThrough`).
- The answer (`AnswersAreRight`): where nothing the statement tells apart is equal and
  encoded apart, the two references are one (`AnswersAgree`). A group begins at the first
  row with its value and has the rows that are equal to it (`FirstOfGroup`, `GroupsAgree`);
  whatever else a row shows is an integer or NULL (`RowsShow`), of which equal ones are the
  same (`TiedIsSame`), so rows that differ differ in values that are not equal
  (`RowsApart`).

`Working` is needed because none of this shows in the rows returned so far: that the feed
is the rest of `Top` from `Through` on (`Returning`), that a Sort has read `Fed` rows
(`Sorting`), that every bucket has the group value its key encodes (`Grouping`).
`TypeCorrect` bounds the heap, the rows dropped and the rows returned.

`KeelDB_indexes` has no two keys that compare equal (`Alike` is empty), so the fourth of
its exceptions does not occur there and is left to the theorem `IndexesStayExact`, which
holds for every `Alike`; `RowLoop` has two such keys.

**Model-checked only.** Liveness (`MutexIsNeverStuck`, `ScanEnds`), which is
outside what these proofs can reach.
`Expressions`, where everything recurses over trees, which these provers have no
induction for. The properties of the runs that expect a violation are false.

## Not modelled

- Statements around their expressions, in the parser and in the printer: they
  translate text deterministically and share no state, and nothing is looked up by
  what they print as. In expressions: numbers of several digits, FLOAT, block
  comments and qualified names (`t.a`). Nor what becomes of `a NOT "IN"` in a SELECT list:
  the parser takes the NOT and leaves the name in quotes (`parser/parser.go:669-673`),
  which no expression can go on with but which a SELECT list takes for an alias.
- In `Query`, several ORDER BY or GROUP BY keys, and so the rule that a scan replaces a
  sort by one key only (`plan/build.go:209`) and the loop over the keys in `less`
  (`exec/operators.go:400-411`).
- The command line. It takes its lines for a whole text as soon as they hold a
  semicolon (`cmd/keelsql/main.go:159-174`), where the comment on the loop says that
  the text ends in one (`main.go:99-102`); the beginning of a statement behind the
  semicolon is handed over with it.
- keelstore itself: single-key writes that happen or fail, snapshots, and
  iteration in key order, as `storage` uses them.
- The goroutine-safety of one `Conn`, one `Tx` or one `Rows`: the documentation
  forbids sharing them.
- `ExecScript` and `EXPLAIN`, which add no state change of their own.
- The bytes of a row (`keycodec/row.go`) and several tables: where rows are
  written they are one value of one indexed column, and there is one table name.
- Which values `validate` and `Coerce` accept, FLOAT arithmetic and the overflow of
  INT arithmetic other than in sums, AVG, and a query that an error ends half way.
- Primary keys of kind FLOAT or TEXT, and comparisons that are type errors, in
  `AccessPath`.
- In `KeelTx`, several cursors of one session at a time: they differ from one
  cursor only in how many borrow the same transaction.

## Plan

Done, in this order: transactions and sessions (`KeelTx`, `SnapshotTx`), contents
and schema changes (`KeelDB`), the overlay (`OverlayScan`), statements that write
while they scan (`RowLoop`), the planner over the key encoding (`AccessPath`), the
operators of a SELECT (`Query`), expressions (`Syntax`, `Evaluator`,
`Expressions`).

Then the proofs of all of them but the last.

Next:

1. The shell: which texts it hands over, and that a line it cannot cut into tokens
   does not swallow all that follow.
2. The bytes of a row with its mask; the catalog with several names; errors that
   end a query half way; FLOAT in expressions.
