# A TLA+ verification of the CS143 repository

The repository holds two course projects: **Bruinbase** (`src/bruinbase`), a
small single-user database in C++ with a page file, a record file, a B+tree
index, a LOAD/SELECT engine and a command line, and a **movie web application**
in PHP and SQL (`src/404001782`; `src/project1C` holds the same pages), besides
a one-page calculator (`src/project1A`). This directory models Bruinbase from
the parser down to the cache of pages and the part of the web application that
is concurrent, checks them with TLC on small instances, and proves the central
facts of five of the six components with TLAPS for every value of the constants.

Contents: 1 inventory, 2 modules and how they correspond to the code, 3 runs,
4 bounds, 5 fairness, 6 proofs, 7 what is only model-checked, 8 what is not
modelled, 9 disagreements between code and documentation, 10 plan.

## 1. Inventory

| component | state it keeps | operations | used by |
|---|---|---|---|
| `PageFile` | per object: `fd`, `epid`; per process: `readCache[10]`, `cacheClock` | open, close, seek, read, write, endPid | RecordFile, BTreeIndex |
| `RecordFile` | a PageFile, `erid`; on disk: records, a count on each page | open, close, read, append, endRid | SqlEngine |
| `BTLeafNode`, `BTNonLeafNode` | a page buffer | read, write, insert, insertAndSplit, locate, readEntry, next pointers, initializeRoot | BTreeIndex |
| `BTreeIndex` | a PageFile, `rootPid`, `treeHeight`; on disk: header page and nodes | open, close, insert, locate, readForward | SqlEngine |
| `SqlEngine` | none between commands; while one runs, a RecordFile, a BTreeIndex, a cursor and a count | load, select | parser |
| SQL parser | the stacks of states and values, a lookahead, `yyerrstatus`; strings on the heap | reads tokens, reduces, recovers from errors | `main`, through `SqlEngine::run` |
| movie application | tables Movie, Actor, Director, ..., MaxPersonID, MaxMovieID | add, relate, review, search, show | browsers |
| calculator | none | evaluates one expression | browsers |

**How they interact.** Everything in Bruinbase is a call in one thread.
SqlEngine opens a RecordFile and, if there is one, a BTreeIndex, as local
objects; both reach the disk through a PageFile of their own; every PageFile of
the process shares one cache, in which a page is known by the *number* of its
file descriptor. None of the three classes has a destructor. The web
application is the only concurrent part: requests meet in the database.

**What is hard about it.**

* *Interleaving.* Requests of the web application read an id, insert a row with
  it and count it up in three statements, without a transaction.
* *Failure of one step of several.* Every layer makes several system calls per
  operation and looks at some of their results only.
* *Crashes.* Pages are written one at a time; the root and the height of an
  index are on disk only once `close()` has been called; the end of a table is
  found again from its last page.
* *Stale state.* The cache is keyed by a number that the system hands out
  again; `epid`, `erid`, `rootPid`, `treeHeight` are copies in memory of facts
  on disk, each maintained by hand.
* *Boundaries.* The last slot of a page, the last entry of a leaf, the last
  leaf, the capacity of a node and where a full node is cut, equal keys, keys
  that are not positive, `pid * PAGE_SIZE` in an int, the clock of the cache.
* *Sequences of legal calls.* Close and open again, drop an object while it is
  open, open a second object while the first is leaked, use an object whose
  open failed; load with the index, without it and with it again; a line that
  is no command before one that is.
* *Liveness.* Scans, walks along the leaves and the parser's error recovery are
  loops whose end depends on data.

**What makes each component correct.**

* PageFile: a caller never sees the cache (refinement of `PageStore`); the
  cache equals the disk, holds a page once and drops a descriptor's pages with
  the descriptor; `epid` is the end of the file.
* RecordFile: the table is a log, ids dense and stable (refinement of
  `RecordLog`); the end in memory is the end that the disk gives.
* BTreeIndex: at *every page write* the leaves are the sorted list of what was
  inserted; each key is found from the root; the depth is what the height says,
  in memory and on disk; together a sorted list with a cursor (refinement of
  `OrderedIndex`).
* SqlEngine: the index is never ahead of the table and at most one row per
  interrupted load behind it; SELECT prints what the conditions ask for, with
  the index or without; every command returns (sections 3 and 5 say how far the
  code gives these two).
* Parser: each line calls SqlEngine with what it says, or reports one error;
  strings are freed once; the prompt comes back.
* Web application: the next id is free, and a row that was reported as added is
  there, unless requests met.

PROJECT.json lists the hazards at their lines, each with the properties that
watch it.

## 2. Modules

    PageStore <--refines-- PageFile --refines--> LruOrder
        |                   (MCPageFile, PageFile_proofs)
        | promise used by
        +--> RecordFile --refines--> RecordLog <--- promise used by ---+
        |       (MCRecordFile, RecordFile_proofs)                      |
        +--> BTreeIndex --refines--> OrderedIndex                  SqlEngine
                |   (MCBTreeIndex, BTreeIndex_proofs,    (MCSqlEngine, SqlEngine_proofs)
                |    BTreeOrder_proofs, BTreeRefinement_proofs)        ^
                +-- extends BTreeNode                                  | calls
                                                                       |
    MovieDatabase (MCMovieDatabase, MovieDatabase_proofs)          SqlParser
                                                              (MCSqlParser, SqlParser_proofs)

The layers are composed through their promises: RecordFile and BTreeIndex are
not modelled over the cache but over what `PageStore` says of a page file (a
page reads as it was last written, a failed call has changed nothing), and
that PageFile keeps that promise is checked and proved separately. The promise
is proved for system calls that do not fail silently (section 6); what the
upper layers do after an earlier *failed read* of the same process has left a
wrong tag in the cache (section 9) is therefore outside their models.

### PageFile, PageStore, LruOrder

| TLA+ | code |
|---|---|
| `pf[h].fd`, `pf[h].epid` | members of a PageFile object |
| `readCache`, `cacheClock` | the statics; a slot is empty when `lastAccessed` is 0 |
| `fdTable` | the descriptors of the process (system) |
| `dir`, `disk` | the files: `size` pages and their contents (system) |
| `OpenOK`, `OpenRefused`, `OpenUnsized` | `open`: success; a bad mode, an object in use, `::open` fails; `fstat` fails |
| `CloseOK`, `CloseRefused` | `close`, with the eviction of the descriptor's slots |
| `ReadHit`, `ReadMiss`, `ReadInvalid`, `ReadUnseekable` | `read`, the victim being the first empty slot or the least `lastAccessed` |
| `WriteOK`, `WriteRefused` | `write`: `::write`, invalidation of the first slot with the page, `epid` |
| `Drop` | an object that is destructed without `close()` |
| `Restart` | the process ends at any moment and another begins |

A page is one value: `Contents`, `Blank` (zeros), `Torn` (after a short write).
`read` fails only when `::read` returns a negative number. At the end of a file that
a short write has left, `::read` returns less than a page, or nothing, and `read`
returns 0: `Filled` is what the slot's buffer then holds (`Mixed`, or what it held
before).
A byte offset is `pid * PAGE_SIZE` in an int: `SeekPage` gives the page it
falls on once the product has wrapped. `Unshared` is how SqlEngine uses the
class: no file is open in two live objects. The access counters are left out.

`PageStore` has neither cache nor descriptors. `LruOrder` is least-recently-used
replacement without clock or slots: the pages that are held and which of two was
used before the other. `held` and `older` read them off the valid slots and their
stamps.

### RecordFile, RecordLog

`mode`, `erid` are the object; `size`, `page` the file, a page being its record
`count` and its `slot`s. `mode = "stale"` is the object after a `::close` that
failed: `fd` is still set, the descriptor is not (on Linux a `::close` that
returns an error has freed it). `Construct` is the constructor that opens and
loses the result; when `open` fails, `erid` is any two integers (`Unset`), since
nothing has set it. `append()` on such an object may find a negative `sid`, skip
its read and write outside its buffer: `AppendWild` is that step, `wild` says that
it was taken, and from there the model goes on only with an object that starts afresh. `Stored` is the truncation of a value by `writeSlot`. A record's
value is a text and a length, since its length is what decides about
truncation. `RecordLog` is the log of (id, record) that appends grow.

### BTreeNode, BTreeIndex, OrderedIndex

`BTreeNode` gives the two node classes as pure operators on `[kind, entries,
next]`: where an entry goes, how a full node is cut, which child a key leads
to, what `readEntry` returns behind the last entry. `kind` is for the
properties; the code cannot see it on a page.

`BTreeIndex` has the header page, the other pages as a sequence from page 1,
the object (`mode`, `rootPid`, `treeHeight`), the caller's cursor, and `call`:
the insertion under way. `insert()` and its recursion `insertAtLevel()` touch
the disk only by page writes on the way up, so one insertion is the steps
`Begin` (the way down, the buffer of the leaf), then for each level
`WriteSibling` (if the node was split) and `WriteNode`, then `WriteRoot` (if
the root was split) and `Return`. `Up` is the return of one level of the
recursion, with what the caller looks at and what it ignores. Between any two
of these the process may end.

| TLA+ | code |
|---|---|
| `OpenOK`, `OpenNew`, `OpenFails`, `OpenGarbage` | `open`: header read; new file with a header page of uninitialised bytes; errors; such bytes read back |
| `Close` | `close`, with the test of `pf.write` inverted as it is in the code |
| `Drop` | destructed without `close()`, or the process ends |
| `BeginEmpty`, `WriteFirst` | `insert` into the empty tree |
| `Locate`, `LocateFails` | `locate`: the cursor goes behind the keys up to `searchKey` |
| `ReadForward`, `ReadHeader`, `ReadFails` | `readForward`: a leaf; page 0, where the last leaf points; an unreadable page |
| `Astray` | a page of the wrong class is met (after a failed write): left open, `mode = "wild"` |

`OrderedIndex` is a sorted list a pair joins in one step, and a cursor. Three
things had to be part of the promise: equal keys may change places (the right
half of a leaf that is split is re-inserted entry by entry, each before its
equals); the first read after `locate()` may find only the end of a leaf and
return the zero entry; nothing is said of a read behind the last pair.

### SqlEngine

`SqlEngine` INSTANCEs `RecordLog` for the table, whose actions are conjuncts of
its own, and keeps the index as the set of its pairs with a cursor, which is
what `OrderedIndex` promises when no two keys are equal. `root` is what the
header page on disk says of the tree (`"old"` once an insertion has not been
followed by `close()`, `"wild"` in a new file that was never closed), `tree`
what the open index has read from it. The loop over `readForward` has no test for
the end of the list. Behind the last pair it takes the header page for a leaf, whose
first entry is (rootPid, treeHeight, bytes that were never set) and whose next pointer is
such bytes too. So `call.rows` is what a SELECT has printed up to the last pair, and
`call.extra` counts what it prints `"astray"` after that. `fds` counts the descriptors in use,
those of dropped objects included. One command is a sequence of steps, one per
call that it makes of the layers below:

| TLA+ | code |
|---|---|
| `LoadStart`, `LoadIndex`, `LoadIndexFails` | `load`: `r.open`, whose result is ignored; `btree.open` |
| `LoadDummy` | the nine records that an indexed load appends first |
| `LoadLine`, `LoadBadLine`, `LoadAppendFails` | a line: `parseLoadLine`, `r.append`, and the two early returns |
| `LoadInsert` | `btree.insert`, whose result is ignored |
| `LoadEnd` | the two closes |
| `SelectStart`, `SelectTable`, `SelectTableFails` | `select`: the two opens |
| `SelectLocate`, `SelectLocateFails` | the choice of the condition to begin with, `locate`, one entry back; a `locate` that leaves the cursor uninitialised |
| `WalkOn`, `WalkFails` | the loop over `readForward`, among the leaves; an error |
| `WalkOut` | the walk leaves the last leaf: its next pointer is 0, the header page |
| `WalkAstray`, `WalkEnd` | a row read by way of the header page, or under an old or wild root; an error that ends the loop there |
| `ScanOn`, `ScanEnd`, `ScanFails` | the loop over the table |
| `SelectClose` | `rf.close`; the index is not closed |
| `Restart` | the process ends anywhere and another begins |

`rec[r].by` is history: whether a row was written by a plain load, by one whose
index had the right root, or by one whose index had not.

### SqlParser

The tables `yyr1` to `yystos` are those of SqlParser.tab.c; `Shifts`, `ShiftTo`
and `GoTo` read them as the driver does. `stack` is `yyss` and `yyvs`; a value
is a record with a field named for the member of `YYSTYPE` it was written as,
so that reading another member is an error TLC meets. `heap` are the strings
that `strdup` made. `ReadToken` is `sqllex`: any token, with any text, whenever
the driver asks for one. `Shift`, `Reduce`, `Accept`, `Recover`, `Discard` and
`Abort` are the labels of `sqlparse`; `RuleValue`, `RuleOutput` and `RuleFrees`
are the actions of the grammar. `line`, `out` and `began` are history. `Follow`
and `Meaning` are the reference: what a reader of SqlParser.y would take a line
to ask for, defined on the line and not through the tables.

### MovieDatabase

`rows` are the tables Actor, Director and Movie, `max` the counters, `req` the
requests. `Read`, `Insert` and `Update` are the three statements of AddActor.php
(actors and directors) and AddMovie.php, each atomic, `End` a request that is
cut off between two. `fit` says whether the row itself is one the database
would take; the result of INSERT is ignored either way, as in the code. `met` is
history: the requests for the same counter that were on their way at the same
time, or had been cut off with nothing counted up since.

## 3. Runs

Each passing run's properties are also shown to be breakable: PROJECT.json
names for each a mutant of the code (an operator `Mutant of ...` in the module)
under which TLC refutes it.

| run | question | result |
|---|---|---|
| `PageFileReuse` | one object after another, one reused descriptor: `TypeOK`, `UniqueTags`, `NoOrphanSlots`, `CacheCoherent`, `EpidCurrent` | hold |
| `PageFileTwo` | two objects, two files: `Separate`, `ImplementsPageStore` | hold |
| `PageFileFaults` | failed reads and closes, short writes, leaked objects: `UniqueTags`, `ImplementsLru` | hold |
| `RecordFile` | every call, every failure: `TypeOK`, `Dense`, `EndCurrent`, `ImplementsRecordLog` | hold |
| `BTreeIndex` | 7 insertions, height 3, reopened, searched, walked: `TypeOK`, `ChainOrdered`, `LeafFound`, `ImplementsOrderedIndex`, `BackIsBehind` | hold |
| `BTreeIndexDrop` | the process ends between any two page writes: `Kept`, `Balanced` | hold |
| `BTreeIndexFaults` | reads, writes fail and the process ends: `NodesSorted` | holds |
| `SqlEngine` | loads and selects in any order, failing opens, reads and appends, crashes: `TypeOK`, `IndexPointsToRows`, `FirstPageNotIndexed`, `MissingIsLast`, `SelectExact`, `CommandReturns` | hold |
| `SqlParser` | any tokens: `TypeOK`, `Ownership`, `StackBounded`, `PromptFirst`, `AnswersLine`, `ReportsOnce`, `AsksAgain` | hold |
| `MovieDatabase` | four requests, each cut off anywhere: `TypeOK`, `IdsBelowMax`, `AloneIsStored` | hold |
| `PageFileReadError` | after a failed read: `ReadReturnsPage` | violated |
| `MovieDatabaseRace` | two requests at once: `AddedIsStored` | violated |

Worth noting among the results:

* `ChainOrdered` and `Balanced` hold *between* the page writes of a split: the
  sibling is written before the node that will point to it, and the node before
  its parent. A process that ends between them loses no pair (`Kept`), though a
  pair may then be reachable along the leaves only, not from the old root:
  `LeafFound` is claimed and checked only without crashes.
* Equal keys are safe because both capacities (85 and 127) are odd. With an
  even one TLC finds a run of equal keys that two splits separate in an order
  that the parent's pointers do not have, and refutes `LeafFound`. The
  assumption on the capacities, `BTreeNodeAssumption`, says so.
* `BackIsBehind`: `select()` steps the located cursor back only inside a leaf.
  When the search ends at a leaf's first entry there is nothing to miss in the
  leaf before, because a separator goes up as the first key of the right node;
  with the last key of the left one it would (the mutant `SplitKeyLeft`).
  `SqlEngine!StepBack` rests on it.
* `SelectExact` covers the walk that begins at the first EQ, at the greatest
  GT or GE, or at 0, and ends at the first condition that is broken and bounds
  the keys from above: the start may be too early, the stop too late, neither
  loses a tuple.
* `FirstPageNotIndexed` is why the dummies work at all: a leaf ends at its first entry
  whose `rid.pid` is 0 (`getKeyCount`, BTreeNode.cc:50), so a pair for a row on the
  first page would end its leaf, for itself and for the pairs behind it. The row
  itself could be read: `rf.read` accepts the id (0, 0).
* `SelectExact` and `CommandReturns` speak of a walk up to the last pair. Behind it the
  code gives neither: a row may be printed once more by way of the header page, and
  where that page's next pointer is 0 the walk stays there (section 9).
* `UniqueTags` survives even the faults that break coherence: the tag of a slot
  is chosen after a search found none.
* `AnswersLine` holds whatever was wrong on earlier lines: the rule `error LF`
  stops the recovery at the end of the line it began on.
* `IdsBelowMax` has one later request make up for each that was cut off: the
  UPDATE adds one to the counter, not to the id that was read.

## 4. Bounds

Every bound is a constant of a .cfg.

* PageFile: `CACHE_COUNT` 2 (10 in the code): eviction with a choice needs two
  slots, and one page more than slots (`PageFileFaults`: three pages).
  `ClockBound` stops reads and so makes the clock finite in `PageFileTwo` and
  `PageFileFaults`. In `PageFileReuse` nothing stops them: `IntMax` is 1 and
  the clock runs round through every int of that width, 0 included, which
  marks a slot as empty, and the cache has to stay coherent all the same.
  `PageFileFaults` stays below the wrap, because replacement is then no longer
  least-recently-used (section 9). `Reach` is how many pages an int offset
  reaches: 2097152 in the code (2^31 bytes in pages of 1024), up to 3 here.
* RecordFile: pages of two slots (9 in the code), four pages: the first, a
  middle and the last slot, a page boundary and a file that is full; lengths
  below, at and above what fits. `Unset` are twelve ends that were never set: page
  numbers and slots below 0, in the file and behind it.
* BTreeIndex: nodes of three entries (85 and 127). Six insertions reach height
  three, with splits of leaves and of a root that is a nonleaf node. Three
  keys in seven insertions, repeated, give every position of a key relative to
  a separator (below, equal, above) on both levels and runs of equal keys
  longer than a leaf. `Searched` are the keys that callers search for: every
  key and one below them, and none in `BTreeIndexDrop`, whose properties are
  about pages only. The runs with crashes and faults have two keys and five or
  six insertions, enough for a split on both levels, and end the process
  between any two of their writes.
* SqlEngine: pages of two records and two dummies (9 and 9 in the code); three
  pages, so that two indexed loads, with the dummies of the second between
  their rows, fit; three lines with different positive keys; the dummies have a
  key that a line has, so that a dummy in an answer would be seen; two
  descriptors, so that one SELECT with the index leaks what the next command
  needs. `SelectedConds`: no condition, one without a key to start from, two
  lower bounds, a lower and an upper one, a lower bound before an equality that
  breaks it, a value before a key. `MaxExtra` bounds how many rows a walk that has
  gone astray may print. `Duplicates` is FALSE: see section 8.
* SqlParser: lines of up to 13 tokens before their end, enough for a SELECT
  with two conditions, and any number of lines; three names (`key`, `value` and
  one that is neither), one literal, two of the six comparators (the six take
  the same path; their numbers are in the tables).
* MovieDatabase: four requests, alike but for what they ask (symmetry): one that
  is cut off, one that makes up for it, and two that race.

## 5. Fairness

Two modules state liveness, both weak fairness of the program's own steps:

* `SqlEngine`: `WF_vars(Step)`. A command runs in the one thread there is and
  waits for nothing, so while it can take a step it takes one. Failing reads,
  failing locates and the end of the process are outside `Step`: they may
  happen and are never required. Nor are the steps of a walk that has gone astray,
  which nothing in the code brings to an end: with zeros in the header page's last
  bytes its next pointer leads to itself, and `readForward` returns 0 every time.
  `CommandReturns` says that every LOAD returns, every scan, and every walk that
  a condition or an error stops, and that any other walk gets behind the last
  pair. It excepts an index opened with an old or wild root, where the walk follows
  pages that the model does not describe.
* `SqlParser`: `WF_vars(Drive)`. The driver goes on as long as it has something
  to do; that the user types is not assumed. `AsksAgain` says that it comes to
  the point where it needs a token, or returns.

The other modules claim no liveness. PageFile, RecordFile and BTreeIndex are
libraries of calls; the loop along the leaves ends because `ChainOrdered` holds
each pair once. Requests of the web application may be cut off at any time, and
its properties are about that.

## 6. Proofs

The proof modules are checked by TLAPS from the assumptions on the constants
alone: any number of files, objects, descriptors, pages, slots and record
lengths; any odd capacities of nodes, any keys and number of insertions; any
lines, conditions and dummies; any names, literals and length of a typed line; any
number of requests.

**PageFile.** Failing opens and failing writes, crashes and leaked objects are
always included. What fails without leaving a trace in the object is named by
the hypotheses: `ClosesSucceed`, `WritesWhole` (and no write is short, and no
page number's offset wraps back into the file), `ReadsFaithful` (and reads
succeed). TLC shows that they are needed: see `PageFileReadError`. The
inductive invariant gives each part only the hypotheses it rests on:

    Inv == TypeOK /\ UniqueTags
           /\ ClosesSucceed => NoOrphanSlots /\ Separate
           /\ ReadsFaithful => CacheCoherent
           /\ WritesWhole   => EpidCurrent /\ SizeInReach

Coherence after an *open* needs `NoOrphanSlots` (the number handed out has no
slots); after a *write* it needs `UniqueTags` (the loop leaves after the first
slot) and `Separate` (the page changed under no other object); after a *miss* it
needs `EpidCurrent`, because `read` trusts `epid`: a page that the file does not
have, or has in part, is read without an error and leaves other bytes in the slot.
There is one lemma per action, and one theorem for each part: `TypeCorrect` and
`HeldOnce` for any faults, `NothingLeftBehind` and `ObjectsSeparate` with
`ClosesSucceed`, `EndIsCurrent` with `WritesWhole`, `Coherence` with
`ReadsFaithful`. `Refinement`, with `ReadsFaithful`, maps `opened[h]` to the file and mode of
the descriptor and each action to the action of `PageStore` of the same name.

`LeastRecentlyUsed` is the refinement of `LruOrder`, whatever fails, as long as the
clock does not wrap (`ClockRuns`: the model's `ClockBound` is at most `IntMax`; the
wrap inverts the order, section 9). It rests on `UniqueTags` and on `Stamps`: the
stamp of a valid slot is a value the clock has been at, and no two slots have the
same. `StampedFront` says what a stamp does to the order, for a hit and a miss alike,
`ThinnedKeep` what emptying slots does, for a write and a close alike; `VictimOldest`
that the slot with the least stamp holds the oldest page, and `HeldCounts` that there
is an empty slot just when fewer pages are held than the cache has slots.

**RecordFile.** No hypothesis on `Faults` is needed beyond the promise of the
page file. `Inv == TypeOK /\ Dense /\ EndCurrent /\ Existing /\ StaleByFault`.
`EndOfFacts` and `UsedIsBefore` say that the ids in use are exactly those
before the end; `AppendEffect` says what an append does to them. `TypeOK` holds with
an `erid` that may be anything at first, because only an open sets `IsOpen`, and an
open sets `erid` from the file. Theorems:
`TypeCorrect`, `LayoutKept`, `EndRidIsCurrent`, `Refinement`.

**BTreeNode** (in BTreeIndex_proofs). What the operations do to a node: `PutFacts` (the entry joins,
the order stays), `PutAllFacts` (the right half, moved entry by entry, keeps its
entries and comes out in order), `SplitFacts` (both halves fit, and hold what
the node held and the new entry), `RootFacts`, `ChildFacts`; that a list of
distinct entries stays one (`IsInjective`), and what may be smaller than a key on
the left of a cut (`Low`). `PutAll`, the way down and the walk along the leaves are
recursive functions; the library's induction theorems take an
operator as a parameter, so `Induction` states induction as a fact about sets of
naturals and derives it from `WFMin`. `DescentDef`, `LevelDef` and `WalkDef` use it to
show that the functions exist.

**BTreeIndex.** Five inductive invariants, each over one before.

* `TypeInv`: pages, the nodes on the path and the buffers of the insertion under
  way are proper nodes (typed, not empty, not overfull, sorted). The result is
  `TypeCorrect` and `Sorted`, for any `Faults`. The way down needs `OnTrack`: a
  page above the last that did not exist would lead to page 0
  (`DescentFacts`).
* `KeptInv` adds what the page writes of an insertion owe each other. While a
  leaf is being replaced, what it has on disk is in the buffers that replace it
  or on another leaf by now (`CoversLeaf`); above the leaf the new pair is on
  disk already (`AboveLeaf`), and the pages of the path are nonleaf pages, so
  that writing them touches no pair (`PathPages`). `WriteSibling` moves half of
  the buffers to a leaf of its own and `WriteNode` may then overwrite: the
  order of the two is what the proof rests on, and the mutant `WriteNodeEarly`
  breaks it. `NothingLost` assumes that reads and writes succeed: a leaf that
  cannot be read is overwritten (section 9).
* `BalanceInv` says that there is a function `d` from the pages to levels with
  every node's children one level lower, the root in memory and the one in the
  header at the level of their height, and the node under way at the level that
  is left of the path (`Here`). Appending a page extends `d`, replacing one keeps
  it, so what an old header says stays true. `LevelsRight` needs only writes to
  succeed.
* `OrderInv`, over `BalanceInv`, is about keys across pages. There are four functions
  on pages: `lo` and `hi`, the keys a page is for; `up`, the page that holds its
  entry; `far`, how many leaves there are from it to the end of the chain. A nonleaf
  page cuts its interval up among its children (`KidsIn`), each of which it has
  once; a leaf's keys lie in its interval, both ends included, because equal keys
  are put before each other and may end up left of the separator (`LeafIn`). A
  search goes to the right of an equal separator, so `LeafIn` also says that the
  separator's key is in the leaf to its right. `Low` bounds how many such equals
  there are: all but the last half of a node's entries are smaller than the end of
  its interval, which makes the separator of the next split smaller too. This is
  where the capacities have to be odd: the separator of a full node is then the last
  entry before that half.
  A leaf that is farther from the end ends where the next begin (`LinksIn`), and no
  pair is on two leaves or twice on one (`PairsApart`).
  `CallIn`, `PathIn` and `LeafWork` are the same for the buffers of the insertion under
  way: between `WriteSibling` and `WriteNode` the new page is an `Orphan` that nothing
  leads to, and between `WriteNode` and the write of the level above, the parent's
  buffer has the child's new separator when its page has not.
  `UnsplitOrder` and `SplitOrder` are the two forms of `WriteNode`; the second moves
  the half of the interval to the new page (`LoSplit`, `HiSplit`), gives the moved
  children their new parent (`UpMoved`) and puts the new leaf in the chain (`Farther`,
  `ChainGrows`). Then `WalkOrder` follows the chain by induction: what `ChainFrom`
  lists from a leaf on is sorted, has each pair once and is the pairs of the leaves
  that are no farther from the end. `LeavesInOrder`, `SearchRight` and
  `NothingBehind` are the results. They assume that nothing fails and no object is
  lost without `close()` (`Faults = {}`), since else an old root meets split leaves
  (section 3); that keys are from 1 to INT_MAX (`KeysPositive`), since
  `parentKey > 0` is the test for a split (section 9); and that searches are for
  ints.
* `SeekInv` adds the cursor to `OrderInv` and what a search needs of the roots:
  `EmptyRoots` says that a tree of height 0 has no root page, so that `locate` in an
  empty index leaves the cursor at (-1, 0), and `CursorIn` that a cursor is nowhere,
  on page 0, or on a leaf of the chain, where it is behind the last entry only right
  after `locate`. With these, `Refinement` shows that `BTreeIndex` implements
  `OrderedIndex`, under the three hypotheses above. The mapping takes the pairs from
  the chain of leaves, so the proof is about sequences put together from leaves.
  `SameWalk` makes `ChainFrom` independent of how many pages the file has;
  `ChainParted` splits it around a leaf into what is on the leaves before, the
  entries of the leaf and the rest, and `SpotOnLeaf` turns a cursor on that leaf into
  a number of pairs. `LocateSteps` then needs that every key before the leaf is at
  most the one searched for and every key behind it larger (`UpToSplits`), and
  `ReadForwardSteps` that the end of one leaf and the start of the next are the same
  place. A pair appears at `WriteFirst`, or at the `WriteNode` of the leaf: the chain,
  sorted and with each pair once, is then longer by that one (`Joins`); writes above the leaves and the
  write of an orphan leave the chain as it is (`LinksKept`, `LinksKeepChain`), and so
  are stutters of `OrderedIndex` (`KeptIsUnmoved`). There is one lemma per group of
  actions, and `NextMaps` joins them.

**SqlEngine.** `Inv` is `TypeOK`, the three safety properties, and

* `EndIsFree`: no record at or behind the end of the log, so that an append
  makes a new id. `RecordLog` has it for its own `Next`; here its actions are
  taken from within commands.
* `WithIndex`, `HeldFd`: what the program counter says of the index and the
  descriptors (so that `fds` never goes below zero).
* `DummiesFill`: while dummies are appended, the end is behind the first page
  or at least as many slots behind its start as dummies have been counted. With
  `Dummies >= RECORDS_PER_PAGE` the first line is then never on the first page.
* `LastIsNew`: between a line's append and its insertion, the row is the last of
  the log, has no pair yet, and is what the pair will point to.
* `NothingMissing`: when the next line is read, the row before the end, if an
  index with the right root was to get it, has its pair. This is what makes
  `MissingIsLast` inductive: a new row never has one without a pair before it.

`OnlyLastMissing` assumes that no insertion into an index with the right root
fails (`"insert" \notin Faults`): after one that failed, `load` goes on and any
number of rows may be missing. `PairsAreRows` and `DummiesSuffice` need no
hypothesis on the faults.

What a SELECT answers rests on a second invariant, `AnswerInv`, over the first:
the answer so far is that for the rows before the cursor (`ScanSoFar`), or that
for the pairs behind the walk (`WalkSoFar`). A walk that ends early must have
left nothing out: `locate` begins behind pairs that fail a condition (`StartFacts`),
an equality is met by at most one of the pairs ahead (`OneUpTo`, which needs
that keys are loaded once, `KeysOnce`), and a condition that ends the walk fails
for every later key. `ScanExact` has no hypothesis. `AnswersExact` assumes
`WalkOrdered`: no duplicate keys, positive keys, and conditions of the grammar's
form; the run has the same. It is about the rows up to the last pair (`rows`), at
the moment the walk leaves the last leaf as well as when the command has returned;
what the walk prints behind it (`extra`) is no part of it.

**MovieDatabase.** `Inv` adds to the two properties that a row has the table and
id of its request (`RowsAreOf`), that an id that was read is not above the
counter (`ReadBelowMax`), that requests on their way for one counter know of
each other (`MidwayMet`), and that the id a request alone is about to insert is
free (`AloneIsFree`). The last needs `IdsBelowMax`: a row with the id that was
read has a writer that is on its way or was cut off, which is one that was met.

**SqlParser.** The lemmas about bison's tables come first: `ShiftIs` and `GotoIs`
decode the compressed rows into the moves of the automaton (`Moves`, `Goes`),
`ReduceIs` gives every state that reduces its rule. No other lemma expands a table.

* `TypeInv`: the stack is a path of the automaton from state 0 (`Chained`), every
  state is no deeper than `Depth` allows (`Ranked`), and every value meets its
  symbol (`Valued`). `Exposed` is what makes it inductive: below a state that
  reduces lie exactly the symbols of the rule's right side (`Handle`), so that an
  action reads what its symbols have, and the state beneath has a `GOTO` for the left
  side. `Depth` works because the grammar is left-recursive and the state after a
  list of conditions is as deep as after its first. A lookahead is in hand only in
  states that look at one. `CatchIs` says that error recovery pops down to
  the second place, whatever was on the stack. Results: `TypeCorrect`, `StackWithin`.
* `OwnInv` adds `Ownership` and that the conditions of one list have each a
  string of their own (`Apart`). `Transfer` is one lemma for all steps: the slot that is
  pushed and the lookahead that is left may own only what the slots popped and the old
  lookahead owned, and the rest must be freed. `Hands` says of every rule that what it
  frees and what its value owns is, without overlap, what its symbols owned.
  Result: `OwnershipKept`.
* `FullInv` adds to `TypeInv` what the stack says of the line that is typed. Between two
  prompts a line is in one of six phases: `Fresh`, `Spelt`, `Answered`, `Misfit` (a
  token that does not fit is in hand), `Skipping` (it has been reported, and the rest
  is thrown away), or `Cut` (the input ended). `Spelt` is the strong one: a function `at`
  cuts the line into the symbols of the stack, each of which says what its tokens say
  (`Spells`: a list of conditions has one for every four tokens, with its attribute,
  comparator and value), and each state knows how many tokens lie before it (`Reached`)
  and which command it is in (`Place`). That is where `Follow`, the reader's idea of a
  command, and the automaton meet: `FollowIs` shows that a state shifts the tokens that
  may follow, for any length of the line. `RuleSpells` says that a reduction leaves `at` one symbol
  for what it replaces, `RuleCalls` that the rule of a command calls SqlEngine with the
  `Meaning` of the line, and `ErrorLine` that recovery reports at most once and keeps
  nothing of the line. Results: `LineUnderstood`, and from it the action properties
  `Prompts`, `Answers` and `Reports`.

TLC checked the invariants of the proofs first, as far as it can evaluate them
(`lo`, `hi`, `up` and `far` are quantified functions), and the properties of
the theorems are the ones the runs check.

## 7. Only model-checked

* The liveness of `CommandReturns`.
* The liveness of `AsksAgain`. With `Prompts` it says that a line typed to its end is
  answered; `Answers` and `Reports` say what the answer is when there is one.

## 8. Not modelled

* The lexer's automaton (`lex.sql.c`): tables, buffers and input. The model has
  the tokens that it returns and the strings that it allocates. `main`, which
  calls `SqlEngine::run`. The strings that error recovery throws away are lost to the
  program; the model takes them off `heap` and says nothing of the leak.
* SqlEngine: which columns and what count are printed (`attr`), the quotes and
  blanks of `parseLoadLine`, a condition whose `attr` is neither 1 nor 2
  (section 9), closes that fail. An int difference of keys that overflows
  (SqlEngine.cc:132) is an integer here. The run loads no key twice and none
  below 1: of several equal keys an EQ finds the last only, because the step
  back goes one entry, and `locate(0)` is where a walk without a key begins.
  The bytes of a header page are not: any row may come of them. A walk that met a
  failed read is excluded from `SelectExact`, since `select` returns 0 for it.
* An index whose root is old or wild: what its walk reads is any record
  (`WalkAstray`); `SelectExact` and `CommandReturns` say nothing of it.
* RecordFile: what a process does after it has written outside a buffer (`wild`), and a
  failed `::close` that leaves its descriptor in use.
* Web application: AddMovieActor.php, AddMovieDirector.php and Review.php insert
  one row each into tables without a key, after queries that share nothing with
  the counters; AddDirector.php has no code yet; the pages that only query and
  print. The rows of load.sql, whose ids are below the first counter. Statements that
  fail and let the page go on: AddActor.php looks at the result neither of its SELECT
  (line 147) nor of its UPDATE (line 183), so it says "Added" when the counter has not
  moved. For the requests after it that is what a request cut off before its UPDATE
  leaves, which is in the model.
* The calculator: one sequential page that reads characters and computes with
  floating-point numbers; a model would repeat it line by line.
* PageFile's access counters; `BTNonLeafNode::readEntry`, which nothing calls; a
  nonleaf page that cannot be read during an insertion; what is made of bytes
  read as a node of the wrong class, or of a header that was never initialised
  (`mode = "wild"`).

## 9. Where code and documentation disagree

Shown by a run (PROJECT.json, "findings"):

* `PageFileReadError`: a cache slot is tagged before `::read` and keeps the tag
  when it fails, so the next read of the page succeeds with another page's bytes.
* `MovieDatabaseRace`: the page says "Added Movie!" (AddMovie.php:96) or
  "Added Actor!" (AddActor.php:177) of a row that the primary key refused,
  because another request had read the same id.

Met while modelling, and reproduced by a change of a run's constants:

* BTreeIndex.cc:293: `parentKey > 0` is the test for "was split". With 0 in
  `Keys`, run `BTreeIndex` refutes `LeafFound`.
* BTreeIndex.cc:130: a leaf that could not be read is overwritten with one
  entry. With `Faults = {"read"}`, run `BTreeIndexDrop` refutes `Kept`.

Met while modelling, in the models as the code has it:

* PageFile.cc:112: a short write is reported as done, and PageFile.cc:171: so is a
  short read. PageFile.cc:76: a `::close` that fails leaves the cache with pages of a
  descriptor that is free. PageFile.cc:168: after 2^31 accesses the clock wraps and the page just
  used is evicted first.
* BTreeIndex.cc:110: `close` reports an error and leaves the file open when it
  *has* stored the header. BTreeIndex.cc:719: `readForward` returns 0 behind the
  last entry of a leaf and on the header page. BTreeIndex.cc:638: `locate`
  leaves the cursor behind the key (`select` steps back to make up for it).
  BTreeIndex.cc:289: a page write that fails below the root is not reported.
  BTreeIndex.h:112: root and height are lost when an index is destructed
  without `close`.
* RecordFile.cc:113: the constructor that opens a file leaves `erid` uninitialised
  when the open fails, and `append()` on it may write outside its buffer
  (`AppendWild`).
* SqlEngine.cc:106: the walk does not end behind the last pair (`WalkOut`). It goes on
  to the header page, `readForward` returns 0 there, and the id that it makes of
  `treeHeight` and a word of uninitialised bytes may be a row's, which is printed, if it
  meets the conditions, as one row too many. With a next pointer of 0 that goes on
  for ever; with other bytes it ends when a page does not exist.
* SqlEngine.cc:280: `select` does not close its index, so each SELECT with one
  leaks a descriptor until opens fail; from then on SELECT scans, and prints the
  nine dummies that LOAD appended (SqlEngine.cc:312). SqlEngine.cc:294, 336:
  `load` ignores the results of `r.open` and `btree.insert`.
* SqlParser.tab.c:1538: a name that is neither `key` nor `value` is reported, and the
  SELECT runs all the same, with the bits of a pointer for `attr`. After a line
  that is no command an error in the first tokens of the next is silent
  (`yyerrstatus`; `ReportsOnce` says when one is owed).

## 10. Plan

1. *(done)* PageFile over PageStore and LruOrder, with proofs of both refinements.
2. *(done)* RecordFile over RecordLog, with proofs.
3. *(done)* BTreeNode and BTreeIndex over OrderedIndex.
4. *(done)* SqlEngine over RecordLog and the index's pairs, with proofs and
   liveness.
5. *(done)* SqlParser, with liveness.
6. *(done)* MovieDatabase, with proofs.
7. *(done)* `TypeOK`, `NodesSorted`, `Kept` and `Balanced` of BTreeIndex as
   theorems, from lemmas about the nodes.
8. *(done)* `SelectExact`, and each part of the cache's coherence with its own
   hypotheses, as theorems.
9. *(done)* `ChainOrdered`, `LeafFound` and `BackIsBehind` as theorems, with an
   interval of keys for each page; the refinement of `OrderedIndex`.
10. *(done)* `TypeOK`, `StackBounded`, `Ownership` and the action properties of the
   parser as theorems, for lines of any length; `ImplementsLru` as a theorem.
11. Open: an abstract table of tuples that SqlEngine refines for tables without
   duplicate keys.
