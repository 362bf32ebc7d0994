# RedBase in TLA+

RedBase is a single-user relational database in C++: one process, one thread,
a command loop that executes one SQL statement after the other over files in
the current directory. This directory holds TLA+ models of it, the TLC
configurations that check them, and proofs checked by TLAPS.

## 1. The system

`redbase_main.cc` parses a statement and calls QL or SM; these call RM
(records) and IX (indexes), and both store their pages through PF. All calls
are synchronous, there are no threads and no callbacks. What makes the code
hard is elsewhere: state that is cached in several layers and written back at
different times, the end of the process at any point (`quit` itself calls
`exit(0)` without closing anything), calls that fail half way, and raw pointers
and handles that outlive what they point to.

| Component | State | Operations | What makes it correct |
|---|---|---|---|
| **PF buffer pool** `PF/internal/buffer_manager.cc`, `hash_table.cc` | frames (descriptor, page, dirty, pin count, data), hash table page → frame, LRU list | `FetchPage` `PinPage` `UnpinPage` `MarkDirty` `FlushAllPages` `ClearFilePages` `ReinitializeBuffer` | one copy of a page; a held page is never replaced; nothing is lost when a frame is reused or a write fails; an acknowledged flush is on disk |
| **PF file handle** `pf_filehandle.cc` | descriptor, cached file header (page count, PF free list), `headerChanged` | `GetThisPage` `AllocatePage` `DisposePage` `ForcePages` `WriteHeader` | header and pages agree; also after a crash |
| **PF manager** `pf_manager.cc` | disk quota of the current database and its metadata file | `CreateFile` `DestroyFile` `OpenFile` `CloseFile`, `AllocateDiskPages` `DeallocateDiskPages`, `SetDatabaseName` | the account matches the files |
| **RM record file** `rm_manager.cc`, `rm_filehandle.cc` | page 0 header (page count, free-list head), cached in the handle; per page: count, link, bitmap, records | `CreateFile` `OpenFile` `CloseFile` `GetRec` `InsertRec` `DeleteRec` `UpdateRec` `ForcePages` | a map from RIDs to records; the free list is exactly the pages with room; a restart loses at most what happened since the last close |
| **RM scan** `rm_filescan.cc` | position, page count at the open | `OpenScan` `GetNextRec` `CloseScan` | each record that is there throughout is returned once |
| **IX index** `ix_manager.cc`, `ix_indexhandle.cc`, `ix_btree.cc`, `ix_indexscan.cc` | B+ tree pages, root, leaf chain | create, open, insert, delete, scan | sorted, balanced, same entries as the table |
| **SM** `sm_manager.cc`, `sm_manager2.cc`, `sm_catalog.cc` | relcat and attrcat, open as long as the database is | `OpenDb` `CloseDb` `CreateTable` `DropTable` `CreateIndex` `DropIndex` `Load` | catalogs and files agree, also when a step fails |
| **QL** `ql_manager.cc`, `ql_plannode.cc`, `ql_optimizer.cc` | none between statements | insert, delete, update, select | the three statements with a WHERE agree on its rows; nothing else is touched, whatever fails; the numbers printed are right |
| **SQL parser** `sql_parser.cc` | none | `ParseCommand` | what is written is read as it is meant |
| **Main** `redbase_main.cc` | current directory, open database | the command loop | the database in use is the one whose quota and pool are set; each statement returns to the prompt |

Interactions that matter: every page travels main → QL/SM → RM/IX → PF file
handle → pool → file; the pool identifies a file by its descriptor only; RM
caches page 0 in the handle and PF caches the file header in its own handle, and
both reach the file only in `CloseFile`; SM holds the catalogs open (and so their
headers unwritten) for the whole session, while QL opens and closes a table for
every statement.

The hazards that follow, each with its line, are listed in `PROJECT.json`.

## 2. Modules

| Module | What it is |
|---|---|
| `PageStore` | abstract: what PF promises above it. Reads see the latest write; what survives is `durable`; a file whose flush was acknowledged and that nobody changed is not written behind the caller's back |
| `BufferPool` | the buffer pool and its hash table, one action per call; implements `PageStore` |
| `MCBufferPool` | the sets the TLC configurations of `BufferPool` use |
| `BufferPoolProofs` | the inductive invariant of the pool and the safety theorems; that the pool implements `PageStore`, when there is no buffer, and what holds after reads that failed |
| `FileHandles` | files, the handles on them, and the frames the pool has under each descriptor: opening, changing, closing and failing to close |
| `FileHandlesProofs` | its inductive invariant and its theorems |
| `RecordMap` | abstract: what RM promises. A map from RIDs to records, and what a restart may do to it |
| `RecordFile` | an RM file over its PF file over a page store, with the process ending at any moment; implements `RecordMap` |
| `RecordFileProofs` | its inductive invariants, its theorems, and that it implements `RecordMap` |
| `Catalog` | the statements of SM, step by step, over the two catalogs, the table files and the index files; the catalogs survive a restart as `RecordMap` says |
| `MCCatalog` | the symmetry of its TLC configurations |
| `CatalogProofs` | its inductive invariants and its theorems |
| `ColumnOrder` | which slots of attrcat the columns of a table land in, and so in which order they come back |
| `ColumnOrderProofs` | its inductive invariant and its theorems |
| `Session` | databases as directories, the command loop that moves between them, and PF's account of disk pages |
| `MCSession` | the symmetry of its TLC configuration |
| `SessionProofs` | its inductive invariants and its theorems |
| `SqlParser` | from the lexemes of a line to a `ParsedSQL` |
| `WrittenSql` | not code: the statements of the help text, how they are put into words and what is meant by them |
| `QueryPlan` | the plan for one table and what it does with a tuple; the tests that DELETE and UPDATE make for themselves |
| `Statements` | the statements on a table, from the text to the prompt: parser, main, SM, QL, the scan of RM and an index without a root |
| `MCStatements` | the statements that are typed in its TLC configurations |
| `StatementsProofs` | its inductive invariant and its theorems, with what the operators of `QueryPlan` come to |
| `OrderLemmas` | a set of naturals has a least element: what the proofs use in place of an induction |

How they fit: `BufferPool` implements `PageStore`; `FileHandles` sees the pool from above, for
several descriptors with headers of their own; the pages of `RecordFile`, which has one handle that
is the only one, behave as `PageStore` allows (`mem` is what it shows, `disk` what survives, and a
write may happen at any time); `RecordFile` implements `RecordMap`; the rows of `Catalog` are records of
`RecordMap`; `ColumnOrder` looks at the same rows from the other side, as slots of a record
file that never fails. `Session` sees files only as numbers of pages. `Statements` composes
`SqlParser` and `QueryPlan` over one table; its file is the map from RIDs to records that
`RecordFile` implements, its columns are what `Catalog` and `ColumnOrder` say they are when
nothing went wrong before.

Definitions marked `(fault)` are no part of a model. Each is a way the
definition after it could plausibly be wrong, and `PROJECT.json` ("mutants")
names the property that then fails.

### BufferPool

`frames[f]` is `frames[i]` of the code with `fileDesc`/`pageNum` as one `key`
(`NoKey` for `-1`); `lruList` is the code's list, front first; `pageTable` is the
hash table as a function (chaining and the hash value are abstracted: `Find`,
`Insert` and `Remove` are exact on keys); `disk` is the content of the files.
`ptr[h]` is a `PF_PageHandle` in use: the page asked for and the frame its raw
pointer leads to. `rc` is the last return code. `synced` is history.

`FetchPage` is five actions, one per way out of the function: hit, no frame,
victim's write fails, read fails, miss. `FlushAllPages` that meets a failing write
goes on with the other frames, as the code does, so `FlushFails` chooses an outcome
per frame; `ReinitializeBuffer` stops at the first. A failed write either leaves
the file alone or is cut short (`Torn`). `Exit` is `quit` or a crash: `Instance()`
keeps the pool behind a raw pointer that is never deleted, so the destructor that
flushes (`buffer_manager.cc:32`) never runs. After `Exit` the same `Fds` stand for
the same files, opened again.

Left out: `GetBufferStats`, `PrintBufferStatus`, `SetBufferSizeFromMemory`'s
arithmetic (its result is any size of `PoolSizes`), running out of memory.
`ReinitializeBuffer` is modelled with no page held, as its only caller, CREATE
DATABASE, holds none.

### FileHandles

`handle[d]` is the `PF_FileHandle` that has descriptor `d`: its file, page count and
`headerChanged`; `inUse` becomes false when the handle is deleted and its descriptor stays. `pool[d][p]`
is the frame of page `p` under `d`, `disk` and `diskHdr` the files. The pool's table and list are
left to `BufferPool`: any frame may be replaced at any time (`ReplaceFrame`), also one whose
descriptor no handle has. `OpenFile` takes the lowest descriptor, as `open()` does, and does not ask whether
the file is open already.

Closing has three outcomes. `CloseFile` does everything. In `CloseFileFails` a page or the header cannot
be written, and in `DeleteUnclosed` RM does not get as far as PF; in both RM deletes the handle, whose
destructor writes the header if it has changed (`Delete`). A write leaves the file alone or is cut short
when it fails, page by page.

`latest` and `latestHdr` are history: each page and the page count as last changed, through whatever
handle. So are `fresh`, the handles opened when no descriptor was ahead of the file and not overtaken by
a change through another; and `mixed`, the files that were changed through a handle that was not
fresh. A caller's change replaces all of a page, so that what
becomes of two handles' changes to one page is not modelled: the file is `mixed` then and nothing is
promised. The catalogs are changed by SM's handles only, which are therefore fresh as long as the
database is open, whatever SELECT opens besides.

Left out: `close()` failing after everything was written; a header cut short; reads that fail and pages
still held at the close (`BufferPool`); files that are destroyed; what is on the pages.

### RecordFile

`state` is the file's: `closed`, `open`, and two points inside `CloseFile`,
`flushing` (page 0 has the cached header, the flush has begun) and `flushed` (all
pages are on disk, the PF header is not), so that the process can end between
them. The next five variables are the fields of `RM_FileHandle` and
`PF_FileHandle`. `mem`/`memHdr` are what the pool shows, `disk`/`diskHdr`
/`diskPfNumPages` what the file holds; `WritePage` lets the pool write any page at
any time, which is what `PageStore` allows it. `RM_PageHdr` keeps the record count
and the bitmap apart, as the code does.

`InsertRec` calls itself after taking a full page off the list; `Passes(passed)`
describes the whole chain of such calls and the action is enabled only if the chain
ends, so a list of full pages that loops would show as an insertion that never
returns. `InsertFails` is the way out through `GetThisPage`'s range check.

`saved` and `forced` are history: the values each record had since the last close,
and the records as the last `ForcePages` left them. `exited` is too: it is set when a
process ends with the file open, and `FreeListExact` is about the time before.

Left out: one record size per file is fixed at creation, so offsets are not
modelled; a page fetch that fails for want of a frame or by a write error returns
before anything changes and would be a stutter, except in the recursion of
`InsertRec`, where it leaves what `InsertFails` leaves; a `CloseFile` that fails, which
`FileHandles` has.

### Catalog

A statement is a sequence of steps, and `pc` is the next one: `CreateTable` makes the
file, `InsertIntoRelcat` and `InsertIntoAttrcat` enter the rows, `ForceRelcat` and
`ForceAttrcat` end it; `UndoFile`, `UndoIndex` and the shared `DeleteFrom...` steps are
its way back. Each step is one call on a file or on a catalog, so `Fails` makes the
call fail in the way the code treats a failure (returns, goes on, or undoes), and `Exit`
ends the process before any of them. `relcat`, `attrcat` are rows by RID; `relWas`,
`attrWas` are the values a restart may leave each row with, reset by `ForcePages` and by
closing the database. `tables` and `hurt` are history: the columns last declared, and the
tables whose statement failed or was cut short.

Left out: a catalog that needs a new page (`RecordFile` shows what a restart does to one),
types and lengths of columns, and what tuples hold: `filled` says only whether a table has
any, which decides CREATE INDEX. `CloseDb` has no failing path: the code goes on when one of the two
catalogs cannot be closed and returns the error (`sm_manager.cc:69-90`), with `bDbOpen` false. If RM
fails to fetch page 0 then, the handle of that catalog stays open, RM refuses to open it again
(`RM_FILENOTOPEN`) and so every USE fails until the process is started anew. The assumptions on the constants say that a catalog has finitely
many slots and a table finitely many columns, and that the values that stand for "no row" and "no
statement" are neither.

### ColumnOrder

CREATE TABLE and DROP TABLE take one step for each row of attrcat; `entered` counts those of the
CREATE under way. `File` is attrcat as `InsertRec` and `DeleteRec` see it: rows, the list of pages with
room, the number of pages. A row goes to the first free slot of the first page of that
list, and the order of columns is the order of RIDs, as `GetRelInfo` scans them. The
rows of the catalogs about themselves, which head the first page and never go, are left
out. `INSERT` also checks the type of each value against the column it is given
(`ql_manager.cc:445`), so a value in the wrong column is stored only when the types agree;
when they do not the statement is refused.

### Session

`dirs`, `files`, `metadata` are the file system: directories, pages of each file in each
directory, and the saved accounts `<name>.pf_metadata`. `databaseName` and `account` are
`PF_Manager`'s, `cwd` the working directory, `currentDatabase` and `bDbOpen` main's and
SM's. The operators on a system `s` (`SetDatabaseName`, `SetDiskSpaceLimit`,
`AllocateDiskPages`, `DeallocateDiskPages`, `CreateFile`, `DestroyFile`) are the functions of
`pf_manager.cc`, and an action composes the calls of one statement in their order. CREATE
DATABASE is three actions: done, no relcat, no attrcat. `careful` is history: every CREATE
DATABASE so far was given in the initial directory with no database open. Two assumptions on
the constants are checks of the code: no table has the name of a catalog
(`sm_manager.cc:118`, `227`), no database the empty name (`redbase_main.cc:243`), which is `None`.

Left out: `mkdir`, `chdir`, `rmdir` failing for reasons of the file system; rows and pool.

### SqlParser, QueryPlan, Statements

A text is a sequence of lexemes (words, numerals, operators, quoted texts, marks, blanks) and
a token the sequence of lexemes that `Tokenize` glues together. The parser's tests on characters
become tests on lexemes: `HasDot`, `IsNumeric`, `IsQuoted`. The three loops over a WHERE are one
operator, `Conditions`, since they are the same code three times. Upper and lower case, signs of
numbers and unfinished quotes are left out.

`OptimizeQuery` is the plan of filters over a scan that the optimizer builds for one table, and
`PassTuple` what happens to a tuple in it. `DeleteMatches` and `UpdateMatches` are the copies of
that test in `ql_manager.cc`. A tuple's value need not have its column's type, because UPDATE copies
the bytes of any value; what such bytes compare as is not modelled, and every outcome is possible
(`guess`).

`Statements` types any statement of `Written` when the prompt is there (`Type`). The statement is
parsed and one of main's Execute functions runs it: in one step where nothing is scanned, and
otherwise in one step for each record (`ScanSelect`, `ScanDelete`, `ScanUpdate`, `ScanPasses`),
with the second loop of DELETE after the first. `at` is the scan's place, `found` the RIDs printed,
collected or updated, `count` what is printed at the end, `rc` what main gets. `FetchFails` is a
page that cannot be fetched, at the opening, in the scan, or in a call on one record. When it is the
catalog that the constructor of `ScanNode` reads, the query goes on without columns
(`OpenScanWithoutColumns`; `attrs` is what the plan knows). `ended` is the end of the process by a
null pointer.

INSERT, DELETE and UPDATE end with `CloseFile`, whose result QL drops (`ql_manager.cc:391`, `720`,
`841`), and so does the model: `rc` is set before (`Close`). `CloseFileFails` is page 0 not fetched, a
page or the header not written. Some of the records changed are then in the file (`written`); the others,
with whatever shares their pages (`left`), are in dirty frames of a descriptor nobody will close,
`leaked`, with one function of records for each close that failed. Later statements open the file anew and do
not see them, until a fetch replaces such a frame and writes it over the file (`WriteLeaked`): before the
statement has read anything, or in its midst (`overwritten`). A statement's own changes are not
overwritten, because the frames that hold them were used after those that were left and are
replaced after them. `before` is the file without what the statement did, so what comes back into the
file comes into `before` too. `stmt`, `faulted`, `unclosed`, `overwritten` and `retyped` are history.
`WrittenAssumption` says that the parser's result is a `ParsedSQL` whose fields have their C++ types,
and that no table but `t` is created; TLC evaluates it for every statement of the configurations.

Left out: statements on the catalogs themselves and without a database, which are refused or read
only; a SELECT with a list of columns, whose `ProjectNode` prints through attributes with offset
and type never set; failing steps of CREATE, DROP and of the two catalogs, which `Catalog` has, but
for the catalog that a plan reads; where in the file a record is, which `RecordFile` has. Of a close
that fails: the header and the links of pages it leaves behind, old or new, so that a page can be
counted that is not written or the other way round; a page cut short, which `BufferPool` has;
and the close of a SELECT, which has nothing to write. The end of the process, in which what was left is
lost, is in `RecordFile`.

## 3. Checks

`pool_evict`, `session` and `statements` take two to three minutes, every other configuration
less than one.

| Run | Question | Bounds |
|---|---|---|
| `pool_evict` | replacement under pressure, any write failing or cut short | 2 files × 2 pages, 2 frames (or 1 after a change of size), 2 page handles |
| `pool_readfault` | what holds when `read()` fails | 3 pages of 1 file, 2 frames, no write faults |
| `pool_staleframe` | *finding*: does an acknowledged flush hold when `read()` can fail? No | as `pool_readfault`, two values |
| `handles` | can a descriptor that is used again show pages of the file it was for before? what may a handle rely on when others come and go, and what has a close that succeeds done? | 2 files of 1 page, 2 descriptors, any write and any close failing |
| `records` | what a restart can do to records, links and counts; and the free list while every process closes the file | 2 pages × 2 records, any number of restarts; `MaxCount` bounds the RM page count, which restarts can push past the file |
| `records_stuck` | *finding*: does `InsertRec` always find or make a page? No, after a restart | as `records` |
| `catalog_mishap` | is damage confined to the table whose statement was cut short? | 2 tables, 2 columns, 3 slots of attrcat, index numbers to 2, one step that fails or one end of the process |
| `order_onepage` | do values meet their columns in a table whose rows in attrcat are on one page? Yes | 3 tables of up to 2 columns, 2 pages × 3 slots |
| `order_pages` | *finding*: and in every table? No | 2 pages × 2 slots |
| `session` | are account, limit and open database in step, when databases are created from the initial directory with none open? what holds whatever order statements come in? | 2 databases, 1 table, directories two deep, limits none, 3 and 7 pages, files of one page more than they are created with |
| `statements` | is each statement read as meant, does it touch the rows it should and no other, does it print the right number and return, with a fetch or the close of the file failing anywhere? | 1 table of 2 columns in either order, 2 rows, one failing fetch or close, 56 statements, any of them after any other; while frames of a failed close are left, 10 of them (`WrittenLater`) |
| `statements_where` | *finding*: does DELETE spare the rows its WHERE does not name? Not when the WHERE is written without blanks | as `statements`, nothing fails |

Why these bounds are enough to be interesting. Pool: four pages on two frames force
evictions of dirty and of clean pages with zero, one or two holders; two files show every
effect across files of calls that take a descriptor; two handles may hold the same frame,
all frames, or none. Handles: two descriptors are two handles on one file, or one that was leaked and
one that is used; with two files each of them meets the other's descriptor; two contents tell an older
page from a newer one. One page is enough for the properties, which are about each page
by itself and the count, and a file grows from none to one; the theorems are for any number. Records: a second slot distinguishes full, partly full and empty
pages, and two pages make lists in either order and lists that loop. Catalog: a second
table is what damage could spread to; with two columns in three slots a table's rows are
reused by another and can fail to fit; one mishap reaches every step. Two mishaps are
explored by setting `MaxMishaps = 2`, which takes long. Columns: two pages are what a table can be split over, three
tables are needed to free a page while another stays full, and with three slots to a page a table can come
to lie between the rows of others.
Session: the limits are smaller than a new database (6 pages), just above it, and none;
two databases make a switch. Statements: two rows are one that matches and one that does not, in
both orders; a WHERE has no, one or two conditions, with a value of each type, an unknown column,
columns on the right of the same and of another type, an unknown operator, a decimal, and no blanks;
lists of columns have a constraint, a name twice, or neither; one failing fetch reaches every
place. A failed close leaves its mark on the statements after it, of which `WrittenLater` has each loop
with and without a condition, two INSERTs that change what the file holds, CREATE INDEX and DROP TABLE; the
others differ from these in how they are read, which frames have no part in. Statements follow one another without end, so that every table, row and index that some
of them can leave is there for every other.

What the findings show:

* `pool_staleframe`: a failed `read()` in `FetchPage` leaves the frame with the
  identity and the dirty flag of the page that was just written and removed from
  the table. The page is later read into another frame and modified; a flush or an
  eviction of the stale frame writes the old data over the new.
* `records_stuck`: the RM header reaches the disk before the PF header. A process
  that ends in between leaves a list that leads past PF's count, and insertion into
  the table fails from then on.
* `order_pages`: the page freed last is filled first, so a table created after a drop can
  have its columns come back in another order than declared, and INSERT stores values by
  position in that order.
* `statements_where`: `a=1` is one token, a condition is three, and what is left over is dropped
  without an error. DELETE then has no condition and deletes the table's rows; so do UPDATE and
  SELECT find all of them.

What the models show besides, and no run reports on its own:

* `ForcePages` writes pages, not the page counts, which live in two cached headers until
  `CloseFile`. A forced record on a page that is new since the file was opened is
  unreachable for the next process, which is why `ForcedOnOldPagesSurvive` speaks of old
  pages only. The catalogs are exposed: they stay open from OPEN to CLOSE DATABASE, and
  `quit` does not close them.
* RM deletes a PF handle that could not be closed (`rm_manager.cc:200`). Its descriptor stays open and
  its dirty frames stay in the pool, out of reach of `ClearFilePages`; when one of them is replaced, it
  is written over what a later handle has changed and closed with success (`CloseFileFails`, then
  `ReplaceFrame`). The later handle is not `fresh`, and the file `mixed`.
* DROP TABLE forces relcat before attrcat. A process that ends in between leaves rows of columns without
  a table, and the next table of that name is given them: CREATE TABLE looks at relcat only, and
  `GetRelInfo` takes the first rows of that name (`OtherTablesAgree` is about the other tables).
* DROP TABLE ignores the result of deleting from relcat (`DeleteFromRelcat`), so a table
  without a file can stay in it.
* CREATE INDEX on a table with tuples always fails: an index is made without a root, and
  no code makes one (`BuildIndex`, `CreateIndexCode`). INSERT, DELETE and UPDATE then leave the
  index empty, and nothing reads it.
* `CREATE INDEX i ON t(c)`, as the help text writes it (`redbase_main.cc:174`), names the empty
  column and is refused; only `ON t c` gets through. DROP INDEX is always refused, since the name of the
  table it is given is empty (`ExecuteDropIndex`).
* Every word after a column's name counts as a type, so constraints, which the help text announces
  (`redbase_main.cc:160`), shift the types of the columns that follow (`ParseCreateTable`).
* A decimal on the right of a WHERE, and a quoted text with a point in it, is taken for a column
  (`IsAttribute`). INSERT takes parentheses and commas out of quoted texts (`ParseInsert`).
* UPDATE with a column on the right of a condition compares with a null pointer when the types
  agree with INT (`ProcessEnds`).
* UPDATE stores the bytes of a value of any type (`ScanUpdate`, `retyped`), which INSERT refuses.
* DELETE and UPDATE report success when their scan ends with an error (`LoopEnds`).
* INSERT reports success, and DELETE and UPDATE print their number, when the file could not be closed
  (`ql_manager.cc:391`, `720`, `841`), though the next statement finds nothing of it, or a part
  (`CloseFileFails`). The rest can come back in a later statement, in its midst too (`WriteLeaked`): its
  scan may then meet rows it did not begin with, and DELETE find a record gone that it has
  collected. Hence the exceptions `unclosed` and `overwritten` in the properties.
* A SELECT * whose plan could not read the columns (`ql_plannode.cc:24`) prints every row with no column,
  and main reports nothing. With a WHERE it ends at the first row with an error
  (`OpenScanWithoutColumns`).
* Of the tables of a FROM only the first is kept (`ParseSelect`), so that a join is never planned.
* CREATE DATABASE while another is open changes the account to the new one (`Configured`),
  which is why `AccountOfOpenDatabase` speaks of `careful` sessions only.
* `AllocatePage` takes no notice when the limit refuses a page: the page exists and is not
  counted (`drifted`).
* When `SetupAttrcat` fails, relcat is unlinked in the directory the statement was given in
  and not in the one it was made in (`CreateDatabaseNoAttrcat`).
* USE that fails in an existing directory leaves the process in it, and a CREATE DATABASE
  after it makes a database within that directory (`UseFails`, `MaxDepth`).
* `SetDatabaseName` does not load the account when the name is unchanged, even if it was
  set from another directory. A database called `default`, the name `PF_Manager` starts with
  (`pf_manager.cc:15`), is therefore used with the account of the initial directory, which has its
  limit and none of its pages: with `Default = d1` and `Dbs = {d1}`, TLC violates `AccountExact`
  in three steps (CREATE DATABASE with a limit, quit, USE). The configuration and the theorems have
  `Default` different from the names of the databases.

Fairness. The program is one thread that runs a statement until it returns, and the user may stop
typing at any time: `Statements` has weak fairness of `Step`, which is everything but `Type`, and
`StatementsReturn` says that each statement then reaches the prompt, unless the process ends in it.
`Statements` may stop, because the process may: its configurations do not check deadlock. In the
other modules a call is one action and there is nothing to wait for. The recursion of
`InsertRec`, which has to end, is a safety property (`FullPagesEndTheList`); `Catalog`, whose
statements have several steps, cannot be stuck between two of them: deadlock is checked, and each
`pc` leads on.

## 4. Proofs

TLAPS proves, for every value of the constants that their assumptions allow, every property
that the passing runs check, but for two of `Statements`.

**BufferPool** (`BufferPoolProofs`). With `~ ReadFaults`, write faults
allowed: `PoolInv` is an invariant, and from it `TypeCorrect`, `SingleCopy`, `PointersStayValid`,
`PinCounts`, `CleanFramesAreSafe`, `AcknowledgedFlushIsDurable`, `ReturnsSucceed`. The properties are
not inductive one by one: that a victim can be dropped needs that nobody points into it (pin counts
are handles) and that its page is in no other frame; that a flush hits the right data needs one copy
per page; that the table's answer can be trusted needs that empty frames are neither dirty nor
pinned. `PoolInv` is the conjunction of all of them with two facts of its own, `EmptyFramesIdle` and
`SyncedFilesClean`. Each action has a lemma that it keeps `PoolInv`; actions that share a shape share
a lemma (`HoldKeeps` for the three ways to get a page, `FlushKeeps` for the two flushes,
`EmptyPoolKeeps` for the two ways to start over, `OnlyDiskChanges` for the failures).

`PoolImplementsStore` is the refinement: the value a reader of a page sees is that of its frame, or
of the file when it is in none, and each action is one action of `PageStore` or leaves all of this
alone. `NoBufMeansAllHeld` says that FetchPage gives up only when every frame is held: the victim is
the first unpinned frame of the list, which exists by `LeastElement`. The assumption `~ ReadFaults`
is needed, and `pool_staleframe` is the counterexample without it. What failing reads leave standing
is `TableInv` (`EveryFrameIsListed`, `TableIsSound`), proved for all constants.

**FileHandles** (`FileHandlesProofs`). `HandlesInv` adds three things to the properties. A fresh handle of
a file that is not mixed is in step with it (`FreshInStep`): it has the count and reads the pages last written,
and each frame that is not dirty is the same as the file, so that it may go. Only a fresh handle can be ahead of
the file (`AheadIsFresh`), and then no other is fresh (`AheadIsAlone`): what it writes can overtake nobody
who is promised anything. A call that reads, flushes, replaces, closes or fails to close changes no page and is a
case of one lemma, `FlushKeeps`, however the writes end; a change makes its handle the only fresh one, or
the file mixed (`ChangeKeeps`); an open finds the file up to date when nobody is ahead, by
`NothingAheadMeansOnDisk` itself (`OpenFileKeeps`). It gives `HandleTypesCorrect`,
`DescriptorsAreReusedSafely`, `FreshHandlesRead` and `ClosingLosesNothing`. They promise nothing to a handle
that is opened while a leaked descriptor is ahead of its file, and section 3 says what can become of it.

**RecordFile** (`RecordFileProofs`). `FileInv` adds to the properties that the two headers are in step
(`HeadersInStep`: what RM counts, what PF counts, what each has on disk, in each of the four states
of a file), that no link leads to page 0, and that the history variables hold what they should.
A record's value on disk is a value it has had since the last close because every value it shows
is recorded, and what the pool writes is what it shows.
From `FileInv`: `FileTypeCorrect`, `CountsAlwaysMatch`, `RecursionEnds`, `HeaderNeverTaken`,
`RestartFindsHistory`, `ForcedSurvives`; and `FileImplementsMap`, the refinement of `RecordMap`, where
an insertion, update or deletion is a step on one record, and a restart gives each record a value it
has had. `FreeListKept` is the second invariant: until a process ends with the file open there is a path
without repetitions from `firstFree` through exactly the pages with room. It gives `FreeListIsExact` and
`OnlyAnExitStrandsInserts`: without such an end `InsertFindsAPage`, which `records_stuck` violates,
holds.

**Catalog** (`CatalogProofs`). `CatalogInv` adds two things to the types. `StatementOK` says which
statement can be at which step and what it has made so far. `TablesKept` says of every table that no
mishap touched that it is as it should be: `AtRest` (declared with as many rows, files and index
numbers as both catalogs say, in memory and on disk, or nowhere at all) or, if it is the table of the
statement, `OnItsWay`. A step changes slots, files and numbers of one table only; what it
leaves to the others (`Spares`) is enough to keep them, and each action has a lemma that it moves its
own table to where the next step expects it. A restart may take any value since the last force, and
a table at rest has one such value. `OtherTablesAlwaysAgree` follows: `GetRelInfo` finds
the rows that are there, which are the declared ones. `NextIndexNoIsAlwaysFree` follows since the numbers of
the files are those in attrcat and the next is above them; `FailedCreateIsAlwaysUndone` has an
invariant of its own, `UndoneSoFar`, for what has been taken back at each step of the way back.

**ColumnOrder** (`ColumnOrderProofs`). `OrderInv` says of every page that the rows a table has on it
are in the order of its columns (`PagesInOrder`), which an insertion keeps because it takes the first
free slot of a page on which every slot below the table's rows is taken (`Packed`), and that there is one row
for each column entered (`RowsAreColumns`, `NoneTwice`, `NoneMissing`). The page taken has a free slot because the list
is the pages with room, each once (`Fits`). The scan's n-th row is then the n-th column, by counting
(`RisingList`). `OnePageIsEnough` is the converse of the finding `order_pages`.

**Session** (`SessionProofs`). `PlaceInv` holds for statements in any order: a directory that is not
there has no files and no accounts, the one the process is in is there, and pages of attrcat that are
not saved are among those it has. It gives `SessionTypeCorrect` and `CatalogsRemain`. `AccountsKept`
is about careful sessions, with `Default \notin Dbs`: databases are in the
initial directory; nothing is counted there for one still to be made; and of one that is made, the
account saved in its own directory and, while PF has its name, the one in memory are both right. It gives `AccountIsOfOpenDatabase`,
`LimitStaysInForce` and `AccountIsExact`. The hypothesis is needed, as a database called `default`
shows (section 3).

**Statements** (`StatementsProofs`). `StatementsInv` joins what is promised when a statement has
returned (`Reported`) with what makes it true on the way. `ScanSoFar`: what was found satisfies the
conditions, and every row that does, up to the scan's place, was found, unless a fetch failed under an
UPDATE or a column is on the right of its conditions; beyond that place the file is as it was.
`DeleteSoFar`: of those found, only the ones passed are gone, and the counter is their number.
`DoneBeforeClose` is what is done when the file is closed, and `AfterClose` carries it over to the
return: if the close fails, what is in the file afterwards is a part of it, so the number printed
can only be too large. `ComesBackOK` is needed for what is left: rows in frames of a failed close fit the
columns of the table, for which it matters that DROP TABLE is rid of them. All that is said about rows
found is for statements with `~ overwritten`.
That the three statements agree rests on three lemmas about `QueryPlan`: a tuple passes the plan if
and only if every condition is true of it (`PassMeansAll`), an UPDATE finds no other, and every one
when no column is on the right (`UpdateMeansAll`); the first outcome that is not true is taken
(`FirstOutcome`). The parser enters only through `WrittenAssumption`, so the theorems hold of
any conditions, values and columns that a `ParsedSQL` can carry.

There is no induction in these proofs: where one would be used (the first free slot, the first frame
of a list, the last of the frames written for a page) they take the least element of a set of numbers
(`OrderLemmas`), which follows from the well-foundedness of finite sets under inclusion.

## 5. Not modelled, and the plan

Not modelled:

* The B+ tree of IX (insertion, splits, deletion, scans): an index has no root and no code makes
  one, so that no state of a tree can be reached. What can be is in `Catalog` and `Statements`.
* `JoinNode` and the choice of joins: main passes one table.
* `ProjectNode`: it prints through attributes whose offset, type and length are never set.
* LOAD, PRINT and `Set` of SM: no statement of the command loop calls them; `Catalog` has LOAD as
  what it does to the tables. SHOW TABLES and DESC only read and print.
* `DisposePage`: nothing calls it.
* Printing, error texts, statistics, and files the Makefile does not build.

Only model-checked:

* `ParsedAsWritten`: the parser is a fold over the lexemes of a text.
* `StatementsReturn`: liveness under fairness.
* The findings, which are counterexamples.

What a next step could add: `RecordFile` over a `FileHandles` that fails to close. The destructor then writes
the PF header though pages were not written, so that a restart can find pages counted that are not
there; `RecordFile` has the two in order, pages first.
