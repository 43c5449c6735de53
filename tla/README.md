# A TLA+ verification of the SQL API server

The program is an in-memory `users` table with a small SQL engine
(`src/core/`), wrapped in a multi-threaded HTTP server (`src/server/`). This
directory holds TLA+ models of it, the TLC configurations that check them, and
proofs checked by TLAPS. Paths below are relative to the repository.

## 1. Inventory

| Part | State | Operations | Hard because |
|---|---|---|---|
| `HTTPRequestQueue` in `src/server/http_server.c` | ring buffer `items`, `head`, `tail`, `count`, `shutting_down`; one mutex, one condition variable | init, push, pop (waits), shutdown, destroy | one signal per push, spurious wakeups, wrap-around, shutdown with work queued |
| Lifecycle and workers in `http_server.c` | stop flag, worker threads, listening socket, `completed_responses` | `http_server_run`, `http_server_worker_main`, `http_server_handle_client`, signal handler | partial start, refused connections, blocking `recv`, signals, draining at shutdown |
| DB boundary, `src/server/db_server.c` | rwlock `db_lock`, `metrics` under a mutex, the `Table` | `db_server_execute` (classify, count, poll for the lock, execute, release, count), `record_*` | timeouts against late locks, two parsers for one statement, results used after unlock |
| Users table, `src/core/table.c` | `rows`, `size`, `capacity`, `next_id`, `pk_index` | create, insert, queries by id, name, age | index and rows must agree, failed inserts, early termination of range scans |
| B+ tree, `src/core/bptree.c` | nodes with `parent` and `next` pointers, `root` | search, insert with leaf and internal splits, destroy | splits over several levels, the leaf list, allocation failure in the middle |
| SQL parser, `src/core/sql.c` | none | `sql_execute` and its parsers | the lock's classifier and the guess of `usedIndex` read the same text by other rules; `long` cast to `int` |
| Framing, `http_server_read_request`, and API, `src/server/api.c` | the request buffer, `total`, `headers_ready`, `expected_total` | receive, parse request line and headers, parse JSON, escape strings | pieces of any size, `Content-Length` read twice, fixed buffers |
| Platform wrappers, `src/server/platform.c` | none | pthread calls | what pthreads guarantee |
| Command lines, `src/server/server.c`, `src/cli/main.c` | options, standard input, the `Table` | two passes over the arguments, read and run lines | the passes must agree; `fgets` cuts lines; `strtoul` takes signs |

How they interact: the accept loop (the main thread) pushes accepted sockets
into the queue; workers pop them, read one request each, and call
`db_server_execute` for `POST /query`. All workers share one `DBServer`; its
rwlock is the only thing that keeps them apart inside `sql_execute`, `table.c`
and `bptree.c`, which have no locks of their own. Shutdown goes the other way:
stop flag, end of the accept loop, queue shutdown, join, destruction.

What makes each part correct:

* queue: a bounded FIFO that loses and duplicates nothing, wakes enough
  workers, and lets them go only when it is drained;
* lifecycle: every accepted connection is answered once, counted once and
  closed once, and the server ends when it is told to;
* DB boundary: every statement takes effect atomically, locks are paired, and
  the counters add up;
* table and tree: the index gives the answers a scan of the rows gives, and a
  query gives all of them or fails;
* parsers: the lock covers what the statement does, errors have a message, and
  a number or a name means the same where it is stored and where it is compared;
* framing: a request means what its client meant, however it arrives;
* command lines: each statement is run once and in order.

`PROJECT.json` lists the hazards with their lines.

## 2. Modules

    BoundedFifo  <- refined by -  HTTPRequestQueue  <- instantiated by -  HTTPServer
    UsersTable   <- refined by -  DBServer  - extends ->  SQL  <- extends -  Shell
    UniqueIndex  <- refined by -  BPTree            <- instantiated by -  Table
    HTTPClient   <- extended by -  HTTPRequest  (what HTTPServer takes as one step)

`MC*.tla` name the sets the configurations use; `*_proofs.tla` hold the
theorems. A definition whose comment begins with "Mutant of" is a deliberately
wrong variant of the definition it names. No specification uses it: it replaces
that definition to show that a property notices.

**HTTPRequestQueue.** One variable per field of the struct, and per worker
where it is and what it popped. A critical section is one step; a worker in
`platform_cond_wait` is `"waiting"` until a signal, a broadcast or a spurious
wakeup makes it `"ready"`, that is, about to test the loop condition again.

**HTTPServer.** `main` is where `http_server_run` is, `stage` where each worker
is in `http_server_handle_client`. It takes the queue's actions as they are.
Sending a response and counting it are separate steps, as they are in the code,
because the stop flag can be set in between. Of the metrics it keeps
`total_requests` and `total_errors`, which `db_server_record_*` and
`db_server_execute` update before the response is sent. Clients are the
environment: they connect, and then send a request, close their side, or stay
silent. `Faults` selects what may go wrong: thread creation, bind, accept,
memory for a response, a signal. A signal makes the system call it interrupts
fail, since `signal()` installs handlers without restart under the Makefile's
flags. A `send` that fails, as one does that a signal interrupts, loses its
response; that is part of the fault `memory`.

**HTTPRequest.** One request, from the first `recv` to the statement given to
`db_server_execute`. What the client sends is a sequence of units: a character,
or a word, a header line or a JSON name of which only one thing matters. Lengths
count units, `Content-Length` included, and are `size_t` values that wrap.
Words and names are taken to fit the buffers they are read into (`path[64]`),
white space inside the JSON is left out, and a header line has a space behind
its colon. `Content-Length` counts where a line begins with it; `sscanf` takes
its three words wherever they are, in the body if need be.
`HTTPClient` is the other side, which is not in the repository: what a request
means and how it is written. `Proper` says which requests a client can expect to
be understood: GET or POST, any headers among which every `Content-Length` is
right, for `POST /query` a JSON object in which flat members may stand in front
of the statement, strings spelled with the escapes the reader knows and no
longer than its buffers, and in all no longer than the request buffer. A client
of the model sends a proper request, with anything behind it, or any other text.
`recv` returns any number of the units that are left. The parser of `api.c`
reads the buffer again by its own rules, as in the code.

**SQL.** A statement is a sequence of tokens, and whether white space is in
front of it. `sql_execute`, `db_server_classify_query` and
`db_server_guess_uses_index` are three operators on the same statement. Integer
literals go through `strtol` and the cast to `int`, with the widths `LongMax`
and `IntSize` as parameters. `db_server_guess_uses_index` matches WHERE at any
character, so a word may end in it and a string literal may hold it; tokens say
which do. `sql_match_statement_end` moves on behind a semicolon even when the
statement does not end there, and `sql_execute_select` looks for WHERE from
where it stands, so `SELECT * FROM users; WHERE id = 1` is executed:
`PastSemicolon` is that position, and the parts of the WHERE clause are counted
from there.

**Shell.** `server.c` without `--serve`, and `cli/main.c`: the first pass over
the arguments, the pass that runs the statements of `--query`, and the loop over
lines that `fgets` cuts at the size of its buffer. The program is alone, so a
statement is one step.

**DBServer.** `pc` is where each thread is in `db_server_execute`. The lock is
the set of its readers and the set of its writers. A failed try, the check of
the deadline and the sleep are steps, and the deadline may pass at any time.
The accesses of `table_insert` (read `next_id`, write it, index, `size++`) are
steps of their own, so that exclusion is a result and not an assumption. A
statement is one of `SQL`'s. `db_server_classify_query` skips white space;
`sql_execute` does so only for EXIT and QUIT, so `" INSERT ..."` takes the
write lock and is then a syntax error. The tree is here the set of its keys. An
insert into it may fail in two ways: before anything has changed
(`InsertIndexFails`), or when the leaf has been split and a node above it cannot
be allocated (`InsertSplitLost`): then the key stays in the leaves although
`table_insert` frees its record. `freed` is the ids of freed records,
`Dangling` those that are still in the index. Either needs a full leaf, which
holds `LeafSize` keys, or an empty tree. A SELECT by id walks the leaves from id 1
on (`ConditionsAssumption`) and shows the dangling ids, too; the program reads
freed memory there, and the id stands for whatever it finds.

**BPTree.** Nodes are numbered as they are allocated; arrays are sequences as
long as `num_keys` says. Each split is a step; `promotion` holds the arguments
of the pending `bptree_insert_into_parent`, and nothing else may happen
meanwhile. `CallocFails` says which nodes `calloc` may refuse.

**Table.** `rows` and `pk_index` side by side; a record is its id, and `Users`
says with which name and age each id is inserted. The tree's actions are
BPTree's. The queries are operators, compared with scans and with each other;
`Answer` is the growing array they collect into, which may run out of memory at
any growth. `freed` is the records that were freed, and `live` whether
`table_destroy` has not yet run, which frees all the others.

**Abstract specifications.** `BoundedFifo` is a line of sockets with no ring
and no sleeping. `UsersTable` executes every statement in one step between call
and answer; an INSERT that is refused leaves nothing, or a dangling id that a
SELECT by id, and no other, shows besides the users. `UniqueIndex` is a set of pairs with no key twice, in which an
insert that says 0 leaves no trace.

## 3. Runs

| Run | Question | Bounds |
|---|---|---|
| `HTTPRequestQueue` | ring consistent, no socket twice, no worker asleep over work; refines `BoundedFifo`; every socket is taken | 3 workers, 4 sockets, 2 slots: full and empty ring, wrap-around, all workers asleep with several pushes; no client is assumed to let go of its worker, but not all keep one for ever |
| `DBServer` | exclusion, no half insert, ids, locks paired, counters; refines `UsersTable`; every call returns | 2 threads, 3 calls, 3 ids, lock timeouts, every allocation may fail; leaves of one key instead of three, so that the second insert can lose a split and the third call see it; one statement for every pair of a lock and a path through `sql_execute` |
| `HTTPServer` | one owner, answered once and recorded first, destroyed last; the server ends, connections are closed | 2 connections, 2 workers, 1 slot, `max_requests` 1; failing bind and accept, a signal |
| `HTTPServer_limit` | answers match, counted once, responses after `max_requests` | 4 connections, 1 worker, 1 slot: one more connection than the bound on the overshoot allows; memory and thread creation fail |
| `HTTPRequest` | the division into pieces does not matter; the body has been received; a request is understood as meant; escaped text decodes; a complete request is acted on | some 60 requests in every division: every cut of one, other members with commas and quotes, escapes, a second request behind the first, lengths at and beyond the buffer and `SIZE_MAX` |
| `Shell` | the three readings of a statement agree, errors have messages, literals compare, both passes agree, options, lines | some 30,000 starts: all statements one token away from the grammar, and two tokens away behind SELECT, a semicolon in front of WHERE among them; literals around the bounds of `int` (4 bits) and `long` (6 bits); all lists of up to 4 arguments; three lines at, below and above the buffer |
| `BPTree` | search, leaf list, balance, destroy; refines `UniqueIndex` | order 3, all orders of 6 keys, 2 values: three levels |
| `Table` | index answers = scan answers, scans by name and age agree, all or nothing, rows array, record ownership | order 4 as in the code, 13 ids in sequence: three levels; every allocation may fail; a name that does not fit |

Runs that find a violation, each of a statement the repository makes:

| Run | Statement | What happens |
|---|---|---|
| `DBServer_phase_gate` | README: a waiting writer is not overtaken by new readers | the lock is polled, so a waiting writer is invisible; a reader passes it. Only the timeout protects writers |
| `HTTPServer_idle_client` | README: `--max-requests` ends the server | `recv` has no timeout: one silent client keeps its worker, and the join waits for it |
| `HTTPServer_failed_start` | design document: fixed shutdown order | after a failed thread creation nobody wakes the workers that already sleep, and the join waits for them |
| `Table_calloc` | design document: records are not freed before shutdown | when the new root or internal node cannot be allocated, `bptree_insert` returns 0 with the pair already in a leaf (`bptree.h` has 0 mean a duplicate key): `table_insert` frees a record the index still has, and rows moved to the right leaf are not found by id. `IndexMatchesScan` is therefore stated for trees in which no split was lost |

One more sentence of the design document is not what the code does, and is
harmless: the read lock is to be held until the response is built, and
`db_server_execute` releases it before it returns. The records are read
afterwards. As long as no split is lost that is safe: `NoHalfInsert` has only
rows in a result, no row is freed, and `DestroyedLast` has the table outlive
the workers; nothing updates or deletes records. Once a split is lost, a result
by id may hold a freed record, with the lock or without.

Some properties hold under a condition, because the code does something else
where it fails. These are the conditions, and what is behind them:

* `OneStatementPerLine` is about lines that fit into the buffer. The rest of a
  longer line is run as a statement of its own.
* `BodyReceived` is about requests with at most one `Content-Length` whose value
  does not make the expected length wrap. With two, the first decides how much
  is received and the last how much is read; with a value near `SIZE_MAX`, the
  sum is small. The parser then reads behind what was received.
* `Understood` is about proper requests. A JSON string of more than 15
  characters in front of the statement (`ignored[16]`), and the escapes `\b`,
  `\f` and `\uXXXX`, make a request an error; a nested object is walked into, so
  that its comma or brace is taken for one of the outer object.
* `EscapesDecode` leaves out control characters other than `\n`, `\r` and `\t`:
  they are written as `\u00xx`, which the JSON reader of `api.c` does not know.
* `AgesCompare` has the order of literals only where they fit an `int`; a
  literal that does not fit is reduced, in the same way on both sides.
* `OptionsAsTold`, a part of `ArgumentsAsTold`, is about values that fit `unsigned int`. `--max-requests -1`
  is accepted.
* `NoHalfInsert` and `Linearizable` hold whatever allocation fails, but say less
  once a split was lost (`Table_calloc`): the index then has ids besides those of
  the rows, all of freed records, and a SELECT by id may show them. INSERTs,
  SELECTs by other conditions and the ids given out are not affected. The ids of
  the rows themselves stay in the leaves; that a search by id may no longer
  descend to them after a lost split is the subject of `Table` and `BPTree`, and
  why `DBServer` has only conditions that walk the whole list of leaves.
* `EverySocketServed` is about servers in which not every worker stays with its
  client for ever: `recv` has no timeout, and if all workers wait for silent
  clients, nobody takes what is queued (`HTTPServer_idle_client`). The premise is
  part of the property.
* `IndexMatchesScan`, a part of `QueriesAgree`, is about trees in which no split was lost.
* `AnswersAreRecorded`, a part of `AnsweredOnce`, and that a closed connection
  was answered, are about servers that can allocate their responses and whose
  `send` succeeds. A response that cannot be built or sent has already been
  recorded. A signal that arrives while a worker is blocked in `send` makes it
  fail, too.

Some properties are conjunctions of named parts: `AnsweredOnce` contains
`AnswersAreRecorded`, `ArgumentsAsTold` contains `QueriesInOrder` and
`OptionsAsTold`, `WellLinked` is `ChainSorted` and `Balanced`, `QueriesAgree` is
`IndexMatchesScan` and `ScansAgree`. `TypeOK` of `Table` contains the tree's and
`RowsFit`; `OneOwner` contains the type invariant of `HTTPServer`, and with it
the queue's. `SearchFindsAll` compares searches with `Entries`, the pairs in all leaves, which
is also what the tree shows of itself as a `UniqueIndex`.

Deadlock checking is off where the system may stop: a program or the server
returns, a request is decided, the bound on requests or ids is reached, or
nobody sends anything. It is on for the tree.

**Bounds.** `MaxRequests` and `MaxId` cap counters; nothing depends on their
values but how long a behaviour may be. `CallsReturn` is about finitely many
calls: it excludes a lock that is never given back, not a writer starved by an
endless stream of readers, which `DBServer_phase_gate` shows to be possible in
principle. Buffer sizes and widths are small so that both sides of each are
reached; nothing is compared with them but by the code's own tests.

**Fairness.** A thread that can run does run: weak fairness of each worker's
and of the main thread's steps. Nothing is assumed of the clock (`CallsReturn`
holds although a deadline may never pass), of spurious wakeups, of which worker
a signal wakes, or of shutdown requests. In `HTTPRequestQueue` fairness is that
of `http_request_queue_pop` alone: nothing is assumed of `WorkerDone`, since
`http_server_handle_client` may never return; that some worker is free again
and again is the premise of `EverySocketServed`. In `HTTPRequest` what was sent arrives
in the end, in whatever pieces; nothing is assumed of the client closing its
side. `PatientSpec` adds that a connected client sends something in the end;
the code does not guarantee this, which is why `HTTPServer_idle_client` runs
without it.

**Symmetry** of workers and connections is used in `HTTPServer_limit` only,
which has no temporal property.

## 4. Proofs

Eight modules, one per component. The theorems hold for every value of the
constants: any number of workers, threads and connections, any capacity, order,
buffer size and bound. The assumptions are named in the modules that declare the
constants, and each run evaluates those of its module.

**HTTPRequestQueue_proofs**: `RingCorrect`, `SignalPerPushSuffices`,
`SocketsOwnedOnce`, `RingImplementsFifo`. Assumed: the capacity is at least 1,
`NoSocket` is no socket, the workers are finitely many and at least one.
`TypeOK /\ RingOK` is inductive; the argument is arithmetic modulo the capacity,
kept in a few lemmas about `Slot`. `WorkConserving` is inductive on top of it: a
push adds one socket and, while somebody sleeps, one ready worker; a pop takes
one of each. `SingleOwner` is inductive too, given what a push and a pop do to
the queued sockets.

**DBServer_proofs**: `TypeCorrect`, `LocksPaired`, `WritersExclusive`,
`IndexAgrees`, `IdsUnique`, `CountersAddUp`, `ExecuteLinearizable`. None of
these is inductive alone. `IndInv` adds that a writer excludes everybody
(`LockExclusion`), which results exist at which point of a call (`CallInv`), and
how `next_id`, the index and the rows are related at each point of
`table_insert` (`TableInv`), with the freed records apart from the rows and the
ids of a result among the rows and the dangling ids. There is one lemma per action and under it one step
per conjunct. The linearization point of an INSERT is `size++`, that of a SELECT
the step that collects the rows. `CountersAddUp` needs the threads to be finite:
the calls that a counter is ahead of are a set, whose size changes by one.
A lost split is a step of `UsersTable` of its own (`LoseSplit`), a clean failure
a refusal. `LockCoversAll` is why all this holds for any set of statements, as far as
`ConditionsAssumption` allows them.

**Shell_proofs** begins with the readings of a statement in `SQL`:
`LockCoversAll` and `ErrorsToldAll` for every statement, `GuessIsRightAll` for
every sequence of well-formed tokens, of any length. The lemmas list the
outcomes of each parser; the last theorem then shows that no WHERE can stand in
front of the one the grammar accepts, wherever a semicolon has put it, and that a
SELECT without it ends before another could follow. On top of them are all the invariants of the `Shell` run, for all arguments and
all input. Assumed: the buffer holds more than its NUL, `unsigned int` is no
wider than `unsigned long` and `int` no wider than `long`, and an argument that
is a number is not the name of an option.

* `StatementsLocked` and `StatementsAnswered` carry these theorems
  over to everything that is run. `UsedIndexTrue` also needs that `Tokens`
  returns well-formed tokens, whatever the input is and wherever it is cut.
* `ArgumentsTaken`. `WalkInv` says that there is a set of positions, the options
  read so far, which lead from the first argument to `at` (`Walk`), and that
  the flags and the numbers are what they say (`Heard`). A walk to the end is
  unique (`OneWalk`), so it is `OptionPositions`. The second pass, which steps
  by one over what it does not know, stands at an option or at a number
  (`Placed`), and never at a statement, whatever it looks like. `QueryInv` then
  says which statements have been run: `Did`, the first ones by rank.
* `LinesTaken`. `LineInv` says the same of the lines of the input. If the lines
  fit, `fgets` takes just the next one (`NextLine`).
* `AgesKeepOrder`. `TableInv` relates every INSERT that has been run to its row,
  and `AgesInv` every later SELECT to it. A literal means the same behind
  INSERT and WHERE, and the cast to `int` leaves alone what fits.

**HTTPServer_proofs**: all the safety invariants of the server's two runs, that
is `ConnectionsOwned`, `ShutdownDrains`, `OneAnswerEach`,
`ClientsGetTheirAnswer`, `ResponsesCounted` and `LimitOvershoot`. Assumed, as
for the queue: capacity at least 1, finitely many workers and at least one,
finitely many connections, none of them `NoSocket`. The queue's theorems are
not proved again: `Ring` instantiates `HTTPRequestQueue_proofs`, and every step
of the server is one of the queue's or leaves the queue alone. The argument is
layered. `ServerInv` is inductive: the types, how the accept loop, the shutdown
of the queue and the workers go together (`LifeInv`), and that a connection is
open exactly while one of the accept loop, the queue and the workers has it
(`OwnInv`). On top of it each result has a small invariant of its own:
`ReplyInv` (who has been answered), `RecordedInv` (the metrics as numbers of
connections and workers), `MatchInv` (what a chosen response answers), and
`LimitInv`, where the stop flag turns the bound on the overshoot into a sum that
no later step increases: responses counted, responses under way, queued
connections and the one the accept loop has in hand. The part of `AnsweredOnce`
about the metrics is stated for servers that can allocate their responses:
without memory a response is dropped after it was recorded.

**HTTPRequest_proofs**: `TypeCorrect`, `SameInAnyPieces`, `BodyIsThere`,
`TextsComeBack` and `RequestsUnderstood`, for everything a client may send.
Assumed: the buffer has a size, what is sent is a sequence of units, and the set
of words has those the code itself names. `ReadInv` says that `headers_ready`
and `expected_total` are what the bytes received so far say. The two key lemmas are that the first
empty line of a text is the first one of every longer text, and that the header
lines in front of it, hence the first `Content-Length`, are the same; so the
verdict on a prefix that has a verdict is the verdict on everything.
`TextsComeBack` follows the text that was read from the body (`DecodeType`,
`ExtractType`: it is a sequence of characters, wherever the reader of JSON
stops) through `api_escape_json_string_alloc` and back: from the end of what was
written, each character or escape adds to what is read behind it (`RoundTrip`).
That a non-empty set of numbers has a least element is derived from
`WellFoundedInduction` without induction on a predicate.

`RequestsUnderstood` is `Understood` for every proper request, of any length, in
every division into pieces:

* `Holds(t, o, s)` says that a text has `s` from offset `o` on; `Joined` is laid
  out piece by piece (`Laid`). So the positions of every line, header, member
  and character of a message are known (`HeadIs`, `ObjectLaid`), whatever
  follows the message.
* `QuoteRead`: a string literal is read as what it says wherever it stands, from
  its closing quote back. `OtherPassed` and `StatementFound`: a member that is
  not the statement is walked over to the next one, the statement is taken;
  `ObjectRead` goes along the members by taking the first that would be missed.
* `HeadEnds`: no empty line comes before the one that ends the head, though each
  header ends like half of one. `HeadLength`, `HeadWords`: both parsers, the one
  that takes the first `Content-Length` and the one that takes the last, find
  the same length at the beginning of a line, and `sscanf` finds the words of the
  request line.
* `RequestRecognised` puts this together for any text that begins with the
  message. `SameInAnyPieces` then leaves "socket error" as the only reason to
  refuse.

**BPTree_proofs**: `SearchCorrect` and `TreeImplementsIndex`, for every order
from 3 on, every set of integers as keys and any number of levels.

* `TreeInv` is that there are a height `h[n]` and a place `R[n]`, a set of
  integers, for every node, such that the tree has the `Shape` they describe:
  leaves have height 0 and hold keys of their place, in strictly increasing
  order; the children of an internal node are one level lower, different, know
  their parent, and divide its place along the separators; places of one height
  do not overlap; the root's place is all of `Int`. Heights and places are not
  state of the program: they are what makes the invariant inductive, without
  recursion over the tree. No place is empty, which is what puts a separator
  that is promoted between its neighbours.
* While a split is under way, the right half has no parent yet, and the place of
  the left half in its parent is covered by both (`Covered`, `Halves`).
* A search is followed down by the heights (`DownExists`: the recursive function
  is well defined; `DownEnds`: it ends in the leaf whose place has the key).
  Since places of one height do not overlap, no other leaf can have the key.
* There is a lemma for each way a step can end: `FirstShape`, `LeafShape`,
  `SplitLeafShape`, `NewRootShape`, `InternalShape`, `SplitInternalShape`. Each
  also says what happens to the entries: a step in a leaf adds one
  (`Gains`), a step above the leaves none (`SameLeaves`).
* Both theorems are under `ParentsAllocated`: `calloc` may refuse leaves but not
  the nodes above them. Without this hypothesis both are false, which is what
  `Table_calloc` shows. It is satisfied in the `BPTree` run.

**BPTreeLinks_proofs**: `TreeTypes`, `LeavesLinked`, `NothingLeaks`.

* `TreeInv` says nothing once a node above the leaves was refused. `Sound(h, A)`
  does: `A` is the set of the nodes that are still in the tree. Every node, in
  `A` or not, has the sizes that fit its kind, at least half its keys unless it
  is the root, and children one level below; the leaves, the ones that were cut
  off included, are in one list; the nodes of `A` know their parents. A refused
  promotion takes the right half, and what hangs below it, out of `A`
  (`CutOff`), every other step is followed by the lemmas `LeafSound`,
  `SplitLeafSound`, `NewRootSound`, `InternalSound`, `SplitInternalSound`.
* `SoundTree` is `Sound` for some `h` and `A`, and `TreeInv` if `A` is all nodes:
  inductive without any hypothesis. `TreeTypes` follows from it. With
  `ParentsAllocated`, `A` stays all nodes.
* The traversal of `bptree_destroy` is a recursive function over the tree, which
  is defined by the heights. By taking the lowest node that would break it,
  its result has every node below its argument once, and its leaves in the order
  of their places (`VisitHas`, `VisitOrder`). For the root that is
  `DestroyFreesAll`.
* The list of the leaves and the leaves of the traversal are then two sequences
  of the same nodes in the same strict order, hence equal; that the list starts
  at the leaf that the first children lead to is what connects both. Depths,
  counted by the parent pointers, are the difference of two heights.

**Table_proofs**: `RecordsOwned`, `TableTypes`, `QueriesAnswered`, `QueriesWhole`,
for any number of ids, any first capacity, every order of the tree and
whatever allocations fail. Assumed: `Nothing` is no id and no pending split, the
first capacity is at least 1.

* A record is in `rows` or has been freed and not both, whatever the tree
  answers; `RowsInv` adds that `capacity` has room for the record under way.
* The tree's lemmas are not proved again: `P` instantiates `BPTreeLinks_proofs`.
  `Holding(S)` is its `SoundTree` with the entries the tree has if nothing was
  cut off. `TableInv` says that `S` are the ids of the rows, and of the record
  under way once the tree has taken it, and that ids increase along `rows`.
* A query by id follows the list of the leaves from one that a descent finds.
  The keys of the whole list are increasing, and its values are those of the
  entries; the rows that pass a test are increasing, too. Two increasing
  sequences with the same elements are equal (`Ids`, `Sides`, `Cut`), whatever
  leaf the walk starts in, if what is in front of it does not pass.
* Both answers agree while `DestroyFreesAll` holds, which is `NoLostSplit` of the
  table. `A` is all nodes then, so no hypothesis on `calloc` is needed.
* The result of a query is a recursive function of the number of records
  appended. `Collected` says what it is after each of them.

Recursive functions are reasoned about without induction on a predicate, which
the provers do not have: that a function with the recursive equation exists, and
what it gives, is shown for the least number that would be an exception.

Only model-checked: liveness (`EverySocketServed`, `CallsReturn`,
`StopReturns`, `AcceptedAreClosed`, `CompleteIsRead`), out of the prover's reach.

## 5. Not modelled

* The layout of responses, tables and messages: only their status, the escaping
  of strings and whether there is a message matter here.
* The simulated delays: any thread may pause anywhere.
* Process death. A client that is gone makes `send` raise `SIGPIPE`, which
  nothing handles; the design document leaves disconnects an open question.
* Overflow of `next_id` after 2^31 - 1 inserts.
* `platform.c` beyond what its callers rely on: it holds no state of its own.
* Benchmarks, tests and the presentation.

## 6. Plan

1. Done: queue, DB boundary, lifecycle, tree, table; proofs of the queue's and
   the DB boundary's safety and refinement.
2. Done: statements as tokens with their three readings, the command lines,
   the framing and parsing of requests, queries by name and age, destruction of
   the table, the metrics in the server's lifecycle; proofs about the readings.
3. Done: proofs of the server's safety invariants on top of the queue's, of the
   metrics, of the framing, of the ownership of records, of the command lines,
   and of the tree: search and refinement of the unique index.
4. Done: proofs of the tree's links, types and destruction under every failure
   of `calloc`, of all of the table's invariants on top of them, and of the
   escapes.
5. Done: what a proper request is, and the proof that every one of them is
   understood.
6. Left: the liveness properties, should the prover learn them.
