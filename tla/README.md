# FMAN in TLA+

FMAN runs HTTP test plans: a `.fman` file (or the options of `fman get`) becomes
a plan of cases, the cases are sent by worker threads through libcurl, the
answers are stored in SQLite by a thread of their own, and the main thread reads
them back from the database, checks the assertions and turns them into an exit
code. This directory holds TLA+ modules of that program, TLC configurations that
check them on small instances, and TLAPS proofs about them for every instance.
Paths below are relative to the repository, and `core/` stands for `src/core/`.

Contents: [the system](#the-system), [the modules](#the-modules),
[the runs](#the-runs), [fairness](#fairness), [the proofs](#the-proofs),
[findings](#findings), [what is not modelled](#what-is-not-modelled),
[the plan](#the-plan), [how to run](#how-to-run).

## The system

    .fman file -> lexer -> parser -> RunPlan
                                        |
      main:  run_plan  --request queue--> HTTP workers (libcurl)
                ^                             |
                |                       response queue
              polls                           v
            database <-- DB worker <--db queue-- dispatcher

| Component | State | Operations | Talks to |
|---|---|---|---|
| Blocking queue (`core/queue.c`) | a linked list, size, shutdown flag, a mutex, a condition variable | `queue_push`, `queue_pop`, `queue_shutdown`, `destroy_queue` | shared by the threads at its ends |
| Run engine (`core/engine.c`) | what main still owns (`req`, `task`), `request_ids`, the flags and the exit code | `run_plan` and its `cleanup:` | calls the database and the orchestrator |
| Orchestrator (`core/orchestrator.c`) | `Runtime`: three queues, the threads, how many were started | `create_runtime`, `dispatch_task`, `wait_for_response`, `destroy_runtime`, `dispatcher_routine` | pushes to two queues, pops from one, polls the database |
| HTTP workers (`core/worker.c`) | the task in hand, a curl handle, a header list, a response | `http_worker_routine` and its three cleanup labels, the curl callbacks | pop requests, push responses |
| DB worker (`core/worker.c`) | the DB task in hand | `db_worker_routine` | pops the db queue, writes the database |
| Database manager (`core/db_manager.c`) | the tables collections, requests and responses; the connection and its last rowid | save and look up rows | one connection for main and the DB worker |
| Models (`core/models.c`) | the heap objects handed from thread to thread | create and free | all |
| Run plan (`core/run_plan.c`) | the cases with their texts and assertions | init, free | parser, engine |
| Pending requests (`core/db_manager.c`, `core/worker.c`) | the column `status` of requests, the open transaction of the connection | `db_get_next_pending_request`, `db_update_request_status`, as DB tasks | the shared connection; other processes on the same file |
| Assertions (`core/assertion.c`) | none | `eval_assertion` on a response | engine |
| DSL (`dsl/`) | the lexer's position and its raw mode, the parser's two tokens, the plan being built | `dsl_lexer_next_token`, the `parse_*` functions | produces a RunPlan |
| CLI (`cli/`) | options with their assertions, the plan made of them | `parse_cli_options`, `run_command`, `cli_options_to_run_plan`, print | calls the DSL and `run_plan` |
| Logger (`core/logger.c`) | none | macros | all |

What is hard here, and what makes each part right:

* **The queue.** Four operations under one mutex with one condition variable,
  used by several consumers. It is right when it is a FIFO channel: every datum
  goes to one consumer, nothing is accepted after the shutdown, NULL comes only
  when it is closed *and* empty, nobody sleeps through a datum or the shutdown,
  and every node is freed once.
* **Ownership.** An object crosses up to three queues. Every push may fail (no
  memory, queue closed), and then, only then, the giver frees it. The receiver
  may free it before the giver is back from its push.
* **Shutdown.** `destroy_runtime` closes and joins stage by stage. It is right
  when no push is refused by it, no stage leaves data behind, nothing is freed
  under a running thread, and no join waits for ever, also when `create_runtime`
  came only half way.
* **The verdict.** Workers finish in any order, main looks at the cases in plan
  order, through a database that outlives the run, against a clock. Exit code 0
  must mean that every case was answered in time as asserted.
* **Identity.** Requests are rows under a UNIQUE constraint and rows are found by
  identity, so equal requests, of one plan or of two runs, meet in one row.
* **The shared connection.** `sqlite3_last_insert_rowid` and transactions belong
  to the connection, not to the thread.
* **Pending requests.** A claim is a transaction of four calls on a connection
  other threads use between them, its COMMIT may fail unseen, and a second
  process may claim from the same file. It is right when a request is with one
  worker at a time and every request that waits is handed out.
* **What comes from outside.** Headers and body arrive in pieces of any size, of
  several answers when there are redirects, and may break off anywhere; buffers
  grow by doubling. An expectation must be judged by what the server sent, byte
  by byte, at the ends of the text too.
* **Copies.** Assertions are copied with their pointers from the options into the
  plan and given texts of their own afterwards, one malloc at a time.
* **The lexer.** `BODY` switches it to raw mode for the rest of the line, ahead of
  the parser's look-ahead; `#` is a comment, a part of a name, or text.
* **The parser.** It looks a token ahead, owns two tokens, copies texts into
  fixed-size arrays, and each copy may fail between two others.

`PROJECT.json` lists these hazards one by one, at their lines, with the
properties that watch them.

## The modules

| Module | Models | Built on |
|---|---|---|
| `Channel` | what a queue promises its users (abstract) | |
| `Queue` | `core/queue.c`, lock by lock | refines `Channel` |
| `RuntimeState` | the state of one test run, and queue operations as single steps | |
| `DbManager` | the calls of `core/db_manager.c` a run makes | `RuntimeState` |
| `Worker` | `core/worker.c`: HTTP workers and DB worker | `DbManager` |
| `Orchestrator` | `core/orchestrator.c` | `Worker` |
| `Engine` | `core/engine.c`: `run_plan`; the specification of the pipeline | `Orchestrator`; refines `CaseRun` |
| `CaseRun` | what a run promises whoever reads its exit code (abstract) | |
| `PendingPool` | what claiming pending requests promises (abstract) | |
| `PendingClaim` | the pending requests of `core/db_manager.c`, call by call | refines `PendingPool` |
| `Assertions` | `core/assertion.c` on texts of bytes, and what an assertion means | |
| `Transfer` | the curl callbacks of `core/worker.c`, and a text's way through the database | `Assertions` |
| `GetCommand` | `fman get`: `cli/main.c`, `cli_parser.c`, `commands.c`, the transfer, the verdict | `Transfer` |
| `DslLexer` | `dsl/dsl_lexer.c`, characters to tokens, and the grammar of tokens | |
| `DslParser` | `dsl/dsl_parser.c`, `dsl/dsl.c`, `free_run_plan` | |
| `DslGrammar` | the language and its plans without a parser | `DslParser` |
| `QueueProofs` | proofs about `Queue` | `Queue` |
| `EngineInvariants`, `EngineOwnership`, `EngineRefinement` | proofs about `Engine` | `Engine` |
| `PendingProofs` | proofs about `PendingClaim` and its refinement | `PendingClaim` |
| `GetProofs` | proofs about `Assertions`, `Transfer` and `GetCommand` | `GetCommand` |
| `LexerProofs` | proofs about `DslLexer` | `DslLexer` |
| `ParserProofs` | proofs about `DslParser` | `DslGrammar` |
| `MCEngine`, `MCPending`, `MCGet` | constants a cfg cannot write down | |

### Queue and Channel

A mutex section is split at each point where another thread could see a half-done
operation if the locking were wrong: allocate, lock, link or refuse, signal and
unlock; lock, test, wait or unlink, unlock. `pthread_cond_wait` releases the
mutex and begins to wait in one step, and may return on its own (`PopSpurious`,
at most `MaxSpurious` times). `malloc` may fail in any push. A node is named by
the datum it carries, since a pointer is pushed at most once. The owner closes
the queue at any moment, waits until all threads left, and walks the list.
`unsent`, `refused`, `contents`, `taken` and `stopped` record what the callers were
told; they are the variables of `Channel`, and no action of the code reads them
but for choosing what is left to push.
`Quitters` are consumers that may leave on a datum, as the DB worker does on
`DB_TASK_SHUTDOWN`: then destroy finds nodes to free.

### The pipeline: RuntimeState, DbManager, Worker, Orchestrator, Engine

In these modules a queue operation is one step. That is what `Queue` justifies:
it refines `Channel`, whose steps these are (`Push`, `PushFails`, `Pop`,
`PopNull`).

Each thread has a program counter in `pc`. A step of a thread is a stretch of
code in which it touches shared state (a queue, the heap, the database) once:

* main: `starting`, `creating` (create_runtime), `submitting`/`dispatching` (the
  first loop of run_plan), `polling`/`sleeping` (the second loop, with
  wait_for_response inside), `cleanup`, the seven labels of destroy_runtime,
  `closing` (db_close), `done`;
* an HTTP worker: `idle` (in queue_pop), `setup`, `performing`, `pushing`,
  `releasing` (from a cleanup label, kept in `exitTo`, to the end of the loop);
* the dispatcher: `idle`, `forwarding`;
* the DB worker: `idle`, `inserting`, `reading` (the rowid), `logging`, `freeing`.

A case is its index in the plan. The Request, WorkerTask, Response, curl handle,
header list and DBTask made for case `i` are the objects `<<kind, i>>`; `live` is
the set of those allocated and not freed. Queues hold case numbers, 0 is NULL.
A row of `responses` remembers in `origin` whose answer it is (0: an earlier
run's); no action of the code reads it.

What may fail in an instance is named in `Faults`, at the place where the code
handles it:

| Fault | Call that fails |
|---|---|
| `open` | `db_init`, or saving the collection |
| `runtime`, `thread` | the allocations of create_runtime; a pthread_create |
| `create_request`, `save_request` | the calls of the first loop |
| `push_request`, `push_response`, `push_db` | the malloc of a queue_push |
| `response`, `curl_init`, `headers`, `setopt` | in a worker, before the transfer |
| `db_task` | the DBTask of the dispatcher |
| `save_response` | the INSERT of the DB worker |
| `poll` | the query of wait_for_response |

The transfer itself needs no fault: it ends with any result, in any run.

Abstractions, and why the properties do not see them:

* Whether an answer meets the assertions of its case is one Boolean of the
  answer, chosen when it is made; a case without assertions meets them.
* The identity of a request (collection, method, url, body) is a member of
  `Identities`. Headers are not part of the UNIQUE constraint and not of it. A
  request without body binds an empty blob, not NULL, so such requests are equal
  too.
* `db_save_request` either fails before its INSERT or succeeds;
  `db_save_response` fails before its INSERT or is split into the INSERT and the
  reading of the rowid, which are two calls of SQLite.
* `create_http_worker_task` cannot fail separately: it dereferences its malloc
  (`core/models.c:98`).
* Time is the counter `elapsed` of wait_for_response in steps of 100 ms. Workers
  run at any speed relative to it.

### CaseRun

The promise of a run: cases are submitted once, in order; each answer is
recorded at most once; verdicts come in order and only when all are submitted;
`answered` needs an answer of this run; the end comes when nothing is under way;
and the exit code at the end is 0 only if every case was answered as asserted.
`Engine` maps its state to it: a case is *submitted* while some queue or thread
holds it, *met* or *unmet* when its row exists, *lost* when nothing holds it.

### PendingClaim and PendingPool

The table is a sequence of rows with identity and status; a row's id is its
place. `rows` is what is committed, `view` what the connection with the open
transaction sees, `writer` the process it belongs to. A claimer goes through
BEGIN IMMEDIATE, SELECT, UPDATE and COMMIT or ROLLBACK (`idle`, `selecting`,
`updating`, `committing`, `failing`), one call of SQLite for a step. Between any
two of them other threads of the process may finish a request
(`UpdateStatus`), put one back, or save a new one (`SaveRequest`), and these
fall into the open transaction, since the connection is the same; a second
process finds the database busy. The three outcomes the code does not report are
there: a COMMIT that fails (the request is handed out all the same), a ROLLBACK
that undoes what others did in between, and a row without a url, which fails
every claim as long as it is the oldest.

`PendingPool` knows jobs, workers and a fault counter: `Take` gives a free job to
a worker and marks it, in one step. What others do to the table they may do in
any step, but they never take a job and never make one disappear; only after a
fault may a job be given twice.

What is assumed of SQLite: rows inserted in one run have a `created_at` that
does not decrease with their id, and equal ones are delivered by id; a COMMIT
that fails leaves nothing of the transaction; there is no busy timeout, since the
code sets none; the id of a row that was rolled back is used again (the counter
of AUTOINCREMENT is rolled back with it). DB tasks of this kind are queued by tests only; the
module has them as any code that queues them would meet them.

### Assertions, Transfer and GetCommand

Texts are sequences of bytes here, since the properties are about bytes.
`Assertions` has `bytes_contains`, `header_contains` with its helpers and
`eval_assertion` in the code's terms, loops as quantifiers or minima over places;
below them, what they should mean (`IsInfix`, `SaysHeader`), stated by cutting the
text into parts, without places to scan from.

`Transfer` is one curl_easy_perform. The server may send any lines and pieces of
two sets; libcurl calls header_callback for a line, write_callback for a piece.
Each may fail in its realloc, and the network may break the transfer at any point,
which leaves what had come in the response, and the 0 of calloc as its status.
`sentStatus` remembers what status the server really sent.

`GetCommand` composes both with the command line: `argv` is what follows the first
two words, right or wrong. main parses option by option, dispatches, copies the
assertions into a plan, runs it, evaluates each assertion on the response the
database gives back (`ThroughDatabase`: an empty text comes back as NULL), and frees plan and
options. Each malloc may fail; `live` has what is allocated for texts, and each
assertion says which objects it points to (`holds`). The queues and threads between
the transfer and run_plan are `Engine`'s matter. Here run_plan has the answer of the
transfer once that has ended (`Answered`), or none (`NoAnswer`), or, as runner.db is
kept and wait_for_response takes the newest row there is, the answer a transfer of
an earlier run left for the same request (`AnsweredEarlier`). Each record of
`OldAnswers` is such a row together with what the server had sent in it.
`EarlierAssumption` says that it is one a transfer can leave (`Left`); the theorem
`TransfersLeave` that the transfer modelled here leaves nothing else.

`Parses` and `VerdictTrue` do not know of a loop over `argv`: they speak of a set
of places at which options begin, such that each word belongs to exactly one
well-formed option (`IsCut`), and of what the option at a place means (`Meets`): of
a line, a body, a status the server sent, not of fields of the response.
`VerdictTrue` leaves one thing out and says so: atoi takes any word as a status, and
one that is no positive decimal number in the range of an int (`IsCode`) means
nothing an answer could be true to. See "What to know besides".

What is assumed of the surroundings: libcurl calls header_callback with complete
lines, ended by the only LF in them (`IsLine`), and a NULL pointer is no text
(`NullAssumption`). A byte 0 within a text is not looked for: the words of a
process have none, and libcurl refuses a header with one. The answer to a file: URL
is complete and has status 0, so 0 is one of `StatusCodes`. atoi skips blanks, reads a
sign and digits and ignores the rest; a number out of range is undefined in C and
comes out as any int. The statuses of servers are ints (`IntAssumption`).

### DslLexer

A character stands for its class and a keyword for its word, so that short texts
have everything: names, keywords, `BODY`, digits, strings, comments, both line
ends, blanks, and characters no token has. An action is one call of
dsl_lexer_next_token together with what dsl_lexer_get_tokens does with the token, its
first malloc and each realloc failing or not. Nothing in the program or its tests
calls dsl_lexer_get_tokens, so `Bounded` is about a function of the library only; the
parser calls dsl_lexer_next_token, which the other two properties are about.
A token remembers the places its text was cut from. `CutsText` compares this with
a grammar of tokens that does not scan, `FitsParser` is exactly what `DslParser`
assumes of its lexer (`NextKinds`).

### DslParser and DslGrammar

The parser over kinds of tokens. The text is not chosen beforehand: each call of
the lexer delivers any kind, but the rest of the line (`BODY_RAW`) right after
`BODY`, and `EOF` at the bound. One action per point where the code tests and
reads a token, with everything done before the next such point: the copy of the
text, the assertion added, or the error. A text is named by the position of its
token, so that `PlanIsText` sees from *which* token a field was copied, `live`
which token texts are allocated, `copies` which copies. `strdup` may fail each
time. Left out: the message and position of an error, the value of a status
code, the five methods (one kind).

`DslGrammar` defines the same language without a parser, by the set of legal
lines and three conditions on the whole text (at most `MaxCases` methods, at most
`MaxAssertions` EXPECTs for each, no EXPECT or BODY before the first), and the
plan a legal text stands for, by intervals of token positions.

## The runs

`queue`, `pending` and the runs of `Engine` check deadlock; `Queue` and `Engine`
have an explicit step for having ended (`Destroyed`, `Returned`), so any other
state without a successor is an error. `parser`, `lexer` and `get` do not: there
the program really stops.

| Run | Question | Instance |
|---|---|---|
| `queue` | Is queue.c a channel, and does everybody get out of it? | 2 producers, 2 consumers that may also leave early, 3 data, 1 spurious wakeup |
| `run` | Without faults: are answers stored, given and judged exactly? | 2 workers, plans of 0 to 3 cases (3 is refused), different timeouts |
| `faults` | With every fault the code handles without leaking: ownership, order of shutdown, verdict, return | the same with 13 kinds of faults |
| `one_worker` | Is the pipeline FIFO from end to end, and whose answer does a case get when requests are shared? | 1 worker, 3 cases of which two are equal, an unsupported method, lost pushes, history |
| `pending` | Is a claim one step, is a request with one worker, does every one get its turn? | 3 claimers, 2 of them on the saver's connection and 1 in another process; 4 requests, 1 without url; 1 failing call, 1 request put back |
| `get` | Does the exit code of `fman get` say what the server sent, and who owns the texts? | all command lines of up to 2 options out of 21 groups and one of 3, 2 header lines out of 7, 2 pieces of a body out of 2, 1 failing malloc |
| `lexer` | Are the tokens the text? | all texts of up to 5 characters out of 11 classes |
| `parser` | Is the accepted language the grammar's, the plan the text's, and all memory accounted for? | all files of up to 14 tokens, 2 cases, 2 assertions each |

Four further runs (`history`, `duplicates`, `leaks`, `curl_error`) each violate
one property; see [Findings](#findings).

What the properties say is written above each of them in its module. The ones
that carry most:

* `Queue`: `NoLostWakeup` (whoever sleeps need not be awake: for each datum in
  the list somebody awake will look), `ListShape`, `NodesOwned`,
  `ImplementsChannel` (with liveness), `Terminates`.
* `Engine`: `NoDangling` and `NothingLeaked` together say that the allocated
  objects are, at every step, exactly the ones some thread or queue will still
  use or free. `DrainedInOrder` and `ThreadsStopped` are the order of the
  shutdown; `AllStored` what it is for. `VerdictExact` and `VerdictSound` are the
  exit code, `OwnAnswer` and `OwnRequest` whose answer a case is given, `OnePlace`
  that an answer is nowhere twice, `Returns` that run_plan comes back,
  `ImplementsCaseRun` the refinement.
* `PendingClaim`: `TransactionOwned` (a transaction others write into is ended by
  the thread that began it), `HandedOutOnce`, `Delivered` (liveness: no rollback
  starves a request), `ImplementsPool`.
* `GetCommand`: `VerdictTrue` relates the exit code to what the server sent, in one
  answer of this run or an earlier one, and to what the user asked for, both in the
  words of the reference definitions; `Parses` says which command lines are refused; `OwnedOnce`, `Received`, `BuffersFit`.
* `DslLexer`: `CutsText`, `FitsParser`, `Bounded`.
* `DslGrammar`: `Recognizes`, `PlanIsText`, `TokensOwned`, `NothingKept`,
  `ParsingEnds`.

### Bounds and why they are enough

* *Queue.* Three data let the list be empty, a single node (head = tail), and
  longer; two consumers can sleep at once, so that a signal and a broadcast
  differ; two producers contend for the mutex and one can be refused while
  another links. One spurious wakeup makes the test after a wakeup necessary.
* *Pipeline.* Two workers overtake each other and share the fan-in; two or three
  cases make plan order and order of completion differ, and `MaxCases + 1` cases
  exercise the limit. Timeouts of 100 and 150 ms are one and two polls, of 0 the
  default: every branch of the loop. More workers add no new kind of interleaving
  for a shared FIFO with one consumer behind it; the proofs below hold for any
  number.
* *Parser.* Fourteen tokens are the shortest file with a third expectation (one
  more than `MaxAssertions`), eight the shortest with a third case;
  every statement occurs at least twice, and every error at every place of each.
* *Pending requests.* Two claimers on one connection meet each other's
  transaction, the third meets it from outside, the saver's rows fall into either.
  Four requests let one be saved and rolled back, another take its id, and one
  stand before and behind the row that cannot be mapped. One failure is enough for
  each of the three ways a claim fails; a second one repeats the first.
* *Get.* Two options fill the plan, a third is one too many; the words have every
  kind of hex (two cases of letters, odd, empty, a wrong digit behind a right one),
  the lines every shape of a header (no CR, blanks on both sides of the colon, a
  colon in the value, no value, a status line). With `INITIAL_CAPACITY` 2, two lines
  and two pieces make both buffers grow past their first allocation; a needle lies
  at the beginning, at the end, across two pieces, and may be as long as the body.
  The words of a status option are a number, one with a leading zero, one with a
  blank and a sign, no number, 0, and one that is no int, which is what `INT_MAX` = 4
  stands for; servers send 2 and 4, a file: URL 0. The answers of earlier runs are
  two complete ones, with and without a body, and one that broke off. One failing
  step, in which one or more calls of malloc fail, leaves every NULL an assertion can have.
* *Lexer.* Every token is at most three characters of these classes long, so five
  have two tokens with what lies between them, or a `BODY` with its rest of the
  line, a comment in it, and what follows; the array, of 2, grows twice.
* `MaxSpurious`, `MaxTokens`, `MaxFailures`, `MaxPutBacks`, `MaxLength`,
  `MaxLines` and `MaxChunks` are bounds of the models; `MaxCases`, `MaxAssertions`,
  `MAX_ASSERTION`, `INITIAL_CAPACITY`, `InitialCapacity` and `INT_MAX` are the limits
  of the code (128, 32, 16, 4096, 16, 2^31 - 1) scaled down.

## Fairness

* *Queue.* Weak fairness for each thread: a mutex is not held for ever, since
  every section under it is finite. Spurious wakeups are not owed.
* *Pipeline.* Weak fairness for main, each HTTP worker, the dispatcher and the DB
  worker. A step can be taken by each of them as long as it is enabled: sleeps
  end, `curl_easy_perform` is bounded by `CURLOPT_TIMEOUT` (30 s), an SQLite call
  returns, and a queue operation ends (this is what `queue` checks). Weak
  fairness is enough: no step of one thread is disabled and enabled again for
  ever by another one.
* *Parser.* One thread that waits for nobody: weak fairness of its next step.
* *Pending requests.* A claimer keeps claiming and finishing what it was given:
  weak fairness for each claimer, of these steps only. Nobody has to save, to put
  a request back, or to fail. `Transfer`, `GetCommand` and `DslLexer` are checked
  for safety only.

## The proofs

Every theorem holds for every value of the constants that the assumptions named
in the modules allow. TLC evaluates these assumptions in the runs.

**The queue**, for any number of producers, consumers and data; from
`ThreadsAssumption` (the threads are distinct, NULL is neither a thread nor a
datum, quitters are consumers) and `SpuriousAssumption`.

* `QueueProofs`: `QueueIsSound`, `Safety => []` of `TypeOK`, `MutualExclusion`,
  `ListShape` and `NodesOwned`; and `QueueIsChannel`, `Safety => C!Safety`, the
  safety half of `ImplementsChannel`. The invariant has four parts, each shown for
  the steps of producers, consumers and owner in turn. `Control`: the lock
  follows the labels, only those who wait sleep, and destroy_queue runs when all
  others are gone. `List`: `ListShape` with what makes it inductive, that what a
  producer carries is its own, not accepted yet, and has no successor, and that no
  datum is accepted twice. `Nodes`: destroy_queue has freed exactly the nodes
  before its cursor, which is why the walk meets allocated nodes only. `Told`:
  the queue is open until the owner closes it, who was told to stop is gone.
  And `NobodySleepsThrough`, `NoLostWakeup` for any finite number of threads, from
  `Awake`: each unlink takes one datum and one thread from those on their way to
  look, and each signal hands its sender's place to the thread it wakes.

**The pipeline**, for every plan, number of workers, history and set of faults;
from `CasesAssumption` (there is room for a case), `ThreadsAssumption` (there is a
worker, the threads are distinct) and `PlanAssumption` (types of the plan).

* `EngineInvariants`: `EngineTypeCorrect`, `Safety => []TypeOK`. Not only types: a
  consumer past queue_pop holds a case, never NULL (`job[c] \in Cases`), which
  needs what the queues hold, and `current` stays within the plan wherever it is
  used. For this `TypeOK` alone is not inductive: `Bounded` is added, which ties
  main's label to `current`, `caseCount` and `held`.
  `ShutdownInOrder`,
  `Safety => [](ThreadsStopped /\ DrainedInOrder)`. That a closed queue stays
  empty once its consumers left, and that its producers are gone when it is
  closed, follows from where main is in destroy_runtime: `InOrder` says which
  labels main may be at when a queue is closed (`ClosedLate`), which threads are
  gone at which label, and that a consumer that is gone saw its queue closed and
  empty. All steps of the consumers are treated alike (`Consumes`), so are the
  steps of main before the shutdown (`Proceeds`).
  `NothingLost` adds `Faults = {}` and proves `AllStored`: what was submitted is
  with a thread, in a queue, or stored (`Kept`), every thread was started before
  anything was submitted (`AllBorn`), and by `InOrder` no thread and no queue has
  anything left when main is done.
  `ExitCodeSound`, `Safety => []VerdictSound`, and
  `AnswersOwnRequest`, `Safety => []OwnRequest`. The first needs that the flags
  are earned: while main waits, `allRequestsOk` implies that every case before
  `current` has a row and `allAssertionsOk` that it meets its assertions
  (`Earned`), and that rows never change once inserted. The second needs that
  every row of `responses` refers to a row of `requests` of the identity of the
  case it was made for (`Asked`), and that both tables only grow (`Extends`).
  `ExitCodeExact` adds `Faults = {}` and proves `VerdictExact`, whose new half is
  that 1 is never wrong: a flag that fell points to a case that failed, and stays
  down (`Blamed`).
* `EngineOwnership`: `OnePlaceAtATime`, `Safety => []OnePlace`. The places of a
  case are seats: each thread, each queue, and the table. The invariant says of
  tasks, responses and answers, which move on at different labels, that no case
  has two seats (`Spread`), that none is twice in a queue or a table, and that the
  case main is about to submit has none (`NotYetSubmitted`). A step takes a case
  from seat to seat, and four lemmas on such moves do for all actions.
  `NothingFreedTooEarly`, `Safety => []NoDangling`, rests on it: a thread frees
  objects of a case it has the seat of, so nobody else can reach them. `Alive` is
  `NoDangling` taken apart by who refers to the object.
  `EachItsOwnAnswer` proves `OwnAnswer` for a database without history and cases
  that differ: the rows of this run refer to the row of requests of their case
  (`Traced`), and ids of different identities differ. The runs `history` and
  `duplicates` show that neither assumption can be dropped.
  `OnlyTwoLeak` proves `NothingLeaked` for all faults but `push_request` and
  `setopt`: the converse of `Alive`, that whoever an object was taken from has
  freed it or handed it on (`AllClaimed`), and that a runtime destroyed half-way
  has empty queues (`NothingToDo`).
  `OneWorkerKeepsOrder` proves `StoredInOrder` for one HTTP worker and any faults.
  The pipeline is seven stages, from the table back to the request queue; what has
  come further is of an earlier case, and each queue is increasing
  (`FirstInFirstOut`). A pop or a push takes the least of a stage to the next; only
  the push of the HTTP worker needs that there is no other.

* `EngineRefinement`: `PipelineIsCaseRun`, `Safety => ImplementsCaseRun`, for any
  faults, on a database without history and with cases that differ. It uses all
  invariants above and two more: how far main's loops are (`Progress`), and that
  the answer to a case without assertions cannot fail it (`AllHarmless`). A step of
  a thread changes at most the phase of the case it holds (`SameWay`): it hands
  the case on, unnoticed, gives it up after a fault, which is `Lose`, or inserts
  its row, `Record`. Of main's steps dispatch_task is `Submit`, each end of
  wait_for_response is `Judge`, db_close is `End`, the others are unnoticed.

  `RunDescends`: if there are finitely many workers, every step of main or of a
  thread makes `StepsLeft`, a natural number, smaller, whatever fails and without
  fairness: no loop of run_plan, wait_for_response or the three thread routines
  can go round for ever. It counts, for main, the
  labels to come (`Turns`), the threads to start, the cases to make and the
  moments of the waits to see (`ToWait`; `elapsed` stays below the timeout of the
  case, `Timely`); for the threads those that will leave, the stops each case has
  still to pass between the request queue and the end of the DB worker's loop
  (`StopsLeft`) and the tasks to free. That no case goes back to a stop needs that
  it is nowhere twice (`Owned`). `NoDeadlock`: until run_plan returns, main's
  guards hold (`MainCanGo`), or it waits in a pthread_join and each thread that is
  joined and has not left has its own guard (`CanGo`), since the queue it takes
  from is closed (`JoinsClosed`). Both together are the argument for `Returns`: a
  run is finite, and does not stop before run_plan has returned. That the guards
  are when an action is enabled is not proved (`ENABLED`); the runs, which check
  deadlock, agree on their instances.

**Pending requests**, for any number of processes, threads, requests and failures;
from `ProcessAssumption`, `RowsAssumption` (old rows are distinct) and
`BoundsAssumption`.

* `PendingProofs`: `TablesTyped` (`TypeOK`), `OneClaimAtATime` (`TransactionOwned`) and
  `OneWorkerPerRequest` (`HandedOutOnce`). What makes them inductive (`Claimed`):
  the open transaction has all committed rows and at most more of them, a request
  somebody holds is taken in both, and the row a claim has picked is held by
  nobody and has the status its label says. An id whose COMMIT was lost is excepted
  throughout, since a row rolled back may leave its id to another request.
  `ClaimsAreSteps` is the whole refinement, `Safety => ImplementsPool`. It needs
  what a transaction can have done by the time it is committed: before any fault
  a row is taken, or done, only if it was so or a claim of this transaction took it
  (`Clean`), so the COMMIT is one `Take` with changes others are allowed.

**fman get**, for all command lines, servers and pieces of any size; from
`CapacityAssumption`, `ServerAssumption`, `OptionAssumption`, `WordsAssumption`
(the flags are different texts), `IntAssumption`, `EarlierAssumption` and
`NullAssumption`.

* `GetProofs`: `SearchIsInfix`, the offsets bytes_contains compares at are enough
  and not too many; `BuffersAlwaysFit`, `ReceivedInOrder`; and
  `EveryTextOwnedOnce` (`OwnedOnce`), from an invariant that says which objects
  options and plan may point to: the options to texts of parse_hex_bytes, the plan
  to texts of its own, and what is allocated is exactly these and the plan's three.
  `ParsesTheLanguage` (`Parses`): the words before `next` are cut into the options
  taken, and every cut of the whole line begins with these (`CutUpTo`), so an option
  that is refused leaves no legal line; `HexAgrees` and `HexBytes` say the same of
  pairs of digits. `LineMatchesMeans`: the loops of header_contains, each a minimum
  or maximum of places (`Finds`), and the cut of a line into name, colon and value
  (`CutAt`) determine each other, for every line of a text of headers.
  `VerdictsAreTrue` (`VerdictTrue`) puts all of it together. `Lines` says that the
  lines of the headers are those that were sent, all of them unless the transfer
  broke off; `Copied` that an assertion of the plan is that of the option or, where
  malloc failed, has a NULL that no answer meets; `Judged` that there is no verdict
  before the answer and that it stays. What is found in the prefix of a body that
  broke off is found in the whole (`InfixOfPrefix`), hence 0 is never wrong.
  `TransfersLeave` gives these facts, as `Left`, of the answer of this run,
  `EarlierAssumption` of one of an earlier run, and the rest of the argument is about
  either. For the status, `CodeRead` shows that the scans of atoi read a word of digits as its
  number (`Coded` keeps it in the assertion); a status that is met is positive, so it is not
  the 0 of a broken transfer and was sent.

**The lexer**, for texts of every length; from `LexerAssumption`.

* `LexerProofs`: `ParserCanRely` (`FitsParser`), `TokensAreTheText` (`CutsText`)
  and `LexerGetsOn` (`Bounded`). Scans are minima of sets of places; that a
  non-empty set of places has a least one is shown from the library's theorem that
  inclusion of finite sets is well-founded (`LeastExists`). `Lexed` ties the
  position to the last token (`Resumes`), raw mode to its being `BODY`, and the
  number of tokens to the characters taken (`Counted`); `Cuts` says of each token
  what CutsText says, from the scan that found it (`Scanned`).

**The parser**, for files of every length and limits of every size; from
`ParserAssumption`.

* `ParserProofs`: `PlanFits` (`TypeOK`), `TwoTokensHeld` (`TokensOwned`) and
  `NoCopyLost` (`NothingKept`). The copies are those of the plan, and that of a
  header's name while its value is read (`CopiesKnown`). Freeing an old body must
  take away nothing else: every text of the plan is of a token before the current
  one, only bodies are of raw lines, and no two cases have the same (`PlanGood`).
  That nothing is read past the end bounds the file (`TokensGood`).
  `AcceptsTheLanguage` (`Recognizes`) and `PlanIsTheText` (`PlanIsText`) follow a
  text that grows by one token at its end: the sorted sets `DslGrammar` builds
  lines, cases and expectations from grow at their ends too. `PlanInv` says that
  the plan is that of the text so far but for what the statement being read leaves
  open, `LineInv` that all lines before the open one are legal and the open one is
  the beginning of a legal one, `RefusalInv` that what was refused has a token no
  legal line goes on with, or exceeds a limit of the plan. `ParserDescends`:
  every step makes a natural number smaller, six for each token still to come and
  the rank of the label, so no file makes the parser loop.

Only model-checked: all liveness (`Terminates`, `Returns`, `Delivered`,
`ParsingEnds`, the liveness half of `ImplementsChannel`), which with `ENABLED` is
out of the prover's reach; of `Returns` and `ParsingEnds` the measures above are
what can be proved. The value of the digits, a fold (`Decimal`), is evaluated by
TLC only; the model of atoi and `Meets` share it, and the proof needs no more of it
than that.

## Findings

Each is a property the repository's own words state, violated by a behaviour of
the code TLC prints.

| Run | Property | What happens |
|---|---|---|
| `history` | `FreshAnswer` | wait_for_response takes any response of the request row; with a database of an earlier run the first poll returns the old answer before the request is sent |
| `duplicates` | `OwnAnswer` | equal cases share a row of requests, so one is judged by the answer to the other |
| `leaks` | `NothingInUseAtExit` | a failed dispatch frees the task but not the request in it; and a curl_easy_setopt that fails after the headers leaves by the label behind the one that frees the list |
| `curl_error` | `ZeroMeansAnswered` | a failed transfer counts as an answered request: exit code 0 |

What to know besides, which contradicts no text of the repository and which the
models do as the code does:

* wait_for_response does not poll after its last sleep, so an answer that comes in
  the last 100 ms of a timeout is reported as missing.
* main inserts requests on the connection on which the DB worker reads
  `sqlite3_last_insert_rowid` for a response, so `resp->id` may be a request's id;
  nothing reads it.
* db_get_next_pending_request ignores the result of COMMIT; a request may then be
  handed out twice, and an update of its status may hit a later request that got
  its id. A row without url blocks all pending requests behind it. The ROLLBACK of
  a claim takes back what other threads saved since its BEGIN.
* map_row_to_response returns an empty body as NULL, and eval_assertion refuses a
  NULL body, so an empty needle is not found in an empty body, though it is in
  any other.
* `--expect-status` takes any word and passes it to atoi. A word without a number, or
  0, stands for status 0, which is also what a response has whose transfer broke
  off: `fman get` then gives 0 although the server sent no status. Every other part
  of such a command line is still judged as it should be, which is what
  `VerdictTrue` says (`NoneMissed`). `200x` stands for 200.
* `fman get` may judge the answer of an earlier run, as any run on a database that is
  kept (the run `history`): its exit code is true of that answer, which need not be
  what the server says now.

The two leaks are why `faults` leaves `push_request` and `setopt` out: with them
`NothingLeaked` does not hold. `one_worker` has `push_request`, whose other
consequences it checks.

## What is not modelled

* *Printing and logging* (`cli/cli_output.c`, `core/logger.c`, messages of the
  parser): output with no state a property is about. The exit code is `GetCommand`'s
  and `Engine`'s.
* *Collections*: a run creates and saves one before anything else runs; its failure
  is the fault `open`. `fman post` does nothing yet, and the module has it so.
* *`fman run`*: its own code reads the file, calls the parser and run_plan, and
  frees the plan; these are `DslParser` and `Engine`.
* *DB tasks but saving a response*, as tasks: no code of the program queues them.
  The functions behind them are in `PendingClaim`; `DB_TASK_SHUTDOWN` is why
  `Queue` has `Quitters`.
* *SQLite and libcurl* are external: a call is one step with the outcomes the
  code distinguishes.
* *Tests, the benchmark and scripts* were read as statements of intent.

## The plan

The components of the inventory are modelled, except for what is said above to be
left out, and every safety property of the passing runs is proved.
Left is what no tool here decides: liveness for every value of the constants,
of which the measures of `RunDescends` and `ParserDescends` and the guards of
`NoDeadlock` are proved.

## How to run

    tlc -workers 2 -config Queue.cfg Queue
    tlc -workers 2 -config MCRun.cfg MCEngine
    tlc -workers 2 -config DslGrammar.cfg DslGrammar
    tlapm EngineInvariants.tla

and so on for each `run` and proof module `PROJECT.json` names. The proof modules
take some minutes each.
