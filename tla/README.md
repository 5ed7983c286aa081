# Formal model of BiBLE-Atlas

TLA+ specifications of the BiBLE-Atlas server and its clients, checked with TLC
on small instances and, for the properties that matter most, proved with TLAPS
for every instance.

Contents: [1 the system](#1-the-system-and-its-parts) ·
[2 modules](#2-modules) · [3 what is checked](#3-what-is-checked) ·
[4 bounds](#4-bounds-and-why-they-are-enough) ·
[5 fairness](#5-fairness) · [6 what is proved](#6-what-is-proved) ·
[7 disagreements](#7-where-code-and-documentation-disagree) ·
[8 not modelled](#8-what-is-not-modelled-and-why) · [9 plan](#9-plan)

Source paths below leave out `src/bible/` where the part is clear.

## 1. The system and its parts

The server is a FastAPI process (`main.py`), any number of Celery worker nodes
(`features/async_task/worker.py`), Redis (broker and task records), one of
three document databases, a file store and a directory shared by the API and
the workers for uploads.  Clients are a Go command line (`src/bible_cli_go`)
and a VS Code extension (`src/bible_vscode`) that runs the command line.

An import goes through all of it: the API saves the uploads into a session
directory, checks them, creates a task record in Redis and sends a message; a
worker takes the message, chooses a parser script, checks it, runs it in a
sandbox process, stores files, binding and documents, removes the directory and
writes the final status; the client polls the record.  A search reads the
binding, compiles its profile, embeds the query with the bound model and asks
the database.

| Component | State it keeps | Operations | Talks to | Hard behaviour | Correct if |
|---|---|---|---|---|---|
| Task records (`async_task/repository.py`, `redis_repository.py`) | one JSON record per task, 7 days | create, get, update_status | Redis | GET-then-SET by several processes, expiry | a record keeps to what GET-then-SET leaves of its life cycle, a final status is final once no earlier update is under way, "completed" has an execution behind it |
| Task service, dispatch, workers (`service.py`, `dispatch_task.py`, `celery_app.py`) | broker queue, revoked ids, position of each handler | submit, cancel, dispatch | records, broker, executors | late acknowledgement, redelivery, restarts, lost broadcasts, failing calls | no accepted task is lost, a cancelled one does not run, every one settles |
| Import requests and workspaces (`api/upload`, `*_upload_service.py`, `upload_task_executor.py`, `workspace_sweeper.py`) | session directory, shared custom parser | save, validate, submit, execute, persist, clean up, sweep | tasks, sandbox, import storage | directory shared by API, workers and sweeper; parser file replaced under its readers | only checked parsers run, only proven ones are kept, uploads stay while needed and no longer |
| Import storage (`store_memory.py`, `store_skill.py`) | files, binding, content index | store | file store, models, database | several stores without a transaction, concurrent imports of one knowledge base, starting over | binding before documents, paths lead to files, no vectors under a binding without a model |
| Database writers (`infrastructure/database/*/writer.py`) | bindings, content index with its mapping, documents, task documents | create, update, deactivate and look up bindings; bulk upsert; search; task operations | OpenSearch, Elasticsearch, PostgreSQL | exists-then-create, partial bulk failure, merging or replacing writes, read-then-write | the three answer as one interface: created once, counted what was written, vectors where queries find them |
| Database factory and clients | one client per process | get_writer, reset | databases | fork after threads | a child never uses its parent's connections |
| Parser guard and sandbox (`parser_runtime`) | none | validate, run | file system | script read by path at each use | what runs is what was checked |
| Preflight, parsers (`preflight`, `memory_parser`, `skill_parser`) | none | pure functions of the uploads | – | malformed packages, name clashes | each upload is planned once, unsafe ones refused |
| Search (`features/search`) | none | search of memory, skill and knowledge base; query compiler; hit mapper | binding, models, database | binding changes between read and use, several forms of profile read by several readers | a search answers from a binding in force, every profile a parser writes can be searched, the query is one its backend understands |
| Models (`infrastructure/vector`) | model cache per process, download directory | ensure_model_ready, embed, rerank, preload | disk, hub | class lock, file lock, partial downloads, forks | a model is downloaded once, no answer without a model, nobody waits for ever |
| File stores (`infrastructure/file_system`) | stored files | store, open, delete | disk, MinIO, S3 | temporary file and rename, path cleaning | a stored file is whole, two files do not share a path |
| Application life cycle, configuration, common code | singletons | start, stop | all | start-up errors are only logged | – |
| Test Mode server (`test_mode`) | fixtures, tasks in memory | the API answered from fixtures | – | tasks advance when queried | looks like the server |
| Go command line | upload cache file | import with retries, polling | API | lost answers, retries of POST | one upload, one task |
| VS Code extension, task tracker (`src/bible_vscode/src/core/task`) | stored list of tasks | submit, watch, cancel, list | command line | several asynchronous loops over one list, reloads | the list shows what the server's record once said or the user asked for, and goes on watching what it shows as active |
| VS Code extension, the rest | download cache | chat tools, collecting results | command line | – | – |
| Scripts, model puller, mock server | – | deployment | – | – | – |

The hazards of each part, with the line where each bites and the properties
that cover it, are listed in `PROJECT.json`.

## 2. Modules

| Module | Models | Proofs | Instance for TLC |
|---|---|---|---|
| `TaskLifecycle` | abstract: what a client may see of a task record, whose updates are not atomic | | (instantiated by `TaskQueue` and `TaskTracker`) |
| `TaskQueue` | API process, Redis records, broker, nodes, `dispatch_task` | `TaskQueueProofs` | `MCTaskQueue` |
| `ImportTask` | requests, session directories, parser choice, sandbox, custom parser, sweeper | `ImportTaskProofs` | `MCImportTask` |
| `ImportStore` | files, binding, index and documents of one kb_index | `ImportStoreProofs` | `MCImportStore` |
| `DocumentStore` | abstract: what the writers' interface promises | | (instantiated by `DatabaseWriters`) |
| `DatabaseWriters` | the writing operations of the three writers, request by request | `WritersProofs` | `MCDatabaseWriters` |
| `ModelCache` | model files, caches and locks of all processes, preloading, forks | `ModelCacheProofs` | `MCModelCache` |
| `SearchProfile` | profiles, query compiler, translation for a backend, hit mapper, as operators | `SearchProofs` | (through `SearchFlow`) |
| `SearchFlow` | searches of all domains while bindings are written | `SearchProofs` | `MCSearchFlow` |
| `TaskTracker` | the task list of the VS Code extension and its polling loops | `TaskTrackerProofs` | `MCTaskTracker` |

How they meet.  `ExecuteReturns` and `ExecuteRaises` of `TaskQueue` stand for a
whole execution of `ImportTask`, whose `Stores` stands for a whole run of
`ImportStore`, whose writer calls are those of `DatabaseWriters` on OpenSearch,
and whose models come from `ModelCache`.  What crosses these borders is success,
failure or interruption, and each module lets all three happen wherever the
layer below can produce them.  Two borders are checked: `TaskQueue` implements
`TaskLifecycle`, which is all `TaskTracker` knows of the server, and
`DatabaseWriters` implements `DocumentStore`.

### TaskLifecycle

`status` is what a read of a record returns, `held` the statuses the record has
had (history).  An update of the deployed repository checks the edge on the copy
its GET returned, so the edge starts at a status in `held`, not always at the
one the record has: a final status may be overwritten.  What remains of
`_VALID_TRANSITIONS` is that a record is created once, "queued"; that it is never
"queued" again and never back after it expired; and that it is "completed" or
"failed" only after it was "running".

### TaskQueue

*State and code.*  `status` is the record in Redis; `result` and `error` are
written by the same SET and follow it.  `ready` is the broker queue, `revoked`
and `ctl` the memory of each node and the broadcasts on their way.  `api` and
`worker` hold the position of each process in `service.py` or
`dispatch_task.py`, its task and what its last GET returned.  `stored` is a
history variable: the tasks some execution of which returned; `held` is the
history that `TaskLifecycle` has too.

*Grain.*  Each Redis or broker call is one step.  `update_status` is `…Get`
then `…Set` (`redis_repository.py:82-118`), with anything in between.  The
repository is the Redis one, the only one the container builds
(`container.py:31`).  One API process
handles submit and cancel without awaiting inside, so one request is under way
at a time.  Celery itself is external: `Deliver`, `Ack` (late), `Discard`,
`HandleControl`, `LoseControl`, `Crash`, `Redeliver`, `Kill`, as configured in
`celery_app.py:8-30`.

*Faults* are counted by kind against `MaxFaults`: a node that crashes and
restarts, a visibility timeout under a running handler, a killed pool process
(acknowledged, since `task_reject_on_worker_lost` is not set), a call that
raises (its effect there or not), a record that expires.

### ImportTask

*State and code.*  `req` is the position of the request in `import_memory` or
`import_skill` (`memory_upload_api.py:65-123`), `dir` what its session
directory holds, `old` the directories older than `workspace_ttl_hours`,
`doomed` those a sweep has found old and will remove, `message`, `takes` and
`work` the executions, `custom` the shared custom parser, `stored` and `log`
histories of the stored imports and of (script run, script hashed).  Which
scripts the guard refuses (`risky`) is any set of requests, chosen at the start.

*Grain.*  A script is its path: the guard, the sandbox, the digest and the
persist step each read what is there at that moment (`Script(w)`).  Memory and
skill imports take the same steps with the same helpers, so one module stands
for both.  The sweep is a stat (`Inspect`) and later an rmtree (`Sweep`).
SIGTERM runs the `finally` clause but no `except` clause (`Terminated`).

*An assumption about time.*  `Age` lets the time to live (hours) pass for a
directory at any time except during the request that fills it and while the
only execution of the request has written its manifest and not ended: sandbox
and task timeouts are minutes.  A redelivered request is not protected.

### ImportStore

*State and code.*  `binding` is the binding document, `index` the content index
with the dimension of its vector mapping, `docs` its documents (whose text,
whose file path, a vector by which model), `files` the imports whose files
are stored, `exec` the position of each execution in `StoreMemory.store` or
`StoreSkill.store` with the binding it read.  `domain`, memory or skill, is
chosen at the start and decides what an import does with a binding that exists:
memory fills in a missing model, skill patches every field that differs from
what it read.

*Grain.*  One call of the writer or the file gateway is one step; a bulk request
applies its documents one by one and merges (`doc_as_upsert`).  A parser
script and the profile it declares stand as one `profile`, since they are
always written together.  `Interrupt` is a failing call, the soft time limit or
a crash, its effect there or not, followed by failure or by a new start.  A
redelivery after an execution has ended is not modelled here: as to the stores
it is one more import with the same content.  The writer is the OpenSearch one,
the default.  A vector is kept as the model it was asked of.  That model decides
its dimension, also when the encode failed and the answer is a zero vector
(`vector_tool.py:201-214`); so the module can say by which model a document was
indexed and in which dimension, and not that the vector means its text.

### DocumentStore and DatabaseWriters

`DocumentStore` says what a caller of `IDatabaseWriter` may rely on: a binding
is created once and then only patched or deactivated, documents are written by
a call as a whole or merged one by one, a task record is created once and then
patched.  `merges` separates the families: a search engine patches what is
stored, PostgreSQL puts back a patched *earlier* version (`versions` is the
history of the record).

`DatabaseWriters` has the operations of the three writers: a *call* is made once
by one caller and is a sequence of requests (`FirstStep` and the actions after
it), and any number of calls run at the same time.  `backend` is `"elastic"`
for Elasticsearch and OpenSearch, whose writers send the same requests in these
operations, or `"postgres"` with the constraints of its schema.  `before[k]`,
the calls that had ended when `k` was made, is a history.

*Grain and faults.*  One request is one step; of a bulk request of a search
engine each document, of PostgreSQL each chunk (a transaction).  A search engine
may refuse a document that fits, alone (409, 429), and the update of a task
whose version has changed (conflict, answered false).  `Raise` is a
request that fails without effect, `Return` also one whose answer is lost;
`ApplyDoc` and `SendChunk` may count a document as failed that was written.  A
request that was given up and takes effect later is not modelled.

What differs between the writers and is kept: `Taken` (primary key, and in
PostgreSQL the unique index on the tag of active bindings), `CanUnbind`, the
answer to a patch of a binding that is not there and to an empty patch, replacing instead of merging,
the read-then-write of task updates.  `upgrade_binding_vector_model` exists in
`OpenSearchWriter` only and is in `ImportStore`.  `deactivate_binding` and the
task operations are called by nothing in the repository; they are modelled as
the interface states them.

### ModelCache

*State and code.*  `disk[m]` is the set of files of a model in the hub cache,
`cached[p]` the keys of `_model_cache` in a process, `fileLock` the `fcntl`
lock of each model, `cacheLock` the class lock of each tool in each process,
`thread` the position of a thread in `embed_*`, `rerank` or
`preload_all_models`.  `installed` says whether sentence-transformers can be
imported; without it `None` is cached and every answer is zeros.

*Grain.*  A look at the cache under the class lock is one step that needs the
lock free; loading takes the lock at one step and gives it back at another, with
one step per fetched file in between, so other threads wait where they do in
the code.  `LocalPath` is the test of `get_local_model_path`, which does not
ask for the tokenizer; `Open` raises when a file is missing.

*Faults.*  A process dies anywhere (its locks are released by the system, its
files stay, the processes forked from it go with it), or a load raises.  The hub
library is external.

### SearchProfile and SearchFlow

`SearchProfile` holds pure functions on dictionaries (functions from keys): the
profiles the two pre-registered parsers write, what of them is stored
(`ForBinding`), the adaptation by the skill searcher, `Compile` for the five
search types in the wrapped, grouped and flat form, the last translation by each
database writer, and the hit mapper.  No definition is recursive.

`SearchFlow` has the requests: `Accept` (the handlers' checks), the lookup of the
binding by kb_index or by tag, embedding, compilation, query and answer with
its status code.  A lookup that raises `DatabaseError` ends in 500, one that
finds nothing in 404 (`errors.py:94-124`).  `binding` is what is stored, `visible` what the last refresh
made visible: a search engine's lookup by kb_index is a GET of the document, its
lookup by tag a search of the refreshed ones; PostgreSQL has one view.  `since`
collects the bindings a lookup could have seen since the request was accepted
(history).  The handlers are `async def` but call the service synchronously, so
a server process carries out one search at a time.

Kept as the code has it: skill adaptation drops `enabled`; the memory and
knowledge-base services overlook the `default_vector_weight` of a grouped
profile; `PostgresWriter` has no `search_content_docs`, so the search ends in an
unhandled error; a failing encode yields the zero vector `Zero`; of several
bindings of a tag OpenSearch returns the one created last, PostgreSQL the one
updated last, Elasticsearch any.

### TaskTracker

*State and code.*  `list` is what `GlobalStateTaskStore` holds, `loop[w]` a call
of `submit()` or `watch()` with its `pollUntilTerminal`, `cancels` the calls of
`cancel()` under way, made in the notification of a loop or by the status
command, `offered` the tasks its quick pick shows, `calledOff` a history.
`server` is the record at the server and moves as `TaskLifecycle` allows, at any
time: it may expire, and its final status may be overwritten.

*Grain.*  What runs between two awaits of the event loop is one step; each call
of the command line is a step in which the server answers and another in which
the answer is handled, with cancels and other loops in between.  The status
command shows the active tasks at one step (`ShowStatus`) and cancels the one
picked at another (`Pick`), when the list may have moved on.  A call can come
back with an error or `UNAVAILABLE` whatever the server does.  `Reload` drops
all loops and keeps the list, of which `gc()` may drop old final records.

## 3. What is checked

Passing runs:

| Run | Question | Properties |
|---|---|---|
| `queue_faults` | whatever fault strikes once, and whatever the GET-then-SET updates overwrite: which promises about the record of a task that may be cancelled are left? | `TypeOK`, `CompletedIsStored`, `Lifecycle` (refinement of `TaskLifecycle`), `CancelHolds`, `SettledStays` |
| `queue_restarts` | does a restart or a redelivery lose a task nobody cancels, change its final status or keep it from one? | `NothingLost`, `FinalUnlessRaced`, `Settles` (liveness) |
| `store_imports` | three racing, failing and repeated imports of either domain into one kb_index | `TypeOK`, `BoundBeforeIndexed`, `FilesBehindDocs`, `CreatorBinds`, `VectorsBound` |
| `task_parsers` | three imports, two with scripts of their own, any of them refused by the guard, on two processes with sweeps at any time | `TypeOK`, `OnlyProven`, `RunsOnlyValidated`, `UploadsStay`, `RecordedUnlessReplaced` |
| `task_sweep` | does any failure leave a session directory for ever, with failed workspaces kept? | `NoLeak` (liveness) |
| `model_cache` | requests of the server and a worker node that preloads and forks: who downloads, who waits, who answers without a model? | `TypeOK`, `DownloadedOnce`, `Served`, `ForkedWarm`, `Answered` (liveness) |
| `writers` | three concurrent calls of any kind to each family of databases: do they keep the interface's promise, and are their answers true? | `TypeOK`, `AnsweredOnce`, `VectorsFit`, `CountedIsWritten`, `ClaimsOverlap`, `Promised` (refinement of `DocumentStore`) |
| `search` | every type of search on every backend with bindings of several forms, written meanwhile | `TypeOK`, `UploadedSearchable`, `QueryFits`, `WeightDeclared`, `ReadInForce` |
| `task_tracker` | two loops, cancels from every place, failing calls, a record lost or overwritten and a reload: is the list of the extension true, and does every loop end? | `TypeOK`, `ListFounded`, `ActiveIsWatched`, `ListForward`, `WatchEnds` (liveness) |

Runs that show a disagreement between code and documentation, one property
each (section 7): `queue_redis_race`, `queue_terminate`, `store_other_model`.

Each property of a passing run has a mutant: a definition of the model changed
the way a bug would change the code (a dropped guard, a lock other processes do
not see, an update that forgets the other fields, a cutoff compared the wrong
way round), defined next to the definition it replaces, under which TLC finds
the property violated.

Some of what the properties say needs care:

- `CompletedIsStored` says nothing about the converse: an import may be stored
  and its record say failed or cancelled (`CallRaises`, a stale SET).
- `CancelHolds` starts where a task is called off for good: the record says
  cancelled and no handler is past the guard.  A cancel that falls between the
  guard and the update to running (`dispatch_task.py:43-48`) does not stop the
  handler; its outcome is even refused or ignored by the updates.
- `SettledStays` says what is left of "a final status is final": it starts where
  no update is under way that read the record before.  An update that did may
  still overwrite it, which is the trace of `queue_redis_race`.
- `NothingLost` and `FinalUnlessRaced` name the faults under which they would
  fail, and hold for any number of the others.  Both are about tasks nobody
  cancels.
- `VectorsBound` is about memory, and says that a model is bound before anything
  is indexed with vectors.  That it is the model of every vector is
  `OneVectorModel`, which does not hold (section 7).  A re-import without a model
  replaces the text of a document and leaves its older vector.
- `ReadInForce` is about lookups that were answered.  One that raises is a 500,
  whatever is bound.
- `CreatorBinds` is about first imports.  A later memory import whose profile
  differs is stored under the profile that is bound.
- `RecordedUnlessReplaced`: the digest is read after the run.  It is that of the
  script that ran unless this was the custom parser and another import replaced
  it in between.
- `ClaimsOverlap` is about search engines: in PostgreSQL a patch computed from an
  earlier version can put a claimed task back to pending.
- `CountedIsWritten` speaks of the text of the documents; a document counted as
  written may have been written by a concurrent call since.
- `UploadedSearchable` excludes the hybrid search of memory, which answers 422
  with the pre-registered profile (section 7).  `WeightDeclared` excludes the
  grouped form for memory and knowledge bases, whose services overlook it.
- `ListFounded` relates the list to what the server's record has been at some
  time.  The record may say something else by now, since its final status may
  be overwritten.
- `ActiveIsWatched` excludes what the user cancelled and what a reload left:
  the code does not watch it (section 7).  `ListForward` is about a task with one
  loop that nobody cancels; with two loops a late answer of one overwrites what
  the other has stored.

## 4. Bounds and why they are enough

| Run | Instance | Why |
|---|---|---|
| `queue_faults` | 1 task, 2 nodes of 1 process, each fault once | records of different tasks do not interact except through `api`, which one request holds at a time; two processes are needed for a message handled twice, one fault of each kind for every pair of faults |
| `queue_restarts` | 2 tasks, one cancellable, 1 node of 2 processes, 1 crash, 1 redelivery | the second task competes for processes and keeps the API busy, as liveness needs; two processes of one node crash together |
| `store_imports` | 3 imports of overlapping documents, 2 processes, 2 models of different dimensions and one import without a model, 2 profiles, 1 fault | two imports race while the third comes before or after them; a model may be filled in later; profiles repeat so that a patch can restore a setting |
| `task_parsers` | 3 requests (one with an uploaded script, one with an inline one, one without), 2 processes, no fault | one import replaces the custom parser while another uses it; faults are left to the proofs, which cover all five properties for any number of them |
| `task_sweep` | 2 requests, 1 process, 1 fault, failed workspaces kept | a directory is left by each way of failing, next to one in use |
| `model_cache` | an embedding and a rerank model; the server with two requests; a worker node that preloads one model and forks a pool process; 1 permit, 1 fault | three processes compete for the disk, two threads for the locks of one process and class; a model is asked for that the node has not preloaded |
| `writers` | 3 calls, 2 kb_indexes, 2 documents, 2 dimensions, chunks of 2, 1 fault; lists with a missing id, a repeated id, two dimensions, without vectors | two calls race and a third sees what they left; the third element of a list falls into a second chunk |
| `search` | 1 server process, 2 kb_indexes, 2 models, 2 writes of bindings, all domains, backends and search types; profiles of the parsers and of custom ones in each form | searches of different processes share nothing but bindings, which the writes change at any time; two bindings of a tag make the lookup choose |
| `task_tracker` | 1 task, 2 loops of one poll each, 1 cancel under way at a time, 1 reload | records of different tasks are independent in the list of one window; two loops is what a submit and a watch of one task make, and the poll of one can come back after anything the other has caused; more polls, loops and cancels are left to the proofs of the three safety properties |

`writers` uses symmetry in the calls, which are interchangeable (no liveness is
checked there); no other run does.  No state constraint or view is used.
`CHECK_DEADLOCK FALSE` stands where the system comes to rest: tasks and imports
have ended, each call of a writer or model was made, loops have ended.
`search` checks deadlock.  What these instances might be too small for is what
section 6 proves without them.

The bounds in the modules are `MaxFaults` (how often faults strike), `MaxWrites`
(writes of bindings in `SearchFlow`), `MaxRounds` (the polls that fit into
`taskMaxWaitMs`, a limit the code has), `MaxReloads` and `MaxCancels` (calls of
`cancel()` for one task under way at a time).

## 5. Fairness

- *`TaskQueue`* (`FairSpec`): the event loop finishes a request it began; some
  free process takes a message that can be taken; each pool process goes on,
  because an execution ends by itself, by the timeout of the sandbox or by the
  soft time limit.  Clients, faults and control broadcasts are not fair.
- *`ImportTask`* (`FairSpec`): the API finishes its requests, the pool takes
  messages and finishes what it took, time passes for directories, and the
  sweeper thread wakes up every `sweep_interval_seconds` and handles every
  expired directory.  This is the configuration with `workspace_ttl_hours > 0`;
  with 0 no sweeper is started and `NoLeak` is not claimed.
- *`ModelCache`* (`FairSpec`): each thread goes on when it can; a load ends
  because the hub client times out.  Processes start and die as they like.
- *`TaskTracker`* (`FairSpec`): timers fire and a call of the command line ends,
  by its time-out at the latest.  Neither the user nor the server is fair, and
  no answer needs to be a good one.
- All of it is weak fairness: no step here is enabled and disabled again for
  ever by others.  Faults are finite in number, as bounded by `MaxFaults`.

## 6. What is proved

For any values of the constants (any sets of tasks, workers, imports, documents,
models, processes, threads, calls, requests, loops; any number of faults) and,
where a theorem does not say otherwise, both import domains and every backend.  The assumptions are those named in the modules
(`ConstantsOK`, `SearchConstants`): the constants have the types their comments
say, and the value that stands for nothing is none of the others (`None` is no
vector, no lock holder and no weight); in `SearchFlow` also that the fields of a
hit have non-empty paths, as JSON fields do.  TLC evaluates them in every run.

`TaskQueueProofs`

- `TypeCorrect`: `TypeOK` is inductive.
- `CompletedStored` (`CompletedIsStored`): inductive together with "a handler
  about to write completed has its task in `stored`", which `Redeliver` and
  `Crash` cannot undo.
- `KeepsLifecycle` (`Lifecycle`): initial states map to initial states and every
  step to a `Create`, `Update` or `Expire` of `TaskLifecycle` or to a stutter.
  What a stale SET writes is allowed by `CopyInv`: a copy some process is about to
  update is a status the record has had, and the record has not gone since,
  because it expires only while nobody works on its task.
- `CancelIsKept` (`CancelHolds`): an action property; each step preserves
  `CalledOff(t)`, given `ApiInv`: a request at work is about a record that exists, so no
  write of the API brings back an expired one.
- `SettledIsFinal` (`SettledStays`): each step preserves `Settled(t)`; every GET
  that follows returns a final status or none, from which no edge leads on.
- `AcksLateLosesNothing` (`NothingLost`): the inductive invariant `QueueInv`
  says, of a task nobody cancels, who is going to settle its record.
- `OneHandler` (proved only): the part `OnePlace` of `QueueInv`.  Unless the
  visibility timeout passes, the one message of a task is about to be published,
  with the broker or with one handler, whatever crashes, is killed or raises.
- `OneWriterKeepsEdges` (proved only): while nothing is redelivered and no call
  raises, the record of a task nobody cancels keeps to `_VALID_TRANSITIONS`
  although an update is a GET and a SET.  It rests on `OneWriterInv`: the copy a
  handler is about to update is the record.  `OneWriterIsFinal`
  (`FinalUnlessRaced`) follows: a final status has no edge.

`ImportStoreProofs`

- `TypeCorrect`: `TypeInv` adds that an execution at an index step has a model
  and that an execution past the binding step implies a binding exists.
- `BoundFirst`, `FilesFirst`, `CreatorIsBound`, `VectorsAreBound`: one
  invariant, `Inv`.  It adds that the paths an execution may write are of stored
  files (`FilesInv`) and that an update was chosen on a binding that was read
  (`SeenInv`), and that a memory execution past its binding step that has a model
  finds one in the binding (`VectorsInv`): nothing takes a bound model away.
- `ProfileIsKept`: the profile of a memory binding never changes once it is
  there, whoever upgrades its model (`ProfileKept`, proved only).
- `OneModelIfAgreed` (`OneVectorModel`): the run `store_other_model` refutes
  `OneVectorModel`; under `ModelsAgree` (the imports that name a model name the
  same one) it is a theorem, so nothing else breaks it.  `ModelInv` adds that the
  bound model is that of an import and is never unset, that an update was chosen
  to fill it in, and that an import with a model finds its own in the binding.
- `WritesAsPromised` (proved only): `ImportStore` implements `DocumentStore`
  under the mapping `AsWritten`, so what imports do to the store is no more than
  what the writers are shown to keep (`KeepsPromise`).  A binding is mapped to its
  settings; an interrupted call to the call or to a stutter.
- The lemma `StepShape` says in one formula what any step of an import may do
  to the shared state, so the invariants are proved against it and not against
  thirteen actions each.

`ImportTaskProofs`

- `TypeCorrect`, `CustomIsProven` (`OnlyProven`), `RunIsValidated`
  (`RunsOnlyValidated`), `DigestIsOfScript` (`RecordedUnlessReplaced`): an
  invariant that says of each execution at each step which script it selected
  and what the guard has excluded.  That the path of the *custom* parser is read
  twice does no harm because every script that can appear there has passed the
  guard (`OnlyProven`), which is why these are proved together.
- `UploadsAreKept` (`UploadsStay`): a second invariant on top: a request taken
  once is executed by one process at a time, its directory is neither old
  nor doomed by a sweep from the manifest on (`Kept`).

`ModelCacheProofs`

- `OneDownload` (`DownloadedOnce`) and `ServedFromCache` (`Served`) from
  `SafeInv`: a thread between `Flock` and `Release` holds the lock of its model
  (`HeldInv`, which gives mutual exclusion of downloads); who is about to
  download knows that no download was completed, because a model that is whole on
  disk passes `LocalPath` (`OnceInv`); a thread about to release without an
  exception has the model in its cache (`ServedInv`).
- `PoolIsWarm` (`ForkedWarm`) from `WarmInv`: what holds while nothing has failed
  (`FaultFree`) is that a process that was not started has done nothing, that a
  model is on disk whole or not at all outside a download, that what the
  preloader asked for is in its cache (`Kept`), and that a forked process has
  all of it (`Inherited`).
- `NoCircularWait` (proved only): a held lock belongs to a thread at work with
  it (`LockInv`), so a thread that waits for a file lock waits for one that
  waits, if at all, for a class lock, whose holder waits for nobody.
- `CallsAreBounded` (proved only): every step of a call lowers its `Rank` or
  fetches one more file, and no step of another thread undoes it.

`WritersProofs`

- `TypeCorrect` with `TInv`, which ties each position of a call to the kind of
  its request.  The lemma of the shape of a step says what a call may do to the
  other calls.
- `OneAnswer` (`AnsweredOnce`) from `BInv`: a call that was told "created" has
  its binding there ever after, one that was told it deactivated has left it
  inactive.  In PostgreSQL no tag has two active bindings (`OneActivePerTag`,
  proved only: the unique index is in the guard of `Bind`).
- `VectorsSearchable` (`VectorsFit`) from `VInv`: a call that reached the bulk
  request with vectors has found or made a vector field; while nobody has,
  no document has a vector.
- `ClaimedInTurn` (`ClaimsOverlap`): `Early` (what is in `before` has ended),
  `ClaimedRuns` and `LateClaimFails`: once a claim was answered the task is
  running, so one made later fails its check.
- `CountedWrites` (`CountedIsWritten`) from `WInv`: what a call has still to
  send is a sequel of its list, and each document it has sent and not counted
  has its text or that of a call not in `before`.
- `KeepsPromise` (`Promised`): every step of a writer is one of `DocumentStore`
  or a stutter, given that a copy of the task is one of its versions (`Copied`).
- `BindingsStay` (proved only): what follows from `DocumentStore` alone for every
  backend: bindings are not removed and not reactivated, a merging store keeps
  vectors.

`SearchProofs`

- `AnsweredInForce` (`ReadInForce`) from `TypeOK` and `Tracked`: `since` holds
  what the lookup of a pending search would see now.
- `QueriesFit` (`QueryFits`): the last translation puts any compiled query into
  the language of its search engine, whatever profile and request it is made of.
  This and the next three theorems rest on `Staged`: the profile, query or items a search
  holds at each step are those its lookup, request and hits give.
- `ItemsAsListed` (proved only): lemmas on the two hit mappers say which fields
  they put into an item, whatever the hit and the list.
- `DeclaredWeights` (`WeightDeclared`): the weight is followed from the profile,
  in each form the compiler takes, through adaptation (`AdaptedHybrid`) and
  compilation to the arms of the hybrid query and the backend's translation.
- `UploadsSearchable` (`UploadedSearchable`): the two pre-registered profiles are
  evaluated step by step through import, adaptation and compiler, so the theorem
  holds of them for any request, binding history and server.
- `FormsAgree`: a section compiles to the same query in the wrapped and in the
  grouped form of a profile (proved only).

`TaskTrackerProofs`

- `TypeCorrect` with `Tied`: a loop that does something has a task.
- `ListIsFounded` (`ListFounded`) from `KnownInv`: what the extension was told
  (`Vouched`), is listed, or is on its way in an answer is a status the server's
  record has had (`held`), or a cancel of this user, and both only grow.
- `ActiveWatched` (`ActiveIsWatched`) from `WatchInv`: the loop that watches a
  listed active task still takes it for active, so it goes on.
- `ForwardOnly` (`ListForward`) from `ForwardInv`: with one loop the stored
  record is what that loop knows.
- `WaitIsBounded` (proved only): each turn of a polling loop lowers `Left`, and
  nothing raises it, so a loop has at most `3 * MaxRounds + 3` turns.

Every invariant and action property of the runs that pass is stated by a theorem.
Only model-checked are the liveness properties (`Settles`, `NoLeak`, `Answered`,
`WatchEnds`), since the proof system has no support for fairness and ENABLED
here.  What of them is safety is proved: no record without somebody to settle it
(`AcksLateLosesNothing`), no circular wait and no endless call (`NoCircularWait`,
`CallsAreBounded`), no endless polling (`WaitIsBounded`); that the next step is
then always possible and taken is what TLC checks.  A theorem marked "proved
only" states the property of no run.
None of the modules declares a recursive operator, and none of the theorems
needs an induction over data.

## 7. Where code and documentation disagree

| Run | The text says | The code does |
|---|---|---|
| `queue_redis_race` | updates are a Lua script executed atomically (`redis_repository.py:51-52`) | GET, check, SET: a cancelled record can become running again, a running one be overwritten |
| `queue_terminate` | a running task that is cancelled "will transition to failed via the worker" (`service.py:66`) | SIGTERM unwinds `dispatch_task` past its except clauses; the record stays running until it expires |
| `store_other_model` | the vector model is bound to the index (API document, design 03) | a memory import with another model is vectorized with that one, under the old binding |

The quotations are in `PROJECT.json`.  Disagreements met while modelling that
have no run of their own; the models follow the code:

- *Skill re-imports.*  Binding and documents are written separately, so of two
  concurrent re-imports each may win one of them, although the binding is said to
  stay "consistent with the index" (`store_skill.py:356-379`).
- *Digest.*  Design 03 wants the digest of the script that was executed; the path
  is read again after the run (`RecordedUnlessReplaced` says what holds).
- *Hybrid search of memory.*  The pre-registered memory profile has no
  `vector_field` in its hybrid section (`memory_parser/search_profile_builder.py:46`)
  although the searcher needs one (`search_memory.py:28-33`).
- *Partial download.*  A snapshot without its tokenizer passes for complete
  (`_model_utils.py:61-64`); opening it raises from then on.
- *Task documents of the writers.*  `update_async_task` checks the expected
  statuses on a copy and updates without a condition, where the design
  (`docs/designs/server_part/v4/07_Celery通用异步任务机制设计与实现.md:334,339`)
  has a conditional update.  PostgreSQL writes back the whole copied payload,
  where `database_implementation.md:304` says both backends behave alike.
- *VS Code.*  The extension's design (`03-vscode-extension-framework-v4.md`, 5.2)
  has activation resume watching unfinished tasks; nothing calls `watch()`.  The
  comment at `task-tracker.ts:13` says the promise resolves on a final status and
  rejects on a cancel; after the longest wait it resolves with a record that is
  not final, on a cancel with "cancelled".  A cancel while the notification of a
  completed task is open, or one whose call fails, marks the task cancelled.

## 8. What is not modelled and why

- *Inside the modelled parts*: what a parser computes, what the guard accepts,
  the text of errors and logs, time stamps and the list queries of the records
  (no caller).  File names within a directory: two uploads of the same name
  overwrite each other (`api/upload/_utils.py:53`); no other step reads the names.
  Request validation of a search beyond type, top_k and tag.  Requests to a
  database that take effect after they were given up.
- *Parsers and preflight*: pure functions of uploads with much wording and little
  state; `ImportTask` has their verdict, `SearchProfile` the profiles they build.
- *File stores*: `ImportStore` takes `store()` as one call that saves a file or
  raises; the temporary file, the rename and the cleaning of names are inside it.
- *Database factory and clients*: one object per process, made under one lock and
  dropped after a fork.
- *VS Code*: two windows that share one list, `TaskStore.remove` (no caller), the
  download cache and the chat tools.
- *Go command line and Test Mode server*: see the plan.
- *Configuration, life cycle, logging, deployment scripts, mock server, model
  puller*: no behaviour over time of the system, or wiring of the above.

## 9. Plan

Done, in this order: `TaskLifecycle` and `TaskQueue`; `ImportStore`;
`ImportTask`; `ModelCache`; `SearchProfile` and `SearchFlow`; `DocumentStore` and
`DatabaseWriters`; `TaskTracker`; the proofs of each.

What is left, in order of importance:

1. `CliUpload`: retries of the Go client and its cache, composed with task
   creation.  Property: an upload that was confirmed has one task.
2. `FileStore`: temporary file and rename, and the cleaning of names against two
   files that meet in one path.
3. `Parsers` and `Preflight`: storage plans and package rules as operators over
   small inputs, checked against reference definitions.
4. `TestMode`: the tasks of the Test Mode server against `TaskLifecycle`.
5. Two windows of the extension over one `globalState`.
