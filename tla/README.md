# Verification of sample-data-faker

TLA+ specifications of the synthetic-data service in this repository, the TLC
runs that model-check them and TLAPS proofs about them. The package is
`src/src/`; file names below are relative to it unless they begin with
`tests/` or `README`.

## 1. Inventory

The service takes a description of a table (a Trino table, an Avro file, JSON
rows), fits a synthesizer on its rows in a worker thread, samples synthetic
rows and returns them or sends them to OpenMetadata, S3 or Iceberg.

| Component | State | Operations | Interacts with | Module |
|---|---|---|---|---|
| Generation worker, `core/synthetic_worker.py` | `_pending_count` under `_condition`; an executor's queue, threads and futures | `submit`, `_on_complete`, `_generate_with_cleanup`, `shutdown`, counters | called by every route on the event loop; runs sources and the pipeline on its threads | `SyntheticWorker`, `GenerationSlots` |
| Iceberg destination, `destinations/iceberg.py` | a table in a shared catalog; per call: the loaded table, `created_new_table` | `submit` = `_submit_sync` on a thread | DTO route; catalog and storage | `IcebergUpload`, `PublishedTable` |
| S3 destination, `destinations/s3.py` | an object in a bucket | `submit`: `head_bucket`, `put_object` | DTO route | `DtoEndpoint` |
| DTO endpoint, `app/api/v1/dto.py` | per request: the status of each upload | `generate_from_avro` | worker, S3, Iceberg | `DtoEndpoint`, `ServiceLoop` |
| Table and OpenMetadata endpoints, `app/api/v1/table.py`, `openmetadata.py` | per request: progress of the handler | `generate_synthetic` (two), `webhook` | worker, OpenMetadata client and destination | `ServiceLoop` |
| Event loop, probes, lifespan, `app/main.py`, `lifespan.py`, `deps.py` | the handler that holds the loop, the worker of the application | `/health`, `/readiness`, start and stop | everything | `ServiceLoop` |
| Exception handlers, `app/exception_handlers/` | none | exception to status, category and message | endpoints | `ServiceLoop` (statuses) |
| OpenMetadata destination and client, `destinations/openmetadata.py`, `openmetadata/client.py` | an HTTP client | sample data of a table, look-ups | OpenMetadata routes | outcomes in `ServiceLoop` |
| Webhook models, `openmetadata/models/` | none | `is_schema_change`, `get_target_column_name` | webhook route | `WebhookSchemaChange` |
| Singleton, `core/singleton.py`; gauges, `metrics/collector.py` | one instance per class and process; names registered in the process | construction | worker, start of the application | `ServiceLoop` |
| Flattener, `core/flatten.py` | the schema of the columns it flattened | `flatten`, `unflatten` | pipeline | `Flatten`, `Cells` |
| SDV pipeline, `core/sdv_pipeline.py`, `dataframe_wrapper.py` | synthesizer, metadata, input type and schema | `flatten`, `fit`, `sample`, `unflatten` in this order | worker threads | `SDVPipeline` |
| Avro conversion and field ids, `sources/avro_ocf/helpers/` | none; a counter of ids | types and values to Arrow; ids of fields | Avro source | `AvroToArrow`, `AvroCells`, `ListArrays`, `AvroFieldIds` |
| Sources, `sources/` | title and namespace after `load_dataframe()` | `load_dataframe` | worker threads | `Sources` |
| Settings, secrets, values of metrics, logging | read once, or written and never read back | — | — | not modelled |

### What is hard in this code

* **Worker.** A slot is reserved in one critical section, the task is handed to
  the executor outside it, and the slot comes back in a callback that runs on
  the executor's thread, on the thread that cancels, on the one that shuts down
  or, if the future was done first, on the caller's. Timeouts race
  notifications, and `shutdown()` races all of them. It is correct when the
  count is exact, work stays within `max_pending`, no waiter is forgotten, a
  call is refused only while every slot is taken, and every slot comes back.
* **Event loop.** `submit()` blocks the loop's only thread for up to five
  seconds. It is correct when the loop always comes back, readiness means what
  it says, a request is answered exactly when its work is settled, and a worker
  that was shut down is never asked again, though the process has no other.
* **Iceberg.** Load, create, stage, commit, drop and refresh are separate calls
  on a table that other uploads create, overwrite and drop by name. Any call
  may fail, and a commit may succeed without its answer. It is correct when
  readers see one upload's rows, rows fit columns, clean-up removes what this
  upload made and nothing else, and success means committed.
* **DTO.** Two stores are written one after the other without a transaction.
  It is correct when answers tell the truth about both stores, no write comes
  after the answer, and the stores agree when requests do not overlap.
* **Pipeline.** Nested columns are flattened, a synthesizer mixes the cells of
  different rows, and the mix is put together again. It is correct when nothing
  gets lost on the way and the outcome has the shape of the source.
* **Pure algorithms** (Avro types, field ids, schema change): names that
  collide, values at the limits of a type, shapes that are not recognised.

## 2. Modules

```
GenerationSlots   <- implemented by -  SyntheticWorker  <- SyntheticWorkerProofs
      |  INSTANCE                            ^- MCSyntheticWorker
      v
ServiceLoop  <- MCServiceLoop, ServiceLoopProofs
      ^ EXTENDS
WebhookSchemaChange

PublishedTable    <- implemented by -  IcebergUpload    <- IcebergUploadProofs
| INSTANCE ^- MCIcebergUpload  ^                                              v
| INSTANCE                                        DtoEndpoint      <-
DtoEndpointProofs

Cells  <-  Flatten, AvroCells, ListArrays
Flatten, AvroCells, ListArrays, AvroFieldIds
                         <- AvroToArrow  <- Sources  <- SDVPipeline  <- MCSDVPipeline
                                 ^                           ^
Flatten <- FlattenProofs         |                           |
                ^        AvroCellProofs              SDVPipelineProofs
                |                ^                           | EXTENDS
                +----------------+---------------------------+
                                 `- both use NatRecursion
```

Operators commented *Seeded fault* are wrong versions of the operator that
follows them. No specification uses them; they document which mistake each
property rules out (see "mutants" in `PROJECT.json`).

**GenerationSlots** is what the worker promises its callers, in terms of sets:
a call acquires a slot or is refused, refused only while `Capacity` slots are
taken; a slot comes back once; it may be lost only after `shutdown()` began.

**SyntheticWorker** is the code. `pending` is `_pending_count`; `call` is the
program counter of each `submit()`, `fut` and `callback` the state of its
future and of `_on_complete`; `queue` and `serving` are the executor's;
`inHand` is the item a draining shutdown has just cancelled. A critical section
of `_condition` is one step, because it never blocks except in `wait_for`,
which releases the lock. `Acquire`, `Block`, `GiveUp` are the outcomes of
`wait_for` with its predicate; `Enqueue`/`EnqueueFails` the call
`executor.submit()`; `AddDoneCallback`/`AddDoneCallbackLate` the two ways
`add_done_callback()` goes; `OnComplete` the callback, which is part of every
step that runs it. `ShutdownWait`/`ThreadsJoined` and
`ShutdownNoWait`/`Drain...` are the two modes of `shutdown()`. The executor's
threads, `Future.cancel` and draining are library code, modelled from how the
class uses them: a future is finished before its callbacks run; draining holds
the executor's lock and cancels items one at a time; cancelling sets the state
first and runs the callbacks after.

**IcebergUpload** is `_submit_sync`: one action per catalog call and one for
each failure with the handler it leads to. A table is told from a later one of
the same name by its `owner`, a snapshot by its committer; `cols` stands for
the schema, `rows` for whose data readers see. A commit is refused when the
table or its head is not the one the transaction was opened on. `Flaky` lets
every call fail of itself, a commit or the creation of the table take effect and
raise (`CommitAnswerLost`, `CreateAnswerLost`), and `drop_table()` fail
(`CleanUpFails`). A creation that raises leaves `created_new_table` unset
whether or not there is a table now, so that nothing is dropped
(`"unanswered"`).

**PublishedTable** is what `IcebergDestination` promises, in three variables:
who made the table that readers find, whose data they see in it, and the outcome
of each upload. An upload shows all of its data in one step, at most once and
before its outcome is known; success is told of shown data only; a table goes
away only with the failure of the upload that made it; and an upload may fail
with an empty table made (`FailCreating`). The refinement mapping
takes the outcome from the progress of the call and from `log`, the commits in
their order: an upload is `published` from its commit on, though its caller
knows nothing yet and may never hear of it.

**ServiceLoop** is the event loop with the routes, readiness and the lifespan.
`loop` is the handler that is inside `submit()`; all handler steps need a free
loop, the worker's threads do not. The worker is `GenerationSlots`, which
`SyntheticWorker` implements. A request's `kind` is its route, `body` what was
sent to the webhook. `phase` is the application's: `Shutdown` closes the worker,
a second `Start` in the process gets the same worker (`core/singleton.py`) and
fails at the gauges, which the process has already registered (`gauges`).
`Unconfigured` answers where no client or no Trino is configured. `/health` has
no guard, reads no state and is left out.

**WebhookSchemaChange** gives each field of a change the class that pydantic
gives it and says whether the change is one of the table's definition. Names
and values are told apart by what the patterns and `parse_column_value` tell
apart. It is a function of one event: `ServiceLoop` uses it to decide which
webhook requests generate, and no property is stated of it by itself.

**DtoEndpoint** is the DTO route after generation: S3, then Iceberg, then the
answer. Its Iceberg half is `IcebergUpload` with requests for uploads, under
the route's guard. All requests carry the same title and so meet at the same
object and table; requests with different titles do not interact here.
`puts` records S3's writes in order and `overlapped` whether two requests ever
delivered at the same time; the handler reads neither.

**Flatten** is `DataFrameFlattener` as operators: the inference of a schema from
cells (`InferPandas`) or from an Arrow type (`InferArrow`), the flat columns of
a table (`FlattenTable`) and the way back (`UnflattenTable`). The two backends
differ in the names of elements, in timestamps (an Arrow table's become text)
and in what becomes of lists that are null or shorter than the longest. Names
are the sequences of their tokens, and so are the texts of keys (`Spelled`):
`Child` puts them one after the other as the code does, so that a column called
`a.b` and the field `b` of `a` have the same name, and within `a` the key `b.c`
and the key `c` of `b`, or `x__0` and the first element of `x`. Where names meet,
one of the values is lost: which one follows in the code from the order of the
keys, for a frame that of a set of texts, and is left open (`Joined`). `Apart`
says of a table that nothing meets. **Cells** has the cells themselves.

A method that calls itself on the parts of a cell, a node or a type (`Conformed`,
`FlattenCells`, `CellOf`, `BuildArray`, ...) does so here through a constant
named after it, `ConformedBelow` and so on: the operator is one level of the
method, and the constant stands for the method at the levels below. The
configuration of a run gives each constant the method itself (`MCSDVPipeline`
ties these knots with `RECURSIVE`), and the proofs assume of each constant only
that it is the method (`FlattenRecursion`, `ConversionRecursion`,
`SchemaRecursion`, `IdsRecursion`).

**AvroFieldIds** is `AvroSchemaFieldIdAssigner`: the one counter, `next_field_id`,
is handed to each field, union member, array and map and comes back of it
(`counter` is what each turn of a loop finds), and ids that fields bring along
are kept.

**AvroToArrow** is `AvroToArrowConverter`: the type of each column, through
pyiceberg and then by the `format` of its field, which is looked up by a path;
and the values, column by column, through every level of a type. Two parts are
modules of their own: **ListArrays** lays the items of all lists of a column out
in one array with offsets, and **AvroCells** converts one value. A value of a
record is told apart by its form (`Stamp`, `Naive`, `Day`, `Digits`, `Uuid`,
...), since that decides what the converter makes of it; a value whose
conversion raises becomes `Raised`, and the source then fails. Time is counted
in ticks, a second being `Second` of them.

**Sources** is `load_dataframe()` of each source: the limit, the frame made of
JSON records, the ignored columns of Trino, reading an Avro file up to the limit
and what makes a source fail (`Loads`).

**SDVPipeline** is one generation on a worker's thread: load, flatten, fit,
sample, unflatten, each of which may raise. `request` is the source, the limit
and the output size. The synthesizer is a library; all that is assumed of a
sample is that it has the fitted columns and that a cell is one its column had,
which stands for any value within that column's bounds. `types` follows the
Arrow types from the flat columns to the sampled ones
(`_dataframe_to_pyarrow_table`), which depend on the nulls of the sample; where
pandas may or may not make text of a column with nulls, both happen
(`Unconverted`). `Buildable` is whether an Arrow list can be built at all.

## 3. Runs

| Run | Question | Bounds |
|---|---|---|
| `worker_safety` | Is the count exact, is work bounded, is every waiter woken, is a slot given back only after its work, is no future abandoned? | 4 calls, 2 threads, 2 slots, symmetric |
| `worker_live` | Does the worker implement `GenerationSlots`, do calls and shutdowns return, do slots come back? | 3 calls, 1 thread, 1 slot |
| `worker_leak` | *Violated:* is the count zero when nothing is under way? | 2 calls, 1 thread, 1 slot |
| `iceberg` | Do concurrent uploads with any failure keep the table sound and clean up what they made, and only that, and implement `PublishedTable`? | 3 uploads, 2 columns, symmetric, `Flaky` |
| `iceberg_lost` | *Violated:* does a table with reported data stay? | 2 uploads, 2 columns, no failing call |
| `iceberg_schema` | *Violated:* does an upload with a new column, alone, succeed? | 1 upload, 2 columns, no failing call |
| `service` | Does readiness hold its word, is every answer settled, is work bounded, does the loop always come back, does a worker that was shut down get no requests? | 2 requests of any route, 1 slot, 6 webhook bodies |
| `dto` | Do answers tell the truth of the stores, do stores agree, does no write come late, is everyone answered? | 2 requests, 1 column, every configuration, `Flaky` |
| `dto_both_failed` | *Violated:* does "both failed" mean that nothing was stored? | 1 request, `Flaky` |
| `pipeline` | Are records loaded to their places, are formats and ids assigned to the fields they belong to, is flattening undone, does a frame without nulls come back as it was, does whatever is sampled have the shape and types of the source? | two-row tables and files of one to three columns, three records for limits 0 to 4, one or two sampled rows |
| `avro_instants` | *Violated:* has a loaded row the instant that its record names? | two-record files with one field |
| `avro_ids` | *Violated:* are the fields of a schema numbered 1, 2, 3, ... in their order? | the two schemas of the repository's tests |

**Why the bounds are enough.** Four calls on two slots are the least at which
two callers wait while two tasks run, so a notification has more than one taker
and completions overlap on both threads; two calls in line and one slot
(`worker_live`) are enough for a slot to be stolen between a notification and
the evaluation of the predicate. Three uploads give one that creates, one that
overwrites and is in turn dropped, and one that creates again under the same
name; two columns are the least for schemas of which neither contains the other.
Two requests and one slot give a handler that holds the loop while another's
work has the slot, which is the only way the loop is held. With two DTO
requests, one overtakes the other between the two stores; a schema with one
column leaves the conflict of schemas to `iceberg`. Tables of two rows are the
least in which rows differ in keys, nulls and lengths of lists; rows do not
affect one another except through the schema, so one sampled row is enough. Two
sampled rows are used where the types of columns depend on nulls, which need one
row with and one without. `MCSDVPipeline` lists the shapes: every kind of node
under every other, two levels deep, columns beside them whose names meet or do
not, and keys that meet inside a column, of a frame, an Arrow struct, JSON rows
and an Avro record; and Avro files with every form of value under every format,
nullable and not, in records and lists. Three records and limits from none (0)
to 4 have the limit below, at and above the end of a file, whole or broken off.
Ten ticks to a second, an offset of three seconds and instants between -100 and
100 ticks are the least at which a value has a fraction, an offset moves it
across a limit, and both limits are met. The webhook bodies have a field of a
definition by itself, beside others and unreadable, and fields that are none.
What is proved (section 5) holds for all bounds. Each call is made once: a retry
by a client is another call.

`worker_safety` and `iceberg` use symmetry, and check no liveness.

**Deadlock** is checked in every run. A behaviour that has come to its end
stutters in an action of its own (`Terminated`, `AllEnded`, `Stopped`,
`AllAnswered`), whose guard says that everything has ended, so a state in which
something waits for ever with nothing to wait for is reported.

**Fairness.**

* `SyntheticWorker`: a call that has begun goes on, because its timed wait ends
  after five seconds whatever happens (`timeout=5.0`, l.58-60); the thread that
  cancels, drains or adds a callback runs on; the executor's threads take their
  next item and end it. Nothing obliges anyone to call `submit()`, `cancel()`
  or `shutdown()`. That a generation ends is needed for slots to come back;
  nothing in the code bounds it.
* `ServiceLoop` therefore does *not* assume it: the loop turns to every handler
  and probe that is ready, `submit()` returns, callbacks run, look-ups and
  uploads return or fail; generations may run for ever. `RequestsAnswered`
  excepts exactly the requests that await one of these.
* `DtoEndpoint`: calls to S3 and to the catalog return or fail, and the thread
  of an upload runs.
* `IcebergUpload` has no fairness: only safety is asked of it.

## 4. Disagreements found

1. `worker_leak` — `submit()` reserves a slot (`core/synthetic_worker.py:70`)
   before `executor.submit()` (l.73), which raises once `shutdown()` has begun;
   nothing gives the slot back, so `pending_count` counts a task that is
   neither "pending or in progress" (l.139).
2. `iceberg_lost` — an upload that created a table and meets a conflict drops
   the table (`destinations/iceberg.py:239`) together with the data of the
   upload it conflicted with, which was reported as written.
3. `iceberg_schema` — the update that `union_by_name()` builds is not committed
   to the transaction (l.222), so new columns are refused, although the class
   "Handles schema reconciliation" (l.72).
4. `dto_both_failed` — "Both upload destinations failed."
   (`app/api/v1/dto.py:131`) is also sent when a store has the data: the commit
   took effect and `refresh()` failed, or an answer was lost.
5. `avro_instants` — the microseconds of a timestamp are added to a sum that
   has them already (`sources/avro_ocf/helpers/avro_to_arrow.py:192`), so a
   fraction of a second counts twice, although the value should be the instant
   of the text (l.163), clamped to what Arrow can hold (l.19).
6. `avro_ids` — an array takes an id of the counter of the fields before the
   fields of its items are numbered, and a map two
   (`sources/avro_ocf/helpers/avro_id.py:218-219`, 243-246), so the fields that
   `tests/test_avro_schema_helpers.py:140-141` and 202-203 expect to be 3 and 4
   are 4 and 5, and 5 and 6. `IdsInOrder` states what the code does instead.

Seen while modelling, and without a run because they concern one line and no
interleaving worth exploring.

*Endpoints and worker.* After a successful generation the OpenMetadata routes
build a destination with a configuration it refuses
(`app/api/v1/openmetadata.py:62`), and `table/generate` returns a dict of
columns for a list of rows; both answer 500 where the tests expect 201
(`tests/test_api.py:100-103`, 202-206; `ResumeFails`).
`tests/test_core.py:198-201` reads the counter right after a result and expects
the slot to be back, but the result is visible before `_on_complete` has run. A
webhook without schema change is answered 500, since a model is not JSON content
(`app/api/v1/openmetadata.py:90-94`). A column "added/altered/deleted" is to
count as a schema change (`openmetadata/models/webhook.py:38`), but a deleted
one never does, as its class has only the `get_target_column_name()` that
returns nothing (`openmetadata/models/field/field.py:49-50`; `TargetColumn`). A
`create_table()` that takes effect and raises leaves an empty table, which the
next upload overwrites or, with a column it lacks, fails on
(`destinations/iceberg.py:213`, 299). A DTO request whose only configured
destination fails is answered 201, "partial_success" (`app/api/v1/dto.py:136`);
the route documents 200 and answers 201 (l.34, 44). `cuda` is set in a copy of
the parameters that is not passed on (`core/synthetic_worker.py:123-133`). The
400 that an Avro source raises for a bad file reaches the client as 500, because
the worker wraps it (`sources/avro_ocf/source.py:83-137`). An object's name with
a dot in it loses what is behind the dot (`with_suffix`,
`destinations/s3.py:163`).

*Sources.* The second half of Trino's URL, catalog and schema, is an expression
of its own that nothing uses (`sources/trino.py:66-67`). Ids are assigned "to
avoid Iceberg collisions" (`helpers/avro_to_arrow.py:50`), but a kept id may be
one that the counter also gives out. Enriched union members are written into the
caller's schema (`helpers/avro_id.py:154`). A logical timestamp becomes null and
a date raises; a text that is only a date, in a column of timestamps, becomes
the first instant there is (l.145); a text in the form of a UUID becomes bytes
(l.119).

*Pipeline.* Where two flat names meet, one value takes the place of the other
(`core/flatten.py:594`, 675, 883-887): inside a column (`{"b.c": ..., "b": {"c":
...}}`, or `x__0` beside a list `x` in an Arrow struct) and between columns (`a.b`
beside a struct `a` with a field `b`, or `a__0` beside a list `a`). Nothing looks
for that, although the structure is to be preserved (`core/sdv_pipeline.py:267-268`,
`docs/pipeline_components.md:349`). `RoundTrip`, `FramesComeBack` and `SampledFits`
speak of tables where nothing meets (`InputApart`), and `pipeline` reaches tables
where each fails without that.
`pa.bool()` does not exist (l.749), so an Arrow list of structs with a boolean
fails after the synthesizer has run. A column of a frame that mixes
dictionaries, lists and plain values has the kind of its first one (l.788-805),
and the values of another kind get lost; the requests of the runs have no such
column. A column with nulls is a number, a double or text from one sample to the
next (`core/sdv_pipeline.py:183-207`); `TypesKept` therefore speaks of columns
without.

## 5. Proofs

Proved, for every value of the constants, are both refinements and all
invariants that a run checks, those of the pipeline for tables, files and
schemas of any width, length and depth, and the action properties of uploads
and of the DTO endpoint. What is left to TLC is liveness.

| Module | What it proves |
|---|---|
| `SyntheticWorkerProofs` | every invariant of `worker_safety`, when a slot can leak, `GenerationSlots` |
| `IcebergUploadProofs` | every invariant and action property of `iceberg`, `PublishedTable` |
| `DtoEndpointProofs` | every safety property of `dto`, on top of the theorems on uploads |
| `ServiceLoopProofs` | every invariant of `service` |
| `FlattenProofs` | what becomes of one column of cells of any depth: it comes back, it comes back exactly, a mix of it fits |
| `AvroCellProofs` | offsets and items of lists; values, for every value, type of column and clock; columns of any depth (`AllCarried`) |
| `SDVPipelineProofs` | every invariant of `pipeline` |
| `NatRecursion` | induction and recursion over the naturals, for the last three |

Assumptions: `Tasks` is finite, `NoTask` is no
task, `max_pending` is at least 1 (`config/settings.py`), there is a thread;
`Earlier` is no upload (or request), `None` is neither a writer nor a table,
`Flaky` is a truth value; `Requests`
is finite and `Free` no request; a second has at least one tick, Moscow's offset
is of whole seconds, and `_NS_MIN` is below `_NS_MAX`. No assumption is made on
the number of calls, threads, uploads, columns or requests, nor on webhook bodies.

**Worker.** None of the invariants is inductive by itself. The inductive one,
`IInv`, is the conjunction of the type invariant, `Phases`, the count and its
bound, `ReleasedOnlyWhenOver` and `NoLostWakeup`. `Phases` is what makes the
rest go through: a call has a future exactly when it got past
`executor.submit()`, and a callback exactly when it has returned; so a step
that runs `_on_complete` always runs it for a call that is charged, and the set
`Charged` loses exactly one element when the integer does (`ReleaseIInv`).
There is one lemma for each family of actions, and `NextIInv` puts them
together. From `IInv` follow `TypeCorrect` (the integer never goes below zero),
`CountIsExact`, `WaitersAreWoken`, `SlotsOutliveWork` and `BackpressureHolds`
(a queued or running future is charged). `Refinement` shows that the worker
implements `GenerationSlots`: under the mapping `SlotOf`, the slots taken are
the charged calls (`TakenIsCharged`), so the guards on the integer are the
guards on the set, and every other step stutters.

`NoFutureAbandoned` needs to know who still holds a future that is not over:
`Holders` says that a pending one is in the queue and a running one with a
thread, that the queue is empty once `shutdown()` has returned, and that the
threads are idle if it waited for them. It is inductive together with `IInv`,
and `NoneAbandoned` follows from it.
`LeaksOnlyToShutdown` states how far the property that `worker_leak` refutes does
hold: at rest, the count is the number of calls that the executor refused after
they reserved a slot, and that number is zero while nobody has called
`shutdown()`.

**Iceberg.** `IInv` says who owns the table and what a table loaded earlier
still says of it: an upload that created a table and has not failed owns the
table in the catalog (`Owned`, because nobody else drops it and creation is
refused while it is there), the flag is raised only from creation on
(`CreatedLate`), the owner of a table is an upload that has created it, so no
upload creates two (`OwnersCreated`), a base with the owner of the present
table has its columns (`BaseFits`), rows fit, are of one upload, and are none
without a snapshot (`Rows`), and an empty table belongs to an upload that has
still to write or to drop it, could not drop it, or was told that it had not
been made (`EmptyIsYoung`). From it
follow `OneUploadsRows`, `CommittedRowsFit`, `DropsOwn`, `CreatedStays` and
`NothingEmptyLeft`.

`SuccessIsCommitted` is about the past, so it needs an invariant over the order
of commits, `History`: an upload that has still to commit is not in the log, so
that it commits at most once (`CommitsOnce`), and one that has committed is in
it, with what the table's head names at or behind its place, if there is still a
table (`HeadIsLater`). The latter is what `refresh()` will read. `Refinement`
then shows that the calls of all uploads implement `PublishedTable`: creation is
`Create` or, when it raises, `FailCreating`, a commit `Publish`, whether its
answer arrives or is lost (`WriteRefines`), dropping the own table `Withdraw`,
any other last step `Succeed` or `Fail` (`OutcomeRefines`), and every other call
a stutter (`QuietRefines`). `History` is why `Publish` finds the upload's
outcome open and `Succeed` finds it published; `Owned` is why `Withdraw` takes
back the own table.

**DTO.** The endpoint composes with the uploads, and so do the proofs: every
step of a handler is a step of one upload or leaves the catalog alone
(`StepsAreUploads`), so a run of the endpoint is a run of `IcebergUpload`
(`UploadsAsSpecified`), and the invariants and the refinement proved there hold
here as they stand (`UploadsHold`, `TableIsPublished`). On top, `IInv` says that an
upload runs only while its handler waits for it (`Handling`), what a status and
a message say of the stores (`Told`), that without overlap at most one request
is between its first write and its answer (`OneByOne`), and how far the table
may then be behind the object at each stage of that one (`Synced`). From these
follow `AnswersAreTrue`, `WritesAreOver` and `StoresStayTogether`.

**Service.** `IInv` ties what is spread over a request's variables together.
`Placed` says what the progress of a handler implies for its slot, its
generation and its answer; `SlotsBounded` is the bound on the slots taken;
`Lifecycle` says that an application that serves has its gauges and an open
worker, and that only a process with gauges has a closed one, which is why a
second start cannot serve. `ReadyMeansAdmitted` is inductive only together with
these: slots are taken in `SubmitAccepted` alone, and that step ends the answer
that relied on a free one. `WorkBounded` follows because a generation under way
has a slot (a subset of a finite set has no more elements).
The worker is `GenerationSlots` here; by `Refinement` the code's worker is one.

**Lists and values of Avro.** The library's induction takes an operator, which
none of the installed provers can instantiate. `NatRecursion` goes round that
with sets and functions: the naturals are well-founded, so a set with 0 and the
successors of its members has them all (`Induction`), and a first value with a
step makes a function (`Recursion`). With these, the offsets of the converter's
loop are the running sums of the lengths (`OffsetsAre`) and the array is the
lists one after the other (`ItemsAre`). So every item lies where its list's
offset says (`ItemsInPlace`), whatever is cut at the offsets has the lists'
lengths (`CutsFit`), and converting all items of a column at once is converting
each list by itself (`ListsComeBack`). As the latter holds for items of any
kind, it is the step from a type to a list of it.

`LessThanASecondLate` bounds what `avro_instants` refutes: an instant is never
loaded early, late by less than a second, and is exact when it has no fraction.
`TimesFit` says that a column of timestamps never holds what Arrow cannot,
`OthersNeverRaise` which columns can make a file fail, and `ValuesCarried` is the
part of `RecordsLoaded` that is about one value, for all values; `ListsCarried`
is that for a column of lists of values.

**Types of any depth.** A method that calls itself is an operator with a constant
for its calls (section 2). The proofs assume that the constant is the operator
(`...Recursion`), which is all that the definition of a method says, and that
the data are finite trees: types come in levels, `types[0]`, `types[1]`, ...,
and the parts of a type lie on levels below its own (`Below`). A statement about
every type is then proved level by level (`StrongInduction`), each step being
one call of the method.

**Flattener.** On the levels of cells there are levels of *shapes*: pairs of a set
of cells and the schema node inferred for them. For a data frame the sets are
the finite sets of cells of a type, since a node is inferred from all cells of a
column together (`FrameLevels`); an Arrow table has its nodes from its types
(`ArrowLevels`). For every shape of every level it is proved what names the flat
columns have (they extend the node's; that two children never share one is the
hypothesis `NamesApart`, passed down from level to level), what
`Conformed` makes of a cell, and what `CellOf` reads back: the cell, with nulls
added at most (`ColumnReturned`); the very cell, if a frame has no null in it
(`ColumnSame`); and whatever rows the flat cells are taken from, a cell of the
column's shape whose values are the column's (`ColumnFits`). The last is what a
synthesizer relies on, and is why it is stated of arbitrary rows.

**Pipeline.** `History` is the invariant: what has been loaded is what the
source gives for this request, schema and flat columns are made of it, each cell
of the sample is one its column has, and the result is the sample unflattened.
None of the properties is inductive, because each speaks of the outcome of a
stage and not of how it came about; with `History` each is a statement about the
sources and the flattener. `PipelineTypes`, `PipelineRoundTrip`,
`PipelineFrames` and `PipelineFits` then follow from the theorems on columns,
`InputApart` keeping keys and columns from one another; `PipelineKeepsTypes`
adds that a column without nulls has none in any sample.

`PipelineLoads` is `RecordsLoaded`: `AllCarried`, by levels from `ValuesCarried` and
`ListsComeBack`, says it of the columns of an Avro file; for JSON each key that a
record has becomes one column (`KeysSeen`, along the records).

`PipelineFormats` is about a dictionary that the converter makes of an Avro
schema, keyed by paths, and reads while it walks the Arrow type made of the same
schema. All paths of a type lie inside of the path that it was reached by
(`AllPathsInside`) and fields of a record have different names, so what the
whole dictionary has inside of a field's path is what that field's type put
there (`AgreeInside`). That goes down the type with the walk, and where a type has
no format, nothing changes it (`Unformatted`).

`PipelineIds` is about the counter. `Numbered(old, ids, first, next)` says of the
ids of a part that those it had are still there and the new ones are exactly
`first` to `next - 1`, ascending. Parts that follow one another are numbered
together (`NumberedOn`, `NumberedParts`), which covers each loop, and each kind of
type is numbered when its parts are (`RecordNumbered`, `ArrayNumbered`, ...). For
the whole schema this is 1, 2, 3, ...; `IdsCounted` turns it into the property,
by a bijection from 1 to an id onto the new ids up to it.

What these assume of the requests is that sources are what they are by their
nature. `TablesLoaded`: the columns of a loaded table are equally long and have
cells of one type each - dictionaries, lists or plain values, any of which may
be null - and an Arrow column has those its type says. `ScalarsTyped`: so do
Arrow scalars. `ValuesOf`, `FilesOf`: records have values of their fields'
types. `JsonRecords`: rows are dictionaries. `KeysAssumption`: keys of JSON rows
with the same text are the same key. `AvroTypes`, `SchemasOf`: the fields of a
record have different names, and a union that was loaded has one member beside
null, as pyiceberg requires. `FieldIdTypes`, `SchemasWithIds`: records have
fields, arrays items, maps values, and a union inside of an array or a map,
which the code leaves as it is, brings no ids of arrays and maps along. Every
request of `pipeline` is such a request: its sources have finitely many values
and types, which can be put on levels by their depth. A frame of which one
column mixes dictionaries with plain values is not: there the kind of the first
value decides (section 4).

**Model-checked only.** Every liveness property and `SlotsComeBack` (fairness
and ENABLED are beyond the prover). The proofs about the pipeline do not say
that the constants for the recursive calls have values: that a method which calls
itself on smaller parts ends is taken from TLC, which evaluates them
(`MCSDVPipeline`). `TablesLoaded` is assumed of an Avro file or of JSON records too,
where it could be derived from the types of their records.

## 6. Not modelled

What the synthesizers compute, file formats, HTTP, SQL, secrets, settings,
logging and the values of metrics: they are the library's, pure input and
output, or read by nothing in this program. Their failures are modelled, as the
outcomes of the step that uses them. The metrics task ends at its first
exception and touches nothing else, so it could only be a flag. A killed process
is not modelled: the service keeps nothing across a restart, and an upload
killed halfway leaves what `CleanUpFails` leaves.

Of what is modelled, left out are: the Arrow columns of Avro maps (pyiceberg
decides their layout; their ids and types of other fields are in), rounding
below the microsecond, widths of numbers, floats and decimals; the names under
which objects are stored; the category and message of an error, which follow
its class alone; the split of an Avro schema's name into title and namespace;
the parts of clients and destinations that nothing calls
(`AsyncOMDClient.patch` and `delete`, `submit_with_own_client`).

## 7. Plan

1. **Proofs**: `TablesLoaded` from `ValuesOf` and `JsonRecords` instead of by
   assumption; columns of mixed kinds in the model, and what of them comes back.
2. **Errors**: what a generation or a destination raises, through
   `GenerationError`, to status and category, in the place of the outcome
   choices of `ServiceLoop` and `DtoEndpoint`.
3. **Names**: from an Avro namespace to the identifier of a table and the key of
   an object, and which requests thereby meet in `DtoEndpoint`.
