# GridWitness: models, checks and proofs

GridWitness collects grid measurements (voltage, frequency, weather) from people's Home
Assistant installations and from electricians' loggers, stages them as hourly CSV files and
lands them in a research lake. The parts are small programs that share files, a database and
HTTP calls; what is hard about them is what happens between two of their steps. This directory
holds TLA+ models of these parts and of their composition, their TLC runs, and proofs of their
safety properties.

`PROJECT.json` names the lines each definition models, the runs, mutants, findings, hazards and
theorems.

## 1. The system

| Component | State | Operations | Talks to |
|---|---|---|---|
| Ingest server, private store (`db.py`, `privacy.py`) | SQLite: nodes, tokens, private rows, tombstones | create, update consent, erase, reads; each under one lock | handlers, survey worker |
| Ingest server, staging writer (`staging.py`) | dedupe window (memory), hourly CSV files | `filter_new`, `_append` | handlers, survey worker (own process) |
| Ingest server, routes (`routes_*.py`, `auth.py`) | a thread per request | register, samples, PATCH, DELETE, the portal's admin routes | Home Assistant nodes, portal |
| Rate limiter (`ratelimit.py`) | token bucket per node (memory) | `allow` | samples |
| Home Assistant node (`coordinator.py`, `buffer.py`, `api_client.py`) | pending rows, online flag, NDJSON buffer | capture, flush, drain, spill, reload | server over HTTP |
| Configuration and options flows (`config_flow.py`, `discovery.py`) | config entry | register, reconfigure, erase | server |
| NTP (`ntp.py`), sensors | clock offset, statistics | sync | NTP servers |
| Survey upload (`routes_survey.py`) | inbox directory per survey | upload | portal |
| Survey worker (`survey_ingest.py`, `parsers.py`) | archive directory per survey | drain | store, staging, inbox |
| GDA acquirer (`gridwitness_acquire.py`) | state file, parquet partitions | run | staging files |
| Account portal (`Portal/`) | accounts | calls of the admin routes | server |

Where the difficulty lies:

* **Server.** Handlers are plain functions that run in a pool of threads. `get_node`,
  `get_token_hash` / `get_contributor_ref` and the write take the database's lock one after the
  other; rows are staged under a record read before. The window marks a key before its row is
  written, the window is lost on restart, a write may fail.
* **Rate and clocks.** The rate limiter reads the time before it takes its lock, so requests
  overtake each other; a refused chunk is retried as it is, so it must fit in the bucket. The
  clock that stamps readings is corrected by answers of servers of which one may be wrong.
* **Node.** The timer does not wait for the previous flush. Each `await` lets capture, another
  flush or an unload in. Buffer rewrites go through one temporary name. A push may be lost,
  refused, or end in an exception the caller does not catch. Home Assistant may crash in the
  middle of an append.
* **Configuration.** A flow waits for the server with nothing locked. Two flows may be open on one
  entry, a call or its answer may get lost, and what a flow saves was read before its call.
* **Node and server together.** A push the node has given up may still be served, beside or
  after the next ones; what makes that harmless is the dedupe window, which forgets.
* **Surveys.** An asynchronous upload, a worker in another process and a withdrawal share
  directories without a lock; the worker may die between staging and moving a file.
* **Acquirer.** The server appends during a run; a run may die before it saves its state; the
  horizon holds rows back; files may be unreadable; keys may have been staged twice.

Three kinds of loss are in the code on purpose or by accident, and the models have them all: rows a
node drops (refused with a 4xx, or pruned by age or number), rows an error nobody catches takes
with it, and rows whose key was remembered before their write failed. The properties name them.

What makes each part correct: erasure is complete and stays so; published location and private
postcode agree; only the owner changes a node; rows are staged under a consent that was in
force; a key is staged once per stay in the window; what was acknowledged is stored (server).
No captured row disappears without account, and the server gets them oldest first (node).
The entry shows the server's record and can erase it, an erasure is final on both sides, and
what is revoked is no longer captured (configuration).
Accepted files are kept until they are staged; withdrawn ones go (surveys). What landed stays,
nothing young lands, nothing is skipped, one row per merged key (acquirer).

## 2. Modules

| Module | Models | State and actions |
|---|---|---|
| `NodeStore` | `db.py`, `resolve_location` | tables as `nodes`, `tokens`, `node_private`, `tombstones`; one operator per `Database` method |
| `Staging` | `staging.py` | `seen` is the OrderedDict's key order, `lock` the deduper's lock, `staged` the files |
| `IngestServer` | the handlers over both | `pc` is the next call of each thread, `node` the record it read; one action per call that takes a lock |
| `NodeRegistry` | - | abstract: the registry as a client sees it, each request at one moment; `IngestServer` implements it (`RequestsAreAtomic`) |
| `RateLimiter` | `ratelimit.py` | one node's bucket: `tokens`, the `age` of its time; `allow`, `pass` |
| `Ntp` | `ntp.py` | operators: the offset of an exchange, the replies discarded, the median |
| `Outbox` | - | abstract: one queue of readings that go to the server from the front; `EdgeNode` (`IsAnOutbox`) and `Delivery` (`InOrder`) implement it |
| `Delivery` | node, network, server threads, bucket, window and files together | composes `Outbox`'s queue, `Staging`, `RateLimiter` and `Ntp`; one action per request, answer, lock and write; `buffered` is how much of the queue is in the node's buffer, the rest is the batch of a flush and what was captured since |
| `Lines` | the loops of `buffer.py` and `parsers.py` that skip lines | one operator, `Kept`: the lines at some places of a file, in their order |
| `EdgeNode` | coordinator, buffer, HTTP client | one action per stretch between two awaits or executor jobs; `commit` and `prune` split into copy and replace |
| `ConfigEntry` | configuration and options flows, over `NodeStore` | `pc` is where each flow is, `entries` the effective configuration, `capturing` what the coordinator was set up with, `listening` whether the entry has its update listener yet, `due` the reloads it asked for; one action per stretch between two awaits, each call one step of the store |
| `Acquirer` | the acquirer; `stage` stands for the server | one action per phase of a run, one per partition written |
| `SurveyIngest` | upload, worker, withdrawal | directories as sets, files with a place and a number of chunks written, rows of a file's chunks with the time and phase that are their key, the inbox manifest as whole or torn |
| `Parsers` | `parsers.py` | operators: classification of columns, wide and long files, and the table they are checked against |
| `SurveyFiles` | the worker with its parsers | joins `SurveyIngest` and `Parsers`, so that one run checks both: what the parsers read out of one file does not depend on the worker's state, and what becomes of the rows of several files is `SurveyIngest`'s `Fresh` |
| `IngestServerProofs` | - | theorems about `IngestServer`, its dedupe window, its refinement of `NodeRegistry` |
| `EdgeNodeProofs`, `DeliveryProofs`, `ConfigEntryProofs`, `SurveyProofs`, `ParserProofs`, `AcquirerProofs` | - | theorems about the modules they are named for, the refinements of `Outbox` among them |
| `LinesProofs` | - | what `Kept` and the community modules' `FlattenSeq` return, and least and greatest numbers: used by the node and the parsers |
| `MC*` | small instances | requests clients send, model values, symmetry |

Abstractions: ids, tokens, channels and places are model values; a token is the node it was
issued to. A row is its key plus what a property needs (channels and location on the server,
age and readability in the buffer, readings in the lake). `cell_id` and `raw_region` are always
NULL in this version and left out. SQLite methods are one step: each holds the lock and commits
before it releases it. The hour file of a row follows from its key, so files are a set of rows.
The clock of the acquirer counts hours, which are also the instants of its rows. `Delivery` takes
from each side what the other one meets: the node is its queue, which `EdgeNode` is shown to
implement, and the server its limiter and staging; credentials and consent, which
`IngestServer` is about, are a push that may be refused. The times of the limiter are ages, since only differences of monotonic
times enter the code. `NodeRegistry` and `Outbox` translate no code - they say what it is for -
so `PROJECT.json` maps nothing of them.

Definitions whose comment calls them a *mutant* are plausible bugs, one for every property of
every passing run; put in the place of the definition they mutate they make the run fail.

## 3. Runs

Passing runs:

| Run (cfg) | Shows | Bounds |
|---|---|---|
| lifecycle (`MCLifecycle`) | `ErasureIsComplete`, `LocationIsCoherent`, `OnlyTheOwnerWrites`, `StagedUnderConsent`, `RequestsAreAtomic` | 2 nodes, 2 accounts, 2 threads, 13 requests on every route, with foreign credentials and incomplete locations |
| staging (`MCStaging`) | `TypeOK`, `NoDoubleStaging`, `AcknowledgedIsStored`, `AcknowledgedReachesDisk`, `RequestsAreAnswered` | 2 threads, window of 2 for 4 keys, 2 overlapping batches, 1 failed write or restart; no symmetry, since liveness |
| edge (`MCEdgeNode`) | `TypeOK`, `RowsAreAccountedFor`, `OnlySettledLeaves`, `EveryRowIsSettled`, `OnlineIsTrue`, `IsAnOutbox` | 3 rows, chunk of 2, buffer of 2, 1 crash, 1 reload, clock of 2 |
| edge_overlap (`MCEdgeOverlap`) | `FlushesEnd` | 2 flushes at once, 1 reload during them, every outcome of a push |
| delivery (`MCDelivery`) | `ReadingsAreStaged`, `RateIsBounded`, `ClockIsTrue`, `InOrder`, `EveryReadingArrives` | 2 readings, 2 threads, chunk, bucket, refill and window of 1, 1 tick between time and lock, 1 fault (a push given up, timed out or refused, a failing write, a restart) and any pruning, 1 sync with 3 NTP servers of which one errs and any may be silent |
| config_entry (`MCConfigEntry`) | `TypeOK`, `EntryShowsTheServer`, `NodesCanBeErased`, `ErasedStaysErased`, `RevokedIsNotCaptured`, `SharedSensorsAreMapped` | 1 node, 2 flows, 2 channels of which one has a sensor, 2 locations, no submission while a reload is due (two may be, by two flows) |
| acquirer (`MCAcquirer`) | `TypeOK`, `LakeIsOldStaging`, `NothingIsSkipped`, `LakeKeepsReadings`, `MergeDeduplicates` | 4 hours in 2 partitions, 3 lines, horizon of 1 hour, 1 crash, 1 unreadable file |
| survey (`MCSurveyIngest`) | `ArchivedIsStaged`, `AcceptedIsKept`, `SurveysAreProcessed`, `InboxIsPurged`, `WithdrawnIsPurged`; of the parsers `WideFilesAreRead`, `LongFilesAreRead` | 2 surveys, one of 2 files with a PQDIF, one of a file the worker may raise on, 1 chunk, 2 rows in the second file of which one has the time and phase of the first's, 1 fault, 1 withdrawal; for the parsers every table of 2 times, 2 phases and 3 values in 7 layouts |

Why the bounds are enough: the races are between two actors, so two threads, two flushes, or an
upload, a withdrawal and the worker show them; the window, the chunk, the buffer and the
partitions are smaller than the data, so eviction, several chunks, pruning and merging happen;
one fault shows what a fault does. The bucket is no larger than the
chunk, and the second of two pushes waits for its refill. The 7 layouts of the parsers hold each
way two of the token lists can match one column. The flows of one node
touch no other node, so one node shows what two flows do to each other.

Where a property holds only under circumstances, the circumstances are in the property where
they can be, as a history variable: `overlapped` (surveys the worker had in hand during their
upload or withdrawal), `passed` and `held` (rows that came after their hour was covered, rows
the horizon held back), `disturbed` (nodes whose flows overlapped or lost a call), `withheld`
(channels an entry once left out), `unheard` (entries whose options were saved while nobody
listened), `caught` (keys remembered before a failing write or a restart), `dropped` and `lost`
(rows the node has given up, and why), `unconverted` (files whose last conversion failed), `manifest`
(`"torn"`: cut off by a death), `sure` (offsets made of three answers or more), `faults`. The
rest are named constants: `Overlap` (a second flush), `Outcomes` (what a push may end in),
`Conflict` and `Payloads` (what a resent row may hold), `Unreadable` (surveys with a file that
may make the worker raise), `Lag`. The violations and the list below
say what happens outside them.

The survey and configuration runs allow deadlock: when everything is processed, purged
or erased nothing is left to do, and ids that are used up are not given again. So does
edge_overlap: an unload whose temporary file a flush has taken raises, and its entry stays unloaded
until Home Assistant starts again.

Runs that show the code at odds with its documents or comments:

| Run | What happens | What it contradicts |
|---|---|---|
| retry | a write fails after the keys were marked; the retry is answered "duplicate" and nothing is stored | `docs/submitters.md:80` "Re-sending the same row is safe" |
| edge_overlap_commit | one flush commits: it has written the lines behind its chunk to the temporary file; another one, whose push failed, appends its batch; `os.replace` puts the file without the batch in its place. Two flushes that push one chunk and both commit it remove rows nobody pushed as well, in a longer trace | `buffer.py:64` |
| acquirer_horizon | the covered hour passes rows the horizon held back; they never land | `gridwitness_acquire.py:221` "Newer rows stay in staging" |
| survey_withdrawal | the worker creates the archive again after the withdrawal purged it | `routes_admin.py:78` |

Further disagreements, without a run of their own. The first three are one change of a run above
away, and TLC then reports the property named:

* A push that ends in a body that is not JSON, or in a total timeout, escapes as an exception
  that `_on_flush` does not catch, and its batch is gone, against `buffer.py:3`
  (`MCEdgeNode` with `Outcomes <- AllOutcomes` refutes `RowsAreAccountedFor`).
* The worker archives a file that is still being uploaded, against `survey_ingest.py:131`
  (`MCSurveyIngest` refutes `ArchivedIsStaged` without its exception for `overlapped`).
* The first write to a partition keeps duplicates, against "the real idempotent MERGE" of
  `staging.py:11`, and the next merge into it keeps the readings of one of the duplicates only,
  against `gridwitness_acquire.py:210` (`MCAcquirer` with `Conflict = TRUE` and
  `Payloads <- Two` refutes `LakeKeepsReadings`).
* A row the server refuses takes its batch or chunk with it: one frequency out of range is a 4xx
  for all (`coordinator.py:174`, `190`). The code says so in its log; `Delivery` counts these rows
  as `dropped`.
* Options that are saved while an entry is being set up - after `__init__.py:37` has read them,
  before `__init__.py:58` registers the listener - schedule no reload: a channel that was revoked is
  captured on until options are saved again or Home Assistant restarts, against
  `config_flow.py:256` ("de-consented channels stop immediately"). `RevokedIsNotCaptured` excuses
  entries that are `unheard` (`MCConfigEntry` refutes it without).
* A PQDIF file whose conversion fails or times out is not deferred (`parsers.py:230-233`): it is
  handled with no rows and archived, never to be looked at again, against `survey_ingest.py:131`
  ("Archive the files we staged") and 104 ("parsed + staged this run"). `ArchivedIsStaged` excuses the
  files that are `unconverted` (`MCSurveyIngest` refutes it without).
* The manifest of a deferred survey is rewritten in place (`survey_ingest.py:155`). A death in the
  middle leaves one that cannot be parsed, and line 88 then raises at every later drain: the survey
  stays in the inbox, even when it is withdrawn and only the worker is left to purge it.
  `SurveysAreProcessed` excuses manifests that are `"torn"`.
* A flush that is running during an unload replaces the buffer by a copy older than the spill,
  against `coordinator.py:101`.
* A worker that dies after staging and before moving the files stages them again next time,
  against `survey_ingest.py:131` ("keeps re-runs idempotent").
* A flush that drains the backlog without new rows leaves the link shown as disconnected.
* A channel that is shared later in the options has no mapping and is never captured, since the
  mapping only shrinks (`config_flow.py:254`), against the comment below it, "the coordinator
  picks up the new channels/mapping".
* When the server cannot be reached the options flow removes the entry, and with it the token,
  and the user reads "Your node and data have been removed." (`en.json:80`): the data stay and
  nobody can erase them. A registration whose answer is lost leaves such a node as well.
* Home Assistant makes a row per channel, and the window's key is node, phase and time: of two
  channels of one phase read in the same millisecond only the first is staged, against
  `docs/data-model.md:9` ("one row per phase", with all its columns) and its MERGE that would
  join the two.
* With two replies the median of the offsets is a mean, so that one bad server moves the clock,
  against `ntp.py:89` ("robust to a single bad server"); `sure` in `ClockIsTrue` excludes it
  (`MCDelivery` refutes it without). An offset beyond the plausible one is never applied, so a
  host whose clock is far off stays so.
* A bucket that is full and refilled meanwhile grants up to twice "rows per node per minute"
  (`config.py:35`) in a minute; `RateIsBounded` states what it does grant.
* A rate configured below the node's chunk of 2000 rows refuses every drain for ever: no bucket
  covers it (`DeliveryAssumption` excludes it; the defaults are 6000 and 2000).
* `parsers.py` counts the lines of the long format it folds into one row as dropped
  (`parsers.py:198`), against the field's comment "unparseable ts, or all values out of band"
  (`parsers.py:64`). Columns such as "V1 THD" match a voltage token, against `parsers.py:8`
  ("current, power, THD, and anything else in the file is never even read into a row"). Of several
  voltage columns of one phase, and of several files of one survey that have a row for one time and
  phase, the window keeps the first only; `ArchivedIsStaged` says that such a row is staged, not
  which.
* A phase the server's models refuse, in a long file, makes its survey fail at every drain; it
  stays in the inbox (`SurveysAreProcessed` says that the others do not suffer).
* Nothing reads the tombstones, against `docs/ingest-api.md:113`.

## 4. Fairness

* `IngestServer`: weak fairness of each thread's request: the operating system runs a thread
  that can step. Nothing is assumed about the order in which a lock is granted, so a thread may
  wait for ever behind others inside `filter_new`; `RequestsAreAnswered` exempts that wait and
  asks instead that nobody stays inside. Clients and faults have no fairness.
* `EdgeNode`: weak fairness of each flush and of the steps of an unload (event loop, executor)
  and of the timer; strong fairness of a push that succeeds, that is, a server that is asked
  again and again takes the push in the end. Without it no row need ever arrive.
* `SurveyIngest`: weak fairness of uploads and purges that have begun and of the worker, which
  is scheduled; strong fairness of parsing with the converter installed, which the repository
  asks for ("a later Windows run with the converter picks up the deferred PQDIF").
* `Delivery`: weak fairness of `push` (the node's timer), of `tick` (time passes) and of each
  thread's `serve`. Giving up, faults and refreshes of the clock have none.
* `ConfigEntry`: weak fairness of a flow that does not wait for its user (calls end, with or
  without an answer), of the setup of an entry and of each reload that is due. Users have no
  fairness.
* `Acquirer`: safety only.

## 5. Proofs

For every value of the constants (any numbers of nodes, accounts, threads, flushes, flows, surveys,
requests, readings, time servers and faults, any window, bucket, buffer and chunk):

| Theorem | Statement | Module |
|---|---|---|
| `TypeCorrect` | `Spec => []TypeOK` | `IngestServerProofs` |
| `ErasureComplete` | `Spec => []ErasureIsComplete` | |
| `LocationCoherent` | `Spec => []LocationIsCoherent` | |
| `OwnersWrite` | `Spec => OnlyTheOwnerWrites` | |
| `ConsentRespected` | `Spec => StagedUnderConsent` | |
| `InductiveInvariant` | `Spec => []IInv` | |
| `WindowInvariant` | `Spec => []WindowInv` | |
| `DedupeWorks` | `Spec => []NoDoubleStaging` | |
| `AcknowledgedStored` | `Spec => []AcknowledgedIsStored` | |
| `ServerIsAtomic` | `Spec => RequestsAreAtomic`: `IngestServer` implements `NodeRegistry` | |
| `LockIsHeldInTheLoop` | `Spec => []LockHolderGoesOn` | |
| `RequestsAreShort` | finite request bodies give `Spec => RequestsAreBounded` | |
| `DeliveryInvariant` | `Spec => [](QueueInv /\ LimiterInv)` | `DeliveryProofs` |
| `RateBounded` | `Spec => []RateIsBounded` | |
| `ReadingsStaged` | `Spec => []ReadingsAreStaged` | |
| `OldestFirst` | `Spec => InOrder`: `Delivery` implements `Outbox` | |
| `ClockTrue` | `Spec => []ClockIsTrue` | |
| `EdgeTypes` | `Spec => []TypeOK` | `EdgeNodeProofs` |
| `EdgeInvariant` | `Spec => []EdgeInv` | |
| `WhatLeavesIsSettled` | `~Overlap` gives `Spec => OnlySettledLeaves` | |
| `NoRowDisappears` | `~Overlap` and no "escaped" push give `Spec => []RowsAreAccountedFor` | |
| `OnlineTellsTheTruth` | the same two give `Spec => OnlineIsTrue` | |
| `EdgeImplementsOutbox` | the same two give `Spec => IsAnOutbox`: `EdgeNode` implements `Outbox` | |
| `EscapesLoseTheirBatch` | `~Overlap` gives `Spec => OnlyEscapesLose` | |
| `FlushesAreShort` | `~Overlap` gives `Spec => FlushesAreBounded` | |
| `ConfigInvariant` | `Spec => []ConfigInv` | `ConfigEntryProofs` |
| `ConfigTypes` | `Spec => []TypeOK` | |
| `EntriesShowTheServer` | `Spec => []EntryShowsTheServer` | |
| `EntriesAndNodesAgree` | `Spec => []NodesCanBeErased` | |
| `SharedChannelsKeepSensors` | `Spec => []SharedSensorsAreMapped` | |
| `NothingIsRevived` | `Spec => ErasedStaysErased` | |
| `SurveyInvariant` | `Spec => []SurveyInv` | `SurveyProofs` |
| `ArchivedSurveysAreStaged` | `Spec => []ArchivedIsStaged` | |
| `AcceptedSurveysAreKept` | `Spec => []AcceptedIsKept` | |
| `DrainsAreShort` | `Spec => DrainsEnd` | |
| `WideFiles`, `LongFiles` | `WideIsReadInFull`, `LongIsReadInFull`: what `WideFilesAreRead` and `LongFilesAreRead` say of a file | `ParserProofs` |
| `AcquirerTypes` | `Spec => []TypeOK` | `AcquirerProofs` |
| `LandsOldStaging` | `Spec => []LakeIsOldStaging` | |
| `MergesDeduplicate` | `Spec => MergeDeduplicates` | |
| `LakeKeeps` | `~Conflict` gives `Spec => LakeKeepsReadings` | |
| `NoneSkipped` | `~Conflict` gives `Spec => []NothingIsSkipped` | |

They rest on the named assumptions of `NodeStore` (NULL is no node, account, postcode, tier, set of
channels or private row; `AreaOf` is a function), `Staging` (the window has a positive size),
`IngestServer` (requests are of their type and name what their operation needs), `RateLimiter`
(capacity and refill are positive), `Delivery` (a chunk fits in a full bucket, and the span over
which grants are counted fills one; times are integers of a unit in which half the difference of two
path delays is one), `EdgeNode` (bounds are numbers; no temporary file is no file), `ConfigEntry`
(frequency is a channel; NULL is no entry; the bound is a number), `SurveyIngest` (a survey has a
file, a file a chunk),
`Parsers` (times are listed once; an empty cell is no number; a layout's columns can be told apart)
and `Acquirer` (bounds are numbers, there is an hour, each hour has a partition), which TLC
evaluates in the runs of these modules.

`LayoutsAreClear` is the one that says something of the world: the first column whose name looks
like a time or a frequency is that quantity, and a name that looks like a voltage beside these
is the voltage of its phase, once. A column may match several token lists, and there may be any
others. Files outside it are read otherwise, as section 3 says ("V1 THD", two columns of a phase).

Two hypotheses are the circumstances of the run edge. `~Overlap`: no flush begins while another one
or an unload is under way. "escaped" is not among the `Outcomes` of a push: none ends in an
exception that `_on_flush` does not catch. The code promises neither. Without the first
`OnlySettledLeaves` is false (run edge_overlap_commit), without the second a batch disappears
(section 3); `EdgeTypes` needs neither, `WhatLeavesIsSettled`, `EscapesLoseTheirBatch` and
`FlushesAreShort` the first only. `EscapesLoseTheirBatch` is what remains of `NoRowDisappears` when
pushes do raise: a step loses rows only by an exception that escapes it, and then the batch of that
flush, no row of the backlog and none that is pending.

**The server.** None of the invariants is inductive alone, because a thread acts on what it read
some steps before. `IInv` adds to types, erasure and location `ThreadOK(t)`: at each label after
`get_node` the thread's record is one its node really had while the request was served (a member
of `inForce`); after the check of credentials the request holds the node's token or names its
owner for as long as the node is live, since owners never change and ids are not reused; every
row in `todo` and `unique` is a projection of that record within its channels. Each action has a
lemma `<Action>Step`; a step of one thread disturbs the others only through the store, which the
lemma `Bystander` handles once, and `QuietStore` / `QuietStep` cover the actions that leave the
store alone. `StepPreserves` puts them together. The two action properties follow from `IInv`
and the actions that write (`WritersAreOwners`, `RowsAreConsented`).

**The window.** A thread marks a key before it writes the row, so neither `NoDoubleStaging` nor
`AcknowledgedIsStored` is inductive. `WindowInv` adds that whatever is on disk or in flight is in
the window or has fallen out of it (`StoredIsKnown`): a key that passes `filter_new` is then
neither stored nor in another thread's hands. In the other direction, and only while there was no
failed write and no restart, what the window knows, what a thread has looked at and what was
acknowledged is stored (`KnownIsStored`). `WindowRemembers` says what `remember` does to the
window, whatever its size.

**Its atomicity.** Under the mapping of `IngestServer` a live record with its owner, channels and
home is an entry of the registry, and a request in flight is one that is asked. The calls before
the last one stutter; the last one, or the refusal, is the moment of the request. That the checks
made before are still true then is what `IInv` says of the thread: owners and tokens do not
change while a node is live, and a node that has gone makes the write miss.

**Node and server.** The queue has gaps: an error that ends a flush takes the batch out of it, from
between the backlog and what was captured since. `QueueInv` therefore says that the queue ascends,
and of each thread that its job was the front of the queue once: a row that still stands in the
queue before one of the job's is of the job too. What has left the queue, what lies behind a
thread's place in its job, and what the window knows is covered - it, or another one with its key, is
staged or in the hands of a thread, or its key was lost to a fault - unless the node has given it up
(`GivenUp`: refused, pruned, lost with a flush). That a job is a front is why a push that was given
up and served late leaves nothing out. `LimiterInv` is the bucket's account: it never goes below
what its next refill restores, and what was granted since the observed moment plus what is left
came from one full bucket and the refill. The older of two overtaking readings of the time may
take refill away, never add any (`AllowKeepsAccount`). Each action has a lemma `<Action>Keeps`;
`OldestFirst` maps a granted push to `Send`, an acknowledgement to `Release`, a refusal and a pruning to
`GiveUp`, an error that ends a flush to `Lose`, all else to a stutter.

**The clock.** The offset of an honest exchange is off the drift by half the difference of its two
ways, hence by half its delay at most (`OffsetOfExchange`). The median of three offsets or more
lies between two answers of servers other than the erring one (`MedianIsBetween`), whatever that
one says: in the order of the offsets there is one before the middle and one behind it
(`KthIsBetween`, with `LeastNumber` for the existence of a k-th at all).

**The node.** `Typed` holds whatever overlaps: every reader of the temporary file finds none or one
made of captured rows. Without overlap `OneFlush` and `Ordered` hold too. Each row has one place,
file, batch or list, and every row of one place was captured before those of the next; a spill of
the batch, and of the list at unload, therefore goes behind older rows. `FlushOrder` adds for each
label what the flush relies on: its chunk is still what `peek` would return, was settled before it
is committed, and the temporary file is what remains of the file when settled rows leave at its
front. `commit` cuts lines and `peek` counts rows that parse, so a corrupt line makes `commit` cut
too few, never too many (`OnlySettledLeaves`). For `IsAnOutbox` the queue is the file's readable
rows, then the batch, then the list. All three ascend, so the queue is the one ascending sequence of
its set of rows (`SameRows`), and a step is shown on sets: rows leave that were earlier than all
that stay (`FrontMoves`: send, give up, release), a crash takes any (`RowsLost`), and whatever moves
rows between the three places stutters. What `Kept` does to the lines is proved for every file
without the induction theorems: `Least`, a least counterexample, stands in for them (`SieveKeeps`).

**Configuration.** A flow that waits for the server knows only what it read before its call.
`FlowOK` says what it may rely on when the answer comes: a node it registered is live, has no entry
yet and is as the form has it; the mapping it read covers every channel no entry ever left out.
After an update, or a refusal to erase, that holds as long as no other flow worked on the node
(`disturbed`; `AloneOK`: two flows at work on one node have disturbed each other, and none is
creating its entry). `NodeOK` is the pair of properties with the exception for the flow that is
about to write. An options flow outlives its entry, so it is submitted for nodes that are `known`, not
for those that have an entry: what it then saves is refused, and what it read does not matter.
`NothingIsRevived` has no exception: only `create_entry` makes an entry where there was none, and it
holds a live node.

**Surveys.** `SurveyInv` says where a file may be: while its survey is uploaded, in the inbox and
complete if it is before the current one (`UploadOK`); once accepted, in the inbox or the archive
(`KeptOK`). `HandOK` is the worker's side: the survey it has in hand was accepted and is live, the
files it did not list are archived already, those it is about to move are staged or `unconverted`. Of
the rows of a file one of each key is staged, its own or that of an earlier file of the survey: the
window of the worker's process is empty when it starts, and among the rows of a key there is a first
one, which passes (`FirstIsFresh`). Of the manifest the invariant says only
that each survey has one or none: a torn one keeps its survey in the inbox, where every file is safe, and
matters to the liveness properties alone. A worker that
meets an upload or a withdrawal puts the survey among the `overlapped`, of which nothing is said.
Steps that touch another survey are handled by `Bystander`.

**What is in their files.** `RowsFor` is what the rows of a file, or of one record of it, must be for
some times of a table: of a time and phase one row at most, of a time one frequency at most, every
reading in its band in some row, nothing in a row that the table does not say. Of such rows the
dedupe window takes nothing away (`AgreeingIsStaged`), and rows with nothing in them may be left out
(`TellingIsFor`). A record of a wide file has the rows for its time (`RecordIsFor`), which rests on
what `classify_columns` finds (`ColumnsAreFound`: the one column of each quantity, or none); of all
records together two rows of a time come from one record (`RecordsTogether`, by `FlattenJoins`: a
concatenation has the elements of its parts, in their order). In a long file the lines of a channel
and group agree (`LongAgrees`), so that the last of them is any of them (`LastIsAny`), and each
group is opened by one line (`FirstsOfGroups`). `FlattenJoins` and `KeptLines` are proved for
sequences of any length, by a least counterexample.

**The lake.** `LandInv` says that lines have numbers of their own over both kinds, that a row of
the lake is a line of that number and key, landed once, and that what a run has in hand is old
enough. `WrittenTo` is the one fact about a merge the rest follows from: what it writes is made
of rows of the partition and the payload, loses no key, and has one row for a key if there was
anything to merge into. `RunInv` needs that the lines of a key agree (`Conflict` is `FALSE`: a
key that is staged twice is one reading, sent again), since the first write of a partition
de-duplicates nothing and the next one keeps the last row only. It says that each line of the
kind a run is at is in its hands, landed or excused, and those of a kind it is through with are
landed or excused, so that saving the covered hours skips none; a run that dies saves nothing.

**Steps that come to an end.** Fairness cannot be used in these proofs, but what it would be applied
to can: four theorems say that what has begun has a bounded number of steps left, which each of its
own steps lowers and no step of anybody else raises. A request of n rows is answered after at most
2n + 5 steps of its thread (`CallsLeft`; a body is finite, as any that was parsed), and who holds
the lock of `filter_new` is in its loop with a row left (`LockHolderGoesOn`), so that nobody waits
for a thread that has gone on. A flush has as many steps as the lines of the buffer
allow (`StepsLeft`); that is inductive only with `TakesLines`: a chunk that is pushed or
committed has rows in it, so what its `commit` copies is shorter than the file. Overlapping flushes break that, which
is why run edge_overlap checks `FlushesEnd` by itself. A drain
takes each survey once and is done with it after the number of its files plus six steps
(`SurveySteps`), although uploads and withdrawals of the same survey go on meanwhile: with
`NotOpened` (a file that was not opened is in no directory) no upload adds to what is left to move.
What stays to TLC is that the steps are taken.

Only model-checked: the liveness properties (fairness and ENABLED are out of the prover's reach) -
`AcknowledgedReachesDisk`, `RequestsAreAnswered`, `EveryRowIsSettled`, `FlushesEnd`,
`EveryReadingArrives`, `RevokedIsNotCaptured`, `SurveysAreProcessed`, `InboxIsPurged`,
`WithdrawnIsPurged` - and `WideFilesAreRead`, `LongFilesAreRead`, which join the parsers' theorems to
the worker's run. Every other property of the passing runs is a theorem.

## 6. Not modelled

SQLite errors in the middle of a method, and the migration of old files; the server's death in an
upload, which may leave a manifest that is cut off as well (and blocks the worker's purge of the
survey as a torn one does); a restart of Home Assistant that would set entries up anew; a platform
that cannot be unloaded, with which a reload fails; the header of an hour
file, which two processes may write twice (it is then read as a row whose time does not parse,
and dropped by the acquirer); how a time, a number or a delimiter is recognised in a survey, and
the decoding of PQDIF: external libraries over bytes; discovery, whose result is a constant; the
transport offset and the daily statistics, which only sensors show; the portal's accounts and
views; read-only routes.

## 7. Plan

Done: the server core with its proofs; the node, its configuration, the acquirer and the surveys;
the abstract specifications `NodeRegistry` and `Outbox` and the refinements to them; rate limiter,
NTP, and node and server composed; the parsers against a table; proofs of all safety properties of
the passing runs, and of the bounds beneath their liveness.

Left, in order of what it would add:

1. Proofs of what holds with overlapping flushes (what a file may be then, beyond its type).
2. The acquirer joined to `Delivery` through the hour files: staged once per stay in the window,
   landed once.
3. SQLite errors in a method; the hour files with their header, appended to by two processes.
4. Discovery and the consent it proposes, as operators against a reference definition.
