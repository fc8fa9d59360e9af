# Formal models of FOLIO Enrich

TLA+ modules for the parts of FOLIO Enrich (`backend/app`) whose correctness
depends on the order of things: asynchronous tasks on one event loop, a worker
thread beside it, files that are written by several owners, users that act
while the pipeline runs, crashes and restarts; and for its pure algorithms whose
result is easy to get wrong: overlaps, chunks, ranking, exports. TLC checks the
modules on small instances; TLAPS proves the main results for every value of the
constants.

## 1. Inventory of the system

A document is submitted over HTTP, a job is created and saved, a pipeline task
enriches the job stage by stage, clients follow it by events or by polling, users
correct the annotations, a finished job is exported, annotated in gold sessions,
or reviewed and pushed to folio-insights. All of it runs in one process on one
asyncio event loop; a few functions run on worker threads; state that must
survive is kept in JSON files.

| Component | State it keeps | Operations | What makes it correct |
|---|---|---|---|
| Post-job flow (`services/post_job/flow.py`, `models/job.py`) | `Job.post_job` (choices, review and push status, attempts, revision); in memory `_queued`, `_in_flight`, `_locks`, `_background` | initial choices, hook on completion and on failure, override, review completion, read (heals), retry, push task, recovery at startup | the choices stored are the last ones answered; one push at a time, only when asked for and only after the job and its review; every attempt recorded; nothing waits for ever |
| Job store (`storage/job_store.py`) | one file per job, `_POST_JOB_LATEST` | save (with merge of the post-job state), load, list, count_active (marks stale jobs), fail_orphaned_jobs, cleanup_expired | a save never brings back an older post-job state; the job of an open gold session survives the clean-up |
| Orchestrator (`pipeline/orchestrator.py`) and `pipeline/stages/*` | the in-memory job, the pipeline slots | queue, stages in sequence, six branches in parallel, merge, stages in sequence, COMPLETED, two assessments, hook | a failing stage is skipped and loses nothing others found; an unreadable text fails the job; the hook runs once at the end |
| Enrichment API (`api/routes/enrich.py`) | none of its own | submit, job and status, promote, cascade promote, reject, restore, bulk reject, events, post-job routes | an answered change is kept; job and feedback agree |
| Feedback (`storage/feedback_store.py`, `api/routes/feedback.py`) | one file per entry; a copy inside the annotation | upsert, delete, clear, export, insights | one entry per annotation, the copy agrees |
| SSE (`services/streaming/sse.py`) | per client: ids seen, states sent | poll the job, send what is new | a client that saw `complete` holds the stored annotations |
| Insights client (`services/insights_client.py`) | none | push_record, query | each outcome maps to one push status |
| Startup (`main.py`, `services/demo_seed.py`) | periodic tasks | seed, fail orphans, recover, start the tasks, shut down | recovery sees only settled jobs |
| OWL update (`folio/owl_updater.py`, `folio/owl_cache.py`) | ontology file, its backup, the ETag in the metadata; status of the update | check, download, rotate files, wait for an idle pipeline, reload, re-index, roll back | a 304 can be believed; a version is always on disk; memory, disk and index belong together; an update ends |
| FOLIO service (`folio/folio_service.py`) | the graph, and the labels built from it | first load, reload, lazily built labels, forgetting them when the setting changes, look-ups | a run reads one version of the ontology |
| Ontology registry and union (`services/ontology/*`), compiled rulers | loaded services, their indexes, LRU order, a lock per ontology; the union's labels; rulers by ontology | get with double-checked loading, evict, union of two, compile | no more resident than the ceiling; no ruler or union older than the labels; nobody waits for ever |
| Embedding (`services/embedding/*`) | indexes, cache files | build, load, search | an index belongs to its ontology |
| Matching and reconciliation (`services/matching`, `services/reconciliation`, `pipeline/stages/*`) | none | overlaps, rulers, merge, triage, judge, string matching, deduplication | nested spans survive, overlaps resolve to the longer match, nothing resolved vanishes |
| Resolution and ranking (`services/folio/resolver.py`, `search.py`, rerank and judge stages) | a cache of resolutions | two searches, ranking, one concept and its runners-up, blends of confidence | the first of several is the single one; runners-up are others than the primary and below it |
| Individuals, properties, triples, propositions | none | extraction, merge of overlaps and names, links | links lead to what is there |
| Normalization and chunking (`services/normalization/*`) | none | clean-up, sentences, chunks with offsets, places of quotes | no text is lost, chunks are bounded, offsets fit the document |
| Exporters (`services/export/*`, `api/routes/export.py`) | none | fifteen formats, dismissed annotations left out | formats say the same of a job, what a file refers to is in it, tags nest |
| Gold sessions (`services/gold/store.py`, `routes/gold.py`) | session files, records and their bundles, manifest | create, settle, add, blind segment, reveal, validate, export, reopen | blind is blind; an approval is of the tool's classification; the manifest lists what is there |
| LLM routing (`orchestrator.py`, `services/llm/*`, `routes/settings.py`, `health.py`, `synthetic.py`) | settings shared by all visitors | choice of provider, model, key per request and task; settings, provider list, health | a key stays with its owner and its provider; a document goes where it was sent |
| Ollama manager (`services/ollama/*`, `routes/ollama.py`) | the process handle | find, install, start and poll, stop, pull, setup | a stop ends ours and only ours; calls end |
| Rate limiter, auth, ingestion, extractors, frontend, scripts | little or none | see "Not modelled" | - |

How they interact: the API creates the job and starts the orchestrator's task;
the orchestrator owns an in-memory copy and saves it through the job store; the
API's routes load, change and save the same file; the flow keeps its own
revision-guarded part of the job; the store merges the two. The hook starts a
push task, which calls insights over HTTP. A worker thread (`count_active`)
reads and, for stale jobs, writes the same files; the clean-up deletes them, and
asks the gold store which it must spare. The stages borrow ontology services
from the registry, which other jobs' threads evict from and an update reloads
under them, and LLM clients from settings that visitors and admins change.

What is hard here: the in-memory copy of the pipeline against the changes of
users; the suspension points at which the flow lets others in (the lock is
released around the HTTP call); saves that raise halfway; the threads that do
not take the event loop's locks; a process that dies between any two of these;
decisions that are written down in several places and must agree.
`hazards` in PROJECT.json lists them one by one, each at its line.

**Atomicity.** `JobStore`, `FeedbackStore` and `GoldStore` declare coroutines
that never suspend. On one event loop a stretch of code without a suspension is
one step: every block under a flow lock, every load-change-save route, every
request to a gold session. The real suspension points are the acquisition of a
pipeline slot, the LLM calls of stages and assessments, the HTTP call of
`push_record`, `count_active` (a worker thread), sleeps, and the start of a task.
Steps of the models are the code between two of these; on worker threads, between
two accesses to what threads share.

## 2. Plan

Done, in the order of importance:

1. `PostJobState`, `PostJobFlow`, `PushLedger`: the post-job flow and its store.
2. `AnnotationReview`: annotations, feedback and event stream under the
   pipeline's saves; promise: what users were told stands.
3. `SpanOverlap`: the resolution of overlapping matches.
4. `OwlCache`, `OwlUpdate`: the files of the ontology with crashes between
   renames, and the reload under running jobs.
5. `ConceptStages`, `EntityStages`, `Enrichment`: what the stages compute, the
   branches side by side; `EnrichedJob`: they implement `AnnotationReview`'s pipeline.
6. `ConceptRanking`, `GoldSession`, `LlmRouting`, with 5 composed in `MCDocument`.
7. `OntologyRegistry`; `OllamaServer`, with 1 composed in `MCCalls`.
8. `TextChunks`, `Exports`, with 3 composed in `MCText`.

Left:

* the limit of concurrent jobs, and job files a crash leaves half written;
* the copy of the feedback inside the annotation (feedback.py:52-60), which an
  updated entry leaves as it was and the frontend shows;
* demo seeding and the shutdown beside running tasks.

Every invariant a run checks is proved by now, and so is every action property;
liveness stays with TLC (section 11).

## 3. How to read the modules

Each module models one component and begins with what it simplifies. `MC*.tla`
gives a module its constants, or composes several. A definition marked "broken" in
a comment is a defect of the kind a change of the code could bring in: no
specification uses it, and put in the place of the definition before it, it breaks
a property.

The behaviours of a composition whose parts share no state are those of one part
each (a variable says of which), so a run of the composition is a run of each.

| Run | Specification, config | Expected |
|---|---|---|
| `calls` | `MCCalls` (`PostJobFlow`, `OllamaServer`), Calls | pass |
| `flow_stale_marking` | `PostJobFlow`, FlowStaleMarking | pass |
| `stale_job_pushed` | `PostJobFlow`, FlowStaleFailed | violation of `PushOnlyForCompletedJob` |
| `late_review` | `PostJobFlow`, FlowLateReview | violation of `PushWaitsForReview` |
| `review_safety` | `MCReview`, ReviewSafety | pass |
| `lost_edit` | `MCReview`, ReviewLostEdit | violation of `EditsTracked` |
| `owl_safety` | `OwlUpdate`, OwlSafety | pass, deadlock checked |
| `owl_progress` | `OwlUpdate`, OwlProgress | pass, deadlock checked |
| `document` | `MCDocument` (`EnrichedJob`, `GoldSession`, `LlmRouting`, `ConceptRanking`), Document | pass |
| `services` | `OntologyRegistry`, Services | pass |
| `text` | `MCText` (`SpanOverlap`, `TextChunks`, `Exports`), Text | pass |
| `chunk_offsets` | `MCChunks`, ChunkOffsets | violation of `ChunksIndexTheText` |

Deadlock is not checked where the system may really stop: a finished job whose
users are silent, a list at its end, a bound used up.

## 4. The post-job flow: `PostJobState`, `PostJobFlow`, `PushLedger`

`PostJobState` holds the post-job state of one job and the pure functions of
`flow.py` over it (`_reconcile`, `_queue`, `_heal_interrupted`,
`_settle_failed_job`, `_commit`'s revision), and the part of `JobStore.save`
that decides which post-job state is written (`_merge_post_job`).

`PostJobFlow` is one job, from the submission on. One job is enough: all state
of the flow is keyed by the job's id.

| Variable | Code |
|---|---|
| `store` | the job's file (status, post-job state) and its entry in `_POST_JOB_LATEST` |
| `pc`, `mem` | where the pipeline task is in `PipelineOrchestrator.run`, and its `Job` |
| `tasks`, `queued`, `in_flight`, `wire` | `_run_push_logged` tasks that have not started, `_queued`, `_in_flight`, calls that await insights |
| `snapshot` | what the worker thread of `count_active` has read and not written yet |
| `server` | running, dead, or between `fail_orphaned_jobs` and `recover_on_startup` |
| `accepted` | folio-insights has ingested the record (external) |
| `started`, `granted`, `choice`, `unsaved`, `used` | history: calls made, calls asked for by callers with annotation access, choices answered and choices answered with an error; how much of each bound is spent |

Each action is a whole handler or the code between two suspension points; the
header of the module lists what is simplified. A save that raises is an outcome
of every action that saves: the merge has happened by then, the file has not
changed. A crash may find the request already on the wire.

`PushLedger` is the abstract promise: one sender at most, a call only after its
record, success recorded only after ingestion and for good, no sender that
survives its process. `KeepsLedger` is the refinement: the ledger's record is what the
stored push status says (`PushRecord`), its sender is where the push is, from the
scheduled task over the call to the ingestion (`PushSender`).

The run `calls` has two overrides, a retry, a crash and a raising save, and the
defaults of review and push on. Two overrides are what it takes to turn a choice
off and on again, and a retry, a crash and a raising save may each fall between
any two other steps. It checks

* `PushesAccounted` (`_queued` is exact, no call without a grant,
  every call on record before it leaves, statuses that fit the job); `ChoiceStands`;
* `RevisionNeverRollsBack` and the refinement `KeepsLedger`;
* `NothingHangs` (a restart leaves nothing waiting for the dead process, a push
  in progress ends, a job comes out of `pending_job`) and `DuePushIsReported`.

Stale marking is off there: the write of the stale-marking thread undoes whatever
was saved since its read, and with it all of `PushesAccounted`, `ChoiceStands` and
`RevisionNeverRollsBack` fail for the reason that `stale_job_pushed` shows.
`OneCallOut` holds even then: `flow_stale_marking` checks it with stale marking and two
raising saves, and it is proved.

*Fairness* (`Fairness`): the pipeline task advances, scheduled push tasks
start, insights' call ends (the HTTP client has a timeout), a dead process is
started again and gets through its startup. The pipeline's fairness is on steps
that change `pc`: it may save any number of times in one place, and LLM calls
are bounded by their clients' timeouts. Users and folio-insights' ingestion owe
nothing.

## 5. Review of annotations: `AnnotationReview`, `MCReview`

| Variable | Code |
|---|---|
| `job` | the job's file: status, and annotations with state, dismissal, list of concepts (`concepts[0]` is the primary one) and the length of the lineage |
| `entries` | the files of `FeedbackStore`, one for an annotation that has one |
| `pc`, `mem`, `born` | where `PipelineOrchestrator.run` is, its `Job`, the uuids it gave out |
| `marking` | what threads of `count_active` have read of a stale job and will write back as failed |
| `follower` | one `stream_job_events` generator: what it has sent, whether it goes on |
| `told` | history: what edits after the run were answered |
| `edits`, `apart`, `used` | history: answered edits of an annotation; annotations whose feedback changed without them; bounds, and whether a user edited during the run |

The pipeline saves its whole copy after each stage. A stage is what it may do to
the list of annotations (`Extract`, `Reconcile`, `MatchSpans`, `Link`): any
choice of what is found, dropped, confirmed, absorbed. That is wider than the
matching code, and what holds of it holds whatever the matchers decide. A stage
that raises is skipped with its half-made changes in the copy. The routes load,
change and save without suspending, so each is one step; the rejections write the
feedback entries first and the job last, and a bulk rejection may stop between
two entries. `POST /feedback` takes the rating "dismissed" too, and leaves the
annotation as it is. `StaleRead` and `StaleWrite` are the thread that fails a job
which has not been saved for long: it reads the file and writes it later, without the
store's lock or rename, while the pipeline of that job goes on. When a job looks stale
is left open. `Restart` is a dead process and `fail_orphaned_jobs`.

The stages as `Enrichment` has them are among these: `EnrichedJob` maps it to this
module, and the mapping is proved to be a refinement (sections 7 and 11).

`AnswersStand`, `InsightsMatchJob` and `CompleteIsFinal` relate the two stores and
the client. Their exceptions are the code's:

* edits made while the pipeline runs are answered, and undone by its next save
  (`lost_edit`), or by a thread that read the file before them and marks the job
  after the run. The job is `Settled` when neither is left: `told` holds the edits
  since then only, and earlier edits set the annotation apart;
* a rejection or a restoration whose second write raises leaves the feedback
  store ahead of the job; a rating replaces the entry of a dismissal, or says
  "dismissed" of an annotation that is not; and deleting feedback leaves the
  dismissal: `apart`;
* a job that is marked stale while its pipeline runs sends `complete` with the
  status failed, and the pipeline goes on saving annotations, so `CompleteIsFinal` is
  about jobs that were never found stale (`used.marks`).

`review_safety` has two annotations, two edits, one raising save, one marking and one
word that resolves to three concepts; `lost_edit` needs one edit and no marking. Two
annotations are what a bulk request needs to stop halfway and a cascade to pass one
over; three concepts are what a promotion needs to take the wrong one; two edits let
one undo the other. With a third the state space passes ten million states; the
theorems of section 11 hold for any number. Ids are interchangeable, so the
`review_safety` run uses symmetry; both check invariants only.

## 6. The life of the ontology: `OwlCache`, `OwlUpdate`

`OwlCache` is the files of `owl_cache.py` and what each rename, write and save
does to them. `OwlUpdate` is the server around them: the startup, the periodic
check, the admin's check, apply and rollback, the pipeline runs that read the
ontology, the warm-up thread, GitHub, and crashes.

| Variable | Code |
|---|---|
| `remote` | the version GitHub serves (external); its number is its ETag and its hash |
| `disk` | `FOLIO.owl`, the backup, the file a rollback sets aside, the ETag in the metadata |
| `indexCache` | the saved embedding indexes: name (a hash) and the version embedded in them |
| `mem` | `FolioService`'s graph and labels, the index in memory |
| `status` | `OWLUpdateStatus`: `update_available`, `update_in_progress` |
| `upd` | where each `_do_apply`, `rollback` or startup is, with its local variables; a `pc` per file operation, request and rebinding |
| `probe` | the same of each `check_owl_freshness` |
| `reader` | the pipeline runs and the warm-up: whether `count_active` counts them, the labels being built; history: versions seen, whether the run began after the count |
| `overlapped` | history: somebody was reading while the last reload rebound fields |
| `count` | bounds spent |

An update does its blocking parts on worker threads, so between any two of its
file operations a check may save the metadata it has read before, a run may
start, and a first reader may load the graph (and download it: folio-python
writes a missing cache itself). `update_in_progress` is read and set without a
suspension; it keeps updates and rollbacks apart, and nothing else. A failure
(`Raise`) is possible at every request, write and load; a crash at every step.

Three properties are narrower than one would wish, because the code is:

* `EtagNotAhead` is claimed only until somebody rolls back: `rollback_owl`
  clears the ETag, but a check that has read the metadata before saves it back
  after, and then a 304 is believed of the older file. The update that follows a
  new release repairs it.
* `QuietReload` has two exceptions: `count_active` marks old jobs as failed and
  leaves their pipelines running, and nothing keeps a run from starting between
  the count and the reload.
* `MixOnlyUnderReload` is what remains of "one version per run": without a run or
  warm-up during the rebindings (labels first, graph last), no later run sees
  two, although labels are built from a graph read earlier and kept without a
  lock. `overlapped` falls when a reload begins with no reader.

`MemorySound` is the last two and `ReloadedIsCached`: from its last rebinding to its
end a reload leaves in memory what is on disk.

`owl_safety` has two versions, one job, the warm-up, the periodic task and an
admin, one rollback, one failure or crash, one poll; 4.3 million states.
`owl_progress` is that without warm-up and rollback: every update ends, and the
last version published arrives among the files (`UpdatesProgress`). Two versions
are the old and the new; a second release behind them would repeat the step from
one to two. One failure or crash is enough to leave files between two renames,
and the restart walks over them. One poll makes the count, the deferral and the
reload all possible; more polls only repeat the wait. One job and the warm-up are
two readers, what it takes for labels built by one to be kept under the other.

*Fairness*: worker threads and the event loop go on, requests to GitHub end (they
have timeouts), the periodic task comes round. Nothing is assumed of jobs, which
may run for ever, of the admin, or of GitHub. `UpdatesProgress` stops at "is among
the files": a deferred update is not loaded (section 10).

## 7. One document: `MCDocument`

### The stages: `ConceptStages`, `EntityStages`, `Enrichment`, `EnrichedJob`, `MCEnrichment`

`ConceptStages` and `EntityStages` are operators, one per step of a stage: the
exact and semantic rulers, what the LLM names, the merge of the two, reconciler
and triage, resolution, branch judge, string matching with its expansion of
alternative labels and its deduplication; individuals merged by overlap or name,
properties that yield to the longer one, triples linked to what touches or names
their parts. `Enrichment` runs them in the orchestrator's order.

| Variable | Code |
|---|---|
| `doc` | the document: which texts occur where, and what parsers, vectors and the LLM have to say of it (inputs) |
| `todo`, `pc`, `skipped` | the branches of `asyncio.gather` still to run, the stage that is next, the ones that raised |
| `anns` | `job.result.annotations` |
| `ruler`, `said`, `found`, `reconciled`, `resolved`, `tagged` | the metadata through which stages talk |
| `individuals`, `properties`, `triples`, `cited` | the job's lists of the same names |

A branch commits between two awaits, so what it commits at once is one step; the
entity ruler has two, before and after its embeddings. The branches come in every
order and one stage may raise, which is what it takes for a later stage to miss
what an earlier one should have left.

`ExactMatchesKept`, `NothingResolvedVanishes` and `OwnersKept` follow a concept
from the text to the last stage; `LinksResolve` says that no individual, property
or triple links to what is not in the job.

`EnrichedJob` ties the stages to the wider ones of `AnnotationReview`. It adds the one
variable that module has and a document's enrichment does not need, the ids ever given
(`born`, a history: no action reads it), and maps the rest:

| `AnnotationReview` | `EnrichedJob` |
|---|---|
| `mem`, `job` | `Copy`: `anns` as a list by id (`ListOf`), saved after each step |
| `pc` | `Phase`: resolution and judge come before the matching and change no annotation, individuals, properties and triples are linked after it |
| an annotation | `Seen`: its state and its one concept, confirmed by the string matching only |
| `entries`, `edits`, `told`, `follower`, `used` | as at the start: no user acts and no client follows |

`StagesAsReviewed` says of each step that it does to this list what `Extract`,
`Reconcile`, `MatchSpans`, or a stage that leaves annotations alone may do to it, with the
choices read off the outcome (which ids are new, which states were set): TLC would have to
enumerate the choices of the actions themselves, sets and functions over all ids that
occur. That it makes each step one of `AnnotationReview`'s is proved. Which concept is
preliminary, or confirmed inside a confirmed annotation, `Enrichment` does not say:
`Seen` adds it. The mapping has one save after each step; one that a branch leaves to
the next stage, or that fails, is the other choice of `AnnotationReview`'s `Stage`.

Occurrences of labels are nested or apart (`Laminar`); what becomes of matches that
cross is `SpanOverlap`'s. A parser gives each individual an id of its own and no link
(`DocsAssumption`). `Orders` sorts a set by counting what comes before each element,
and filters a list by the places to keep: definitions a proof can use.

The documents have four texts: a label inside a longer one and a second time
alone; an alternative label that is also a verb; one that is no label, with every
useful pair of answers of vector index and search; and one document of citations,
names and what the LLM reports of both.

### Ranking: `ConceptRanking`, `MCRanking`

Candidates of the label search and the library's search with decayed scores of
ancestors, excluded branches, the cut-offs, one concept or several, runners-up, and
then context, reranker and judge, which blend. Scores are percents; every list of
two of the library's results and every set of raw results over four concepts is
tried, with and without a hint, for a text whose IRI is known already and one whose
is not. Library and search are taken to answer: when the search raises, the single
concept falls back to a search by label (resolver.py:390-406) and the several have
no such fallback (resolver.py:323-328), so nothing is claimed then. `SingleIsFirst` compares two computations that are written apart;
`BackupsAreRunnersUp` says what config.py and the stage's docstring do of runners-up.

### Gold sessions: `GoldSession`, `MCGold`

| Variable | Code |
|---|---|
| `jobs` | the jobs on disk, as far as sessions need them |
| `sessions` | one session file each: candidates with their outcome, additions, blind segments and reveals, the record it validates |
| `jsonl`, `ann`, `manifest`, `bundles` | the record's files, the manifest, the bundle kept for retrieval |
| `torn` | history: records whose last export broke off |

Every request is one step (section 1, Atomicity), except an export, which may
break off between any two files. `Spoil` is the merge in the repository
that leaves a manifest that does not parse; `CleanUp` is `cleanup_expired` with the
jobs the gold store names as needed.

`BlindUntouched`, `ValidationIsSound`, `OpenSessionHasJob` and `ExportsAgree` hold
over any sequence of five requests of two sessions. Two sessions are needed for a second
validation of a record and for two exports under one name; five requests create,
name a segment, settle, undo and export; one fault breaks an export or spoils the
manifest. Of an export that broke off (`torn`) nothing is claimed until it is
repeated; a spoilt manifest is started anew, so entries may go but none may lie.
A reviewer may give a proposition without a place: the rows and the counts have it,
the brat file, which has nowhere to put it, does not, so `ExportsAgree` compares that
file with the rows that have a place (`WithPlace`).

### LLM routing: `LlmRouting`, `MCRouting`

`settings` are those all visitors share, `byok` whether visitors bring their own
keys, `routed` the answer to the last request: which client the request and each
task got. `PutSettings` is the visitor's and the admin's update;
`KeySet`, `Offered`, `Healthy` are what `/settings`, `/llm/providers` and `/health` show.
A key is only who gave it: nobody, the server, an admin, a visitor. A request looks a
name up after `Normalized` (a hyphen becomes an underscore, and the old name `lm_studio`
what it is now, orchestrator.py:307-309, enrich.py:88-90); the health route looks it
up as it is, in tables of its own (`Healthy`). Requests and updates name two
providers with keys and two without, two of them in other spellings too, one nobody
knows and one in capitals. `ShownKeysWork`, a part of `KeysStayApart`, therefore says
of health only that what it calls configured works, and the converse for a name
that is spelled as the provider's own; for other spellings the converse fails
(section 10). `KeysStayApart` and `ProviderChoiceStands` look at the answer to a
request after any sequence of updates; no action reads the answer, so one request
after each update is enough.

## 8. Shared services: `OntologyRegistry`, `OllamaServer`

`OntologyRegistry`:

| Variable | Code |
|---|---|
| `services`, `indexes`, `locks` | the registry's dictionaries; a service is the number of its build |
| `accessed`, `clock` | `_last_access`, the time of the last use (0: none), and the monotonic clock: a victim of an eviction was used least recently (the default is none, and its uses do not count) |
| `tables`, `rebind`, `versions` | the default's `_folio`, `_all_labels_cache`, `_all_labels_multi_cache`, each as the version of the graph it is of (0: not built, or forgotten); what a reload has still to rebind |
| `rulers` | the compiled rulers by ontology, each as the tables it was compiled from |
| `union` | the union's labels with the services they were taken from, and its ruler |
| `threads` | where each worker thread is, what it has read and what it builds |
| `seen` | history: what was in the tables, or in the union's labels, at some moment since a request for a ruler or the union |

Every access to what threads share is a step. A label table is built on demand and
without a lock (folio_service.py:620-743): look whether it is there (`FindTable`),
read it again to return it (`TakeTable`), or read the graph (`ReadGraph`), build,
store (`StoreTable`). So a table begun before a reload may be stored after it and
replace a newer one, and one that `Forget` clears, when the setting for translations
changes, between look and return is returned as nothing: an index build then fails
and is stored empty, any other request fails.

`CeilingHolds` is claimed when nobody is between storing a service and looking at the
ceiling. `RulerNotStale` cannot say that a ruler is of the newest graph, since the
tables need not be; it says that the caches add no age of their own: what is
handed out was compiled from tables each of which was in its field at some moment
since the request, the ruler of the union also from labels that were the union's or
its table's. That the tables only go on (`TablesOnlyGoOn`) and that the union is of a
current table (`UnionIsCurrent`) fails (section 10). `RequestsEnd` is the absence of a
lock that is never let go.

Two threads meet at every lock and at every table; three ontologies with one place
make every second request evict; two requests and one reload suffice for a table
stored late and for a ruler compiled in between.

`OllamaServer`: `handle` is `_managed_process`, `alive` our processes, `serving` who has
the port (external: one process at most; users may run their own), `calls` where each
route or the startup hook is between two awaits. Processes may exit, a download
may fail, the stream may end. `StopEndsOurs` excepts what a start beside a live process
of ours loses (`beside`, section 10). `CallsEnd` also says that a setup that reports
"complete" left out no model without having tried it: each that is required is
on this machine or its pull failed (`failed`, a history). That the user was told is not
claimed: a pull that raises is reported, one whose stream ends with an error line is
not (section 10). Two callers and three calls are a
start, a stop and a third that meets what they left; one look at a started
server makes both "answers" and "gives up" possible. Like the push its calls are tasks
of the event loop that wait for another server, and `MCCalls` checks both.

*Fairness*: every worker thread takes its next step, every call its next step
between awaits. Downloads, the server and processes owe nothing, so `CallsEnd`
stops at "waits for a download".

## 9. Text and files: `SpanOverlap`, `TextChunks`, `Exports`, `MCText`

**Spans.** Matches of labels in a text are sorted by start, longer first, and taken
one by one: a match that conflicts with no kept one is kept, otherwise the longer of
it and the first kept match it conflicts with. The pass exists twice:
`EntityRulerStage._dedupe_annotations` rescans all kept matches,
`AhoCorasickMatcher._resolve_overlaps` sweeps over the active ones only.
`SpanOverlap` runs both, a match per step, over any sorted list of up to four matches
with two labels over positions 0..5 (one span may occur with two labels, or
twice). `SweepIsRescan` says that they decide alike, `LongestKept` that a match
longer than all it conflicts with is kept. Two kept matches and a third that meets
one or both are what a conflict needs; the fourth may then cross what the third
replaced.

**Chunks.** `TextChunks` is `chunk_text`, sentence by sentence, the index of sentences,
and the identifiers that search a quote in a chunk and add the chunk's offset. Texts
are all of one to four sentences of one to five characters, with and without
separators, some said twice, cut at four characters with an overlap of two:
sentences shorter, as long as and longer than a chunk, and overlaps of none, one
and two sentences. `ChunksSound`: nothing of the text is left out or comes out of
order, chunks and overlaps are bounded, the index of sentences is exact. That the
chunks' offsets are right fails (`chunk_offsets`).

**Exports.** `Exports` says of fifteen formats which facts they state of a job, and
models the route that leaves dismissed annotations out unless asked and answers an
unknown format. A user may dismiss or restore between two exports. `FormatsAgree`:
who reads one format is told the same concepts of annotations, references and
linked triples as the reader of another (classes of individuals and propositions are
not compared). `RefersBack`: attributes, relations and notes of a
brat file are about text lines before them, and edges of a graph end in it; numbers go
on over loops that count for themselves. One line is excepted: the note on bridges
of a job of both ontologies, which is about T1 whether there is one or not
(section 10). `TagsNest`: the HTML page's tags nest when the
spans do (`Nested`: each opens once and closes once, later, and what opens inside
another closes inside it). The parts of a job are typed (`FinishedJobs`); spans are
integers, since what a chunk's offset moved may lie before or behind the text, and an
individual may be `renamed`, which is when brat writes a note. `JobsAssumption` adds
that links to individuals lead to individuals of the job, which `Enrichment` shows
of every finished document (`LinksLead`). Some 700 jobs: two annotations that are
nested, equal or apart, with no, one or two concepts, resolved or not; an individual
and properties that touch or cross them; a triple with links to each; propositions with
and without a place.

## 10. Known disagreements

Where code and documentation disagree, by a run that shows it:

1. `stale_job_pushed`. The worker thread of `count_active` overwrites a job that
   completed after it read it; the hook then pushes a job stored as failed
   ("A failed pipeline job gets neither.", flow.py:14).
2. `late_review`. A review turned on between the scheduling and the start of a
   push leaves the push `pending`, not waiting for the review (flow.py:10, 300).
3. `lost_edit`. An edit answered during the run is undone by the pipeline's next
   save, with its lineage (README.md:52).
4. `chunk_offsets`. The offsets of every chunk but the first are too low by one per
   cut, and may be negative (normalizer.py:152-158; the test
   test_sweep_u3_ingestion_robustness.py:176 has one chunk only).

Met while modelling and not run, because the property belongs to a passing module
whose other properties hold. Where it is a definition, TLC finds it violated:

* `ChoiceStands` with two raising saves (`MaxSaveFailures = 2`): one of the pipeline
  and one of an override bring a refused override back over an answered one
  (flow.py:18-21). One raising save cannot do that: proved.
* `NoneCross` (`SpanOverlap`): a match is decided by the first kept one it conflicts
  with, and what replaces it may cross another kept one.
* `UpToDateIsLoaded` (`OwlUpdate`): an update downloads and saves the ETag first and
  waits for the pipeline after. When it gives up ("deferred", owl_updater.py:124) the
  next check gets a 304 and clears `update_available`; nothing comes back to the file.
* `UnionIsCurrent` (`OntologyRegistry`): the "virtual union borrowing the registry's
  current resident ontology services" (union_service.py:1) keeps the labels of the old
  ontology after a reload, which replaces them inside the same object; so do the
  ruler compiled from them and the overlap index (overlap.py:108-117).
* `TablesOnlyGoOn` (`OntologyRegistry`): a label table is stored without a lock by
  whoever built it (folio_service.py:666, 739), so one built from the graph before a
  reload may replace the table the reload has published, and stays until the next
  reload. And one that is forgotten between the look and the return is returned as
  `None` (folio_service.py:628-629).
* `EveryMeaningTagged` (`Enrichment`): of two meanings resolved for one text the one
  tagged first is replaced (string_match_stage.py:226).
* `SingleIsFirst` (`ConceptRanking`) with `MaxCandidates = 1`; other values than 5 have
  the same cause: the single concept is searched among five (resolver.py:364), its
  runners-up among `max_candidates`, so a concept the hint prefers may be in one list only.
* `AmbiguousHaveBackups` (`ConceptRanking`): config.py:193-196 says backups are still
  computed for ambiguous concepts; by default no concept gets any, since each has
  an IRI by then.
* `ShownBelowPrimary` (`ConceptRanking`): no backup is to be "more confident than the
  chosen primary"; reranker and judge lower the primary only.
* Edges of a Neo4j export for triples may end at a concept that has no node
  (neo4j_exporter.py:138).
* A second start of the Ollama server while one of ours does not answer yet loses
  the handle of the first; a stop during the poll makes the start raise at
  manager.py:243. An error line in the stream of a pull is passed on as progress
  without its error (manager.py:292-309): the setup sends no `pull_error` for it and
  then `complete` (routes/ollama.py:75-89).
* The health route looks the provider up by its name as it is stored
  (health.py:95-121), requests normalize it (orchestrator.py:307-309): for
  `github-models` or `lm-studio` health says `no_api_key` though requests work.
* The brat file of a job of both ontologies has `#1 AnnotatorNotes T1` even when there
  is no T1, as when all annotations are dismissed and nothing else has a place (brat_exporter.py:109-110).
* An embedding index whose build failed is cached as empty (registry.py:225); the
  resolver's cache ignores confidence and IRI (resolver.py:83-87).
* A feedback entry that is updated leaves the copy inside the annotation as it was
  (feedback.py:52-60); a promotion is not sent to a client that already has the
  annotation, as the stream compares states only.

## 11. Proofs

`PostJobFlowProofs` begins with the operators of `PostJobState`: what each of them
returns, which of them keep the revision or the attempts, and that a merge
never goes back. It proves for every value of the constants

* `TypeCorrect`: `Spec => []TypeOK`;
* `NeverTwoCalls`: `Spec => []OneCallOut`. `OneCallOut` is inductive beside the
  types: every start is guarded by `_in_flight`, every end clears it.

And for every value of the constants with at most one raising save and no stale
marking (`OneFailure`),

* `RevisionsOnlyMoveOn`: `Spec => RevisionNeverRollsBack`. The property is not
  inductive. `StoreInv` relates the file, `_POST_JOB_LATEST` and the pipeline's
  copy: all revisions are below that of the latest; equal revisions mean equal
  states, except for the one save that raised; after a raising save only the
  latest may be ahead;
* `PushesAreAccounted` and `ChoicesStand`, from `PushInv`. After a raising save two
  states are held, the one in the file and the one in `_POST_JOB_LATEST`, and the
  next save of whoever may put the second in the place of the first. So what is
  claimed is claimed of every state in `Held` (`HeldSound`): calls made, tasks
  scheduled and a requested push that waits were all asked for, the attempts on
  record are no fewer than the calls, statuses fit the job, choices are answered
  or refused ones. `PipelineFits` says which status of the job goes with which
  place of the pipeline, `SenderFits` that queue, tasks and call exclude each
  other and none outlives the process;
* `FlowKeepsLedger`: `Spec => KeepsLedger`. A step is `Quiet` (it leaves the sender
  alone and moves the record as a user or the pipeline may) or one action of the
  ledger. `LateFits` is what a save needs that stores a state held back by an
  earlier failure: the record may move from the one in the file to that one;
* `OnlyCompletedJobsPushed` and `RestartsSettle`, of which the first is what
  `stale_job_pushed` violates.

Both halves of `OneFailure` are needed. `stale_job_pushed` is the counterexample
with stale marking. With two raising saves an override answered with an error
leaves its revision in memory; the save of a branch, which raises too, takes it over into
the pipeline's copy; a later override stores another state under that revision, and
the pipeline's next save, of equal revision, overwrites it (section 10). `StoreInv` and
`PushInv` were checked with TLC on the bounds of `calls` before they were
proved.

`TextProofs` proves of `SpanOverlap`, for lists of any length over any positions,

* `SweepDecidesAsRescan`: a retired match ends before every later start, so it
  cannot conflict with what is still to come (the invariant of the proof); the
  sweep asks all the others;
* `LongestMatchKept`: a match takes the place of a conflicting one only if it is
  longer, so an undisputed match gets a place and never loses it;

of `TextChunks`, for any texts, separators, limits and overlaps,

* `CutWithoutLoss`: `ChunksSound`, from `CutInv`. Of every two chunks that follow each
  other (`Followed`), and of the last chunk and the sentences at hand (`GoesOn`), one
  goes on where the other ended or shares with it no more than the overlap
  (`InOrder`); every chunk, and what is at hand, has `Room`. `RunIs` and `LengthIs` say
  what the texts and lengths of sentences i..j are, `KeptIs` what the search for the
  overlap returns, `IndexIs` that the index of sentences is exact, by what was read
  before each sentence;

and of `Exports`, for any finished jobs with lists of any length, from `ExportInv` (the
last answer is the export of the job as it is),

* `FilesAgree`: per format, what it says is what the others say (`RecordFormatsSay`,
  `OtherFormatsSay`) or a part of it (`Within`), over all that can be linked or
  dismissed;
* `FilesReferBack`: a brat file is written by folds of which every state is
  `SoundLines`: each line has a number below the next of its kind, is about text
  lines before it, and the first text line, if there is one, is T1 (`FirstIsOne`), which
  is what the note on bridges needs in a file that has any. A row, an individual or property, a relation and a proposition keep
  that (`RowKeepsSound`, `EntityKeepsSound`, `RelationKeepsSound`), and so does any list
  of them (`WrittenIsSound`). The edges of the graph are taken one kind at a time
  (`EdgesEndIn`, `TripleEndsIn`);
* `PagesNest`: the events of a page are sorted by `Precedes`, at each offset
  (`WovenAtIs`) and so in the whole (`WovenIsSorted`): in a list sorted like that, tags
  of spans that are nested or apart nest (`SortedNests`).

`AnnotationReviewProofs` proves, for any sets of annotations, concepts and
resolutions and any bounds,

* `ReviewTypeCorrect`;
* `AnsweredEditsStand`: `AnswersStand` is inductive with "until the job is settled
  nothing is told": that conjunct is what protects an answer from a later save. That
  a settled job stays settled is `Statuses`: after the run no status in progress is in
  the file, so no thread finds the job stale;
* `InsightsAgree`: needs that the pipeline's copy holds no dismissal, and that until
  the job is settled every entry that says so, and every dismissal a thread has read,
  is of an annotation set apart, since a save may erase or bring back the job's side;
* `LastEventStands`: `CompleteIsFinal` needs that the status leaves "enriching"
  with the save after the copy's last change, and that in the assessment file and
  copy hold the same annotations; the invariant is about jobs never found stale.

`OwlUpdateProofs` proves every safety property of `owl_safety`, for any number of
versions, jobs, checks, admins, polls, rollbacks, failures and crashes:

* `OntologyTypeCorrect`;
* `ControlHolds`, the invariant the others stand on: `OneAtATime` (at most one
  update, rollback or startup is under way, within its phases, and the flag says
  so), `InHand` (what the next rename needs is there) and `Loaded` (from its load
  on, an update holds what is on disk and its index is named after it). A first
  reader may write the cache, but only while no graph is loaded, and that is what
  `Loaded` excludes once the fields are rebound. `IndexFilesSound` is its
  consequence;
* `LastVersionKept`, from `InHand`: a cache moves away only into another file;
* `EtagsCanBeBelieved`, from `EtagInv`: an ETag that anybody holds, a check or an
  update, may be stored at any moment, so it must be no newer than the cache, than
  the version about to be installed, and than GitHub (`Storable`). Each step lets
  these only grow (`StorableStays`). The request for the file comes after the one
  for the ETag, which is why the file is never the older of the two;
* `MemoryStaysSound`, of three parts: `ReloadsAreCached` from `Loaded`;
  `ReloadsAreQuiet`, since a poll lets go of an update only when every counted run
  ended; `MixesOnlyUnderReload`, from `MixInv`: between the two rebindings nobody
  reads, and at all other times graph, labels, labels being built and everything
  seen are one version, or else `overlapped`.

`ControlInv`, `EtagInv` and `MixInv` were checked with TLC on the bounds of
`owl_safety` before they were proved.

`GoldSessionProofs` proves, for any jobs, records, sessions, requests and faults,

* `BlindStaysUntouched`, `ValidationStaysSound`, `OpenSessionsKeepTheirJob`, all from
  `GoldInv`: each session is `Fine` (blind candidates untouched, approvals those of
  the tool), a record has one open validation, an open session has its job. Every
  request changes one session, to one that is fine and `Follows` it: keeps job and
  record, and stays exported once it is. `OneChanges` shows once that such a step
  keeps the invariant; what is left of each request is that its session is fine. A
  request to validate a record goes back to its session that is not exported yet, if
  there is one, and the clean-up spares the jobs of all such sessions;
* `ExportsSayTheSame`, from `FilesInv`: sessions, rows, files and bundles are typed,
  and for every name that is not `torn` the rows on disk, the annotations beside
  them (of the propositions with a place) and the manifest's entry agree. An export writes files of its own name only
  and tears it with the first of them; it is whole again once its entry is
  written. That the entry agrees with the rows of the same session is `RowsAgree`: a
  row is a candidate, an addition, a lesson or the blind segment, each counted in its part
  (`FourParts`), and the picked rows name the same propositions in the same order
  as the candidates they come from (`PropositionSteps`).

`ListProofs` holds what several of the proofs need of lists of any length, which takes an
induction. The library's theorems for it are out of the prover's reach; `UpTo` takes
their place. It says of a *set* of numbers that it holds 0..n if it holds 0 and with
each number below n the next, and is proved from the least number that is missing. With
it, folds have intermediate results (`FoldExists`, `FoldValues`), the recursive
functions behind picking and joining exist (`PickedIs`, `FlattenIs`), and a list sorted by
`Orders` has each element once, in order (`RankedIs`, `RankedInOrder`).

`ServiceProofs` proves

* `StopsEndOurs`, for any callers, models, polls and calls, from `HandleInv`: as long
  as no process was spawned beside a live one, what is alive is what the handle is
  of. Most steps are quiet: they change the call only;
* `KeysAlwaysApart` and `ChosenProvidersOnly`, for any providers, tasks, updates and
  requests, from `RoutingInv`: where visitors bring their own keys, updates store none
  (`Stored`), and the clients of the last request carry keys of the request only.
  `ShownIsSo` proves that settings and provider list say of a key what a request
  meets, and what health says as far as `ShownKeysWork` claims it;
* `CeilingIsKept` and `RulersNeverStale`, for any ontologies, threads and reloads, from
  `RegistryInv`. A thread that has stored a service owes a look at the ceiling, and
  what it owes it keeps until it has looked (`OwesALook`); a look evicts before it
  lets go, and nobody else stores without owing. Nothing is assumed of the order in
  which tables are stored. `SeenOK` says that everybody who waits for an answer has in
  `seen` what is in the fields now, and that each table a thread has read it has
  seen in the field it is of (`Owned`); as `seen` only grows while a thread waits
  (`Watched`, `StillOwned`), this outlives whatever others store. `Placed` says how
  many tables a thread has read at each place. A cached ruler is handed out only if it
  equals what was read, so it has been seen as well.

`EnrichmentProofs` proves, for any vocabulary, any answers of vectors, search and LLM
and any document whose labels are nested or apart,

* `ExactMatchesStay`, `PrimaryLabelsStay`, `ResolvedIsCovered` and `LinksLead`, from
  `EnrichInv`;
* `StagesChangeAsReviewed`, an action property, and with it `StagesImplementReview`, a
  refinement: the enrichment of a document is a run of `AnnotationReview`.

A stage is a fold over a list, and the proof of each is the same in kind: `FoldExists`
and `FoldValues` turn `FoldLeft` into a sequence of intermediate results, of which one
fact is carried from one to the next. What they need of a sort is that it returns each
element once: in a finite set that is ordered every place is taken, by one element
(`Ranks`, `RankedIs`). `StringMatchedFacts` has the argument for
`NothingResolvedVanishes`: a match goes only for a longer one of the same concept around
it, so of all that cover an occurrence with this concept the one that lies in no other
stays (`Longest`: in a finite set there is one).

`EnrichInv` joins the properties with what they stand on. `BranchesInOrder`: the near
matches follow the exact ones of the same branch, when nothing but these is there.
`AnnotationsFresh`: up to the matching there is one annotation to a span, with the
text found there and no concept but its owner, if it has one; after it, ids are
given once. `IndividualsOwn`: individuals keep ids of their own through every merge,
and have no links until the LLM gives them some, which is after the last change of
annotations; with links any earlier, `LinksResolve` would fail, as `LinkFirst`
shows. `PartsLinked` says that of triples. `EnrichInv` was checked with TLC on the bounds
of `document` before it was proved.

The refinement needs `JobInv`, which adds to it that ids are given by kind and each kind
by one branch or stage (`IdsGiven`): what the rulers, the LLM and the matching
add has an id that was not given before, even when what had it is gone. `ByIdIs` turns a
set of annotations with ids of their own into a list by id; `FindsIs`, `SettlesIs`,
`ReplacesIs` and `QuietStep` say what a step makes of the list, `JobStep` goes through
the actions, and `FindsImplements`, `SettlesImplements`, `ReplacesImplements` and
`LeavesImplements` give the witnesses for `AnnotationReview`'s choices: a
stage that raises at the reconciliation sets each state to what it was, one at the
matching has nothing to match. `ReviewAssumptions` proves what `AnnotationReview` assumes of
its constants.

For the ranking it proves

* `RunnersUpStandBehind` and, for five candidates, `SingleHeadsSeveral`, from `RankInv`,
  for any ontology, scores, hints and gates. Every list on the way has each concept once
  (`Listed`), and filter, hint, cut and the join of both searches keep that.
  `HintFirstIs` says that the first of what is hinted at is both the best and the head.
  Five is the default of `max_candidates` and what `_fork_resolve` asks for whatever the
  setting is; `SingleIsFirst` fails for others (section 10).

The assumptions on the constants (`PostJobAssumption`, `FlowAssumption`,
`ReviewAssumption`, `AbsentAssumption`, `VersionAssumption`, `ActorsAssumption`,
`BoundsAssumption`, `GoldAssumption`, `RegistryAssumption`, `OllamaAssumption`,
`RoutingAssumption`, `RankingAssumption`, `ChunksAssumption`, `StagesAssumption`,
`DocsAssumption`, `UnknownAssumption`, `NamesAssumption`, `PropositionsAssumption`, `TextsAssumption`,
`JobsAssumption` and `InputsSorted`) are evaluated by TLC in every run of
the modules that state them.

*Only model-checked*: liveness (`NothingHangs`, `DuePushIsReported`, `UpdatesProgress`,
`RequestsEnd`, `CallsEnd`), which is out of the prover's reach. The theorems on the
flow's store carry their hypothesis (`OneFailure`) and `SingleHeadsSeveral` its five
candidates; what happens outside is in section 10.

## 12. Not modelled

* *Extractors, metadata, document type*: regular expressions, spaCy pipelines and
  prompts that take a text to values. They enter `Enrichment` as inputs; a model
  could only repeat the patterns.
* *Ingestion*: conversions of file formats by libraries. Its one effect on control,
  a text that cannot be read fails the job, is in `PostJobFlow`.
* *Rate limiter, authentication, other middleware*: a sliding window per address
  that no other state meets, and comparisons of headers.
* *The frontend*: one HTML file. Its part in the protocols is the environment of the
  models: it follows the stream, retries, dismisses.
* *Evaluation and maintenance scripts*: run by hand over finished files.
* *Concept details and browsing*: look-ups in a fixed ontology.

PROJECT.json says of every component what of it is modelled and what is left out.
