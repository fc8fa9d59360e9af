---------------------------- MODULE PostJobFlow ----------------------------
(* One job from submission to the end of its post-job flow: the pipeline     *)
(* task and its in-memory copy of the job, the review and push requests of   *)
(* users, the background push tasks, folio-insights at the other end, the    *)
(* worker thread that marks stale jobs, crashes and restarts.                *)
(*                                                                           *)
(* One job is enough: all state of the flow is keyed by the job id.  A step  *)
(* is the code between two suspension points of the event loop.  JobStore's  *)
(* coroutines never suspend, so every `async with _lock` block is one step   *)
(* and the lock is never found taken.                                        *)
(*                                                                           *)
(* Simplifications: every in-progress JobStatus is "enriching"; the age of a *)
(* job is not kept (any job in progress may be found stale); insights either *)
(* accepts the whole record or nothing; the job's file is always readable.   *)
EXTENDS PostJobState, FiniteSets

CONSTANTS MaxOverrides, MaxRetries,   \* bounds on PATCH and POST insights-push
          MaxCrashes,                 \* bound on process deaths
          MaxSaveFailures,            \* bound on saves that raise
          StaleMarking                \* whether count_active may find the job stale

ASSUME FlowAssumption == /\ MaxOverrides \in Nat /\ MaxRetries \in Nat
                         /\ MaxCrashes \in Nat /\ MaxSaveFailures \in Nat
                         /\ StaleMarking \in BOOLEAN

VARIABLES
  server,    \* "up", "down", or "booting": startup ran fail_orphaned_jobs only
  store,     \* the job's file and its entry of _POST_JOB_LATEST
  pc,        \* where the pipeline task is in PipelineOrchestrator.run
  mem,       \* the pipeline's in-memory job
  tasks,     \* scheduled _run_push_logged tasks that have not started
  queued,    \* the job id is in flow._queued
  in_flight, \* the job id is in flow._in_flight
  wire,      \* run_push calls that await insights
  snapshot,  \* what the stale-marking thread has read, or NoSnapshot
  used,      \* how much of each bound has been spent
  accepted,  \* insights has ingested the job's record
  started,   \* pushes handed to the HTTP client so far
  granted,   \* pushes asked for by callers with annotation access so far
  choice,    \* the choices of the last user request that was answered
  unsaved    \* the choices of requests answered 500 since then

system  == <<server, store, pc, mem, tasks, queued, in_flight, wire, snapshot>>
history == <<accepted, started, granted, choice, unsaved>>
vars    == <<system, used, history>>

NoJob      == [status |-> "none", pj |-> NoPostJob]  \* run() has returned
NoSnapshot == NoJob

PushInFlight == in_flight \/ queued          \* is_push_in_flight

ChoiceOf(s) == [review |-> s.review, push |-> s.push]

\* n more saves may raise.
CanRaise(n) == used.failures + n <= MaxSaveFailures
Raise(n)    == used' = [used EXCEPT !.failures = @ + n]

-----------------------------------------------------------------------------
(* POST /enrich has saved the job and started its pipeline, or the job is a   *)
(* completed one from before the flow existed.  An explicit push needs        *)
(* annotation access.                                                         *)
Requests  == {q \in [review : Answers, push : Answers, allowed : BOOLEAN] :
                q.push = "yes" => q.allowed}
Submitted == {InitialState(q.review, q.push, q.allowed) : q \in Requests}

Init ==
  /\ server = "up"
  /\ \/ \E s \in Submitted :
          /\ store = [status |-> "pending", pj |-> s, latest |-> s]
          /\ pc = "queued"
          /\ granted = (IF s.push = "requested" THEN 1 ELSE 0)
     \/ /\ store = [status |-> "completed", pj |-> NoPostJob, latest |-> NoPostJob]
        /\ pc = "done"
        /\ granted = 0
  /\ mem = IF pc = "done" THEN NoJob ELSE [status |-> store.status, pj |-> store.pj]
  /\ tasks = 0 /\ queued = FALSE /\ in_flight = FALSE /\ wire = {}
  /\ snapshot = NoSnapshot
  /\ used = [overrides |-> 0, retries |-> 0, crashes |-> 0, failures |-> 0]
  /\ accepted = FALSE /\ started = 0
  /\ choice = ChoiceOf(EffectiveState(store.pj)) /\ unsaved = {}

-----------------------------------------------------------------------------
(* The pipeline task: PipelineOrchestrator.run, _run_parallel, _run_flat.     *)

\* self.job_store.save(job) of the in-memory job, returning or raising.
SaveMem(status) ==
  /\ store' = Saved(store, status, mem.pj)
  /\ mem' = [status |-> status, pj |-> store'.pj]
  /\ UNCHANGED used

SaveMemRaises(status) ==
  /\ CanRaise(1) /\ Raise(1)
  /\ store' = SaveRaised(store, mem.pj)
  /\ mem' = [status |-> status, pj |-> store'.latest]

\* The last of n raising saves escapes run(): the task ends, its job is gone.
SaveRaisesOutOfRun(n) ==
  /\ CanRaise(n) /\ Raise(n)
  /\ store' = SaveRaised(store, mem.pj)
  /\ mem' = NoJob /\ pc' = "done"

PipelineOnly == UNCHANGED <<server, tasks, queued, in_flight, wire, snapshot, history>>

\* "Queued: waiting for a free pipeline slot".  This save is outside run()'s try.
SaveWhileQueued ==
  /\ server = "up" /\ pc = "queued"
  /\ \/ SaveMem("pending") /\ UNCHANGED pc
     \/ SaveRaisesOutOfRun(1)
  /\ PipelineOnly

\* Stages before COMPLETED: "reading" the text (ingestion, normalization), the
\* parallel "branches", the "post" stages.  A finished stage saves the job.
Following == [queued   |-> {"reading"},
              reading  |-> {"reading", "branches"},
              branches |-> {"branches", "post"},
              post     |-> {"post"}]

StageSave ==
  /\ server = "up" /\ pc \in DOMAIN Following
  /\ SaveMem("enriching")
  /\ pc' \in Following[pc]
  /\ PipelineOnly

\* Inside a parallel branch a raising save is logged and swallowed.
BranchSaveRaises ==
  /\ server = "up" /\ pc = "branches"
  /\ SaveMemRaises("enriching")
  /\ UNCHANGED pc /\ PipelineOnly

\* The outer except: FAILED and a save, after unreadable text or annotations
\* that do not validate when the branches are merged.  If that save raises
\* too, run() ends without the hook.
FailPipeline ==
  /\ server = "up" /\ pc \in {"queued", "reading", "branches"}
  /\ \/ SaveMem("failed") /\ pc' = "hook"
     \/ SaveRaisesOutOfRun(1)
  /\ PipelineOnly

\* The last stage is done: COMPLETED and a save.
FinishPipeline ==
  /\ server = "up" /\ pc = "post"
  /\ SaveMem("completed") /\ pc' = "aol"
  /\ PipelineOnly

\* Any other save up to COMPLETED that raises also reaches the outer except.
SaveRaisesFailsJob ==
  /\ server = "up" /\ pc \in DOMAIN Following
  /\ \/ /\ CanRaise(1) /\ Raise(1)
        /\ LET lost == SaveRaised(store, mem.pj)
           IN store' = Saved(lost, "failed", lost.latest)
        /\ mem' = [status |-> "failed", pj |-> store'.pj]
        /\ pc' = "hook"
     \/ SaveRaisesOutOfRun(2)
  /\ PipelineOnly

\* The area-of-law assessment, then the document-type check: an LLM call each,
\* then a save when there is something to save.
PostCompletionStep ==
  /\ server = "up" /\ pc \in {"aol", "doctype"}
  /\ \/ SaveMem("completed") \/ SaveMemRaises("completed")
     \/ UNCHANGED <<store, mem, used>>
  /\ pc' = IF pc = "aol" THEN "doctype" ELSE "hook"
  /\ PipelineOnly

-----------------------------------------------------------------------------
(* The hooks, on what is stored and not on the in-memory job.                 *)

\* schedule_push, called after the save when a push is due.
ScheduleNoTask(due) ==                   \* broken: the task is not created
  queued' = (queued \/ due) /\ UNCHANGED tasks

Schedule(due) == /\ tasks' = IF due THEN tasks + 1 ELSE tasks
                 /\ queued' = (queued \/ due)

HookCompleted ==
  /\ server = "up" /\ pc = "hook" /\ mem.status = "completed"
  /\ pc' = "done" /\ mem' = NoJob
  /\ IF mem.pj = NoPostJob \/ store.pj = NoPostJob
     THEN UNCHANGED <<store, tasks, queued, used>>
     ELSE \/ /\ store' = Committed(store, Decided(store.pj, TRUE))
             /\ Schedule(PushScheduled(store.pj, TRUE))
             /\ UNCHANGED used
          \/ /\ CanRaise(1) /\ Raise(1)
             /\ store' = CommitRaised(store, Decided(store.pj, TRUE))
             /\ UNCHANGED <<tasks, queued>>
  /\ UNCHANGED <<server, in_flight, wire, snapshot, history>>

HookFailed ==
  /\ server = "up" /\ pc = "hook" /\ mem.status = "failed"
  /\ pc' = "done" /\ mem' = NoJob
  /\ IF \/ mem.pj = NoPostJob \/ store.pj = NoPostJob
        \/ SettleFailedJob(store.pj) = store.pj
     THEN UNCHANGED <<store, used>>
     ELSE \/ /\ store' = Committed(store, SettleFailedJob(store.pj))
             /\ UNCHANGED used
          \/ /\ CanRaise(1) /\ Raise(1)
             /\ store' = CommitRaised(store, SettleFailedJob(store.pj))
  /\ PipelineOnly

-----------------------------------------------------------------------------
(* Requests of users.  A rejected request (404, 403, 409) changes nothing.    *)

Asked(c)     == /\ choice' = c /\ unsaved' = {}
AskedLost(c) == /\ unsaved' = unsaved \cup {c} /\ UNCHANGED choice

\* PATCH post-job: apply_override.
Chosen(s, review, push) ==
  [s EXCEPT !.review = CASE review = "yes" -> "required"
                         [] review = "no" -> "skipped"
                         [] OTHER -> @,
            !.push = CASE push = "yes" -> "requested"
                       [] push = "no" -> "not_requested"
                       [] OTHER -> @,
            !.push_status = IF push = "yes" /\ s.push # "requested" /\ @ \in Retryable
                            THEN "not_requested" ELSE @]

ApplyOverride(review, push, push_allowed) ==
  LET s         == HealInterrupted(EffectiveState(store.pj), PushInFlight)
      turned_on == push = "yes" /\ s.push # "requested"
      done      == store.status = "completed"
      chosen    == Chosen(s, review, push)
  IN /\ server = "up" /\ used.overrides < MaxOverrides
     /\ store.status # "failed"
     /\ turned_on => push_allowed
     /\ granted' = IF turned_on THEN granted + 1 ELSE granted
     /\ \/ /\ store' = Committed(store, Decided(chosen, done))
           /\ Schedule(PushScheduled(chosen, done))
           /\ used' = [used EXCEPT !.overrides = @ + 1]
           /\ Asked(ChoiceOf(chosen))
        \/ /\ CanRaise(1)
           /\ store' = CommitRaised(store, Decided(chosen, done))
           /\ used' = [used EXCEPT !.overrides = @ + 1, !.failures = @ + 1]
           /\ AskedLost(ChoiceOf(chosen))
           /\ UNCHANGED <<tasks, queued>>
     /\ UNCHANGED <<server, pc, mem, in_flight, wire, snapshot, accepted, started>>

\* POST review/complete: complete_review.  Idempotent when nothing awaits it.
CompleteReview ==
  LET s    == EffectiveState(store.pj)
      over == [s EXCEPT !.review_status = "completed"]
  IN /\ server = "up"
     /\ store.status = "completed" /\ s.review_status = "awaiting_review"
     /\ \/ /\ store' = Committed(store, Decided(over, TRUE))
           /\ Schedule(PushScheduled(over, TRUE))
           /\ Asked(ChoiceOf(s))
           /\ UNCHANGED used
        \/ /\ CanRaise(1) /\ Raise(1)
           /\ store' = CommitRaised(store, Decided(over, TRUE))
           /\ AskedLost(ChoiceOf(s))
           /\ UNCHANGED <<tasks, queued>>
     /\ UNCHANGED <<server, pc, mem, in_flight, wire, snapshot, accepted, started, granted>>

\* GET post-job: read_state reports an interrupted push.
ReadState ==
  LET s == HealInterrupted(store.pj, PushInFlight)
  IN /\ server = "up" /\ store.pj # NoPostJob /\ s # store.pj
     /\ \/ store' = Committed(store, s) /\ UNCHANGED used
        \/ CanRaise(1) /\ Raise(1) /\ store' = CommitRaised(store, s)
     /\ PipelineOnly /\ UNCHANGED <<pc, mem>>

-----------------------------------------------------------------------------
(* Pushes: run_push up to its await of insights, and what follows the answer. *)

\* The commit that precedes the HTTP call, on the store st.
Starting(st) == [EffectiveState(st.pj) EXCEPT !.push_status = "pending",
                                              !.push_attempts = @ + 1]

\* run_push got past its commit: the job id is in _in_flight, the call is out.
SendFrom(st, auto) ==
  /\ store' = Committed(st, Starting(st))
  /\ in_flight' = TRUE
  /\ wire' = wire \cup {[id |-> started + 1, auto |-> auto, delivered |-> FALSE]}
  /\ started' = started + 1

DropFrom(st) == /\ store' = CommitRaised(st, Starting(st))
                /\ in_flight' = FALSE
                /\ UNCHANGED <<wire, started>>

\* What run_push asks once it holds the lock.
MayStart == ~in_flight /\ EffectiveState(store.pj).review_status # "awaiting_review"

\* _run_push_logged starts: run_push(queued=True).
StartScheduledPush ==
  /\ server = "up" /\ tasks > 0
  /\ tasks' = tasks - 1 /\ queued' = FALSE
  /\ IF ~MayStart
     THEN UNCHANGED <<store, in_flight, wire, started, used>>
     ELSE \/ SendFrom(store, TRUE) /\ UNCHANGED used
          \/ CanRaise(1) /\ Raise(1) /\ DropFrom(store)
  /\ UNCHANGED <<server, pc, mem, snapshot, accepted, granted, choice, unsaved>>

\* POST insights-push (annotation access required): retry_push, whose commit is
\* followed by run_push(queued=False) without an await in between.
RetryPush ==
  LET s       == EffectiveState(store.pj)
      healed  == HealInterrupted(s, FALSE)
      wanted  == [healed EXCEPT !.push = "requested"]
      retried == Committed(store, wanted)
  IN /\ server = "up" /\ used.retries < MaxRetries
     /\ store.status = "completed" /\ s.review_status # "pending_job"
     /\ ~PushInFlight
     /\ healed.push_status \in Retryable /\ s.review_status # "awaiting_review"
     /\ granted' = granted + 1
     /\ \/ /\ SendFrom(retried, FALSE) /\ Asked(ChoiceOf(wanted))
           /\ used' = [used EXCEPT !.retries = @ + 1]
        \/ /\ CanRaise(1)
           /\ used' = [used EXCEPT !.retries = @ + 1, !.failures = @ + 1]
           /\ \/ DropFrom(retried) /\ Asked(ChoiceOf(wanted))
              \/ /\ store' = CommitRaised(store, wanted) /\ AskedLost(ChoiceOf(wanted))
                 /\ UNCHANGED <<in_flight, wire, started>>
     /\ UNCHANGED <<server, pc, mem, tasks, queued, snapshot, accepted>>

\* folio-insights ingests the record of a call in flight.
InsightsIngests ==
  /\ server = "up"
  /\ \E p \in wire :
       /\ ~p.delivered
       /\ wire' = (wire \ {p}) \cup {[p EXCEPT !.delivered = TRUE]}
  /\ accepted' = TRUE
  /\ UNCHANGED <<server, store, pc, mem, tasks, queued, in_flight, snapshot, used,
                 started, granted, choice, unsaved>>

AnswerUnmapped(p) ==                     \* broken: a connection state gets through
  IF p.delivered THEN {"pushed", "unreachable"} ELSE {"unreachable", "not_configured"}

\* PushResult.state: a lost answer, a timeout and an error are all "failed".
Answer(p) == IF p.delivered THEN {"pushed", "failed"} ELSE {"failed", "not_configured"}

Recorded(st, result) == [EffectiveState(st.pj) EXCEPT !.push_status = result]

LeaveMarked(p) == UNCHANGED <<in_flight, queued>>   \* broken: no finally

\* The finally blocks of run_push and, for a scheduled push, _run_push_logged.
LeaveFlight(p) == /\ in_flight' = FALSE
                  /\ queued' = IF p.auto THEN FALSE ELSE queued

\* The rest of run_push: _record_result, once more as "failed" when its save
\* raises.
PushAnswered ==
  /\ server = "up"
  /\ \E p \in wire : \E result \in Answer(p) :
       LET lost == CommitRaised(store, Recorded(store, result))
       IN /\ wire' = wire \ {p} /\ LeaveFlight(p)
          /\ \/ store' = Committed(store, Recorded(store, result)) /\ UNCHANGED used
             \/ CanRaise(1) /\ Raise(1) /\ store' = Committed(lost, Recorded(lost, "failed"))
             \/ CanRaise(2) /\ Raise(2) /\ store' = CommitRaised(lost, Recorded(lost, "failed"))
  /\ UNCHANGED <<server, pc, mem, tasks, snapshot, history>>

-----------------------------------------------------------------------------
(* count_active's worker thread: it reads a job in progress, finds it older    *)
(* than stale_job_timeout_minutes, and writes back what it read as failed.     *)
(* It runs beside the event loop, which may save the job in between.           *)
StaleRead ==
  /\ StaleMarking /\ server = "up" /\ snapshot = NoSnapshot
  /\ store.status = "enriching"
  /\ snapshot' = [status |-> "failed", pj |-> store.pj]
  /\ UNCHANGED <<server, store, pc, mem, tasks, queued, in_flight, wire, used, history>>

StaleWrite ==
  /\ server = "up" /\ snapshot # NoSnapshot
  /\ store' = [store EXCEPT !.status = snapshot.status, !.pj = snapshot.pj]
  /\ snapshot' = NoSnapshot
  /\ UNCHANGED <<server, pc, mem, tasks, queued, in_flight, wire, used, history>>

-----------------------------------------------------------------------------
(* Crashes lose everything in memory; a request on the wire may still arrive.  *)
Crash ==
  /\ server # "down" /\ used.crashes < MaxCrashes
  /\ used' = [used EXCEPT !.crashes = @ + 1]
  /\ server' = "down"
  /\ store' = [store EXCEPT !.latest = NoPostJob]
  /\ mem' = NoJob /\ pc' = "done"
  /\ tasks' = 0 /\ queued' = FALSE /\ in_flight' = FALSE /\ wire' = {}
  /\ snapshot' = NoSnapshot
  /\ \E arrives \in BOOLEAN : accepted' = (accepted \/ (arrives /\ wire # {}))
  /\ UNCHANGED <<started, granted, choice, unsaved>>

\* Startup, first JobStore.fail_orphaned_jobs ...
FailOrphan ==
  /\ server = "down" /\ server' = "booting"
  /\ store' = [store EXCEPT !.status = IF @ \in Terminal THEN @ ELSE "failed"]
  /\ UNCHANGED <<pc, mem, tasks, queued, in_flight, wire, snapshot, used, history>>

\* ... then recover_on_startup, and the server takes requests.
NeedsRecovery(s) == \/ s.push_status \in {"pending", "waiting_for_job"}
                    \/ s.review_status = "pending_job"

Recover ==
  /\ server = "booting" /\ server' = "up"
  /\ IF store.pj = NoPostJob \/ ~NeedsRecovery(EffectiveState(store.pj))
     THEN UNCHANGED <<store, tasks, queued, used>>
     ELSE LET healed  == HealInterrupted(store.pj, PushInFlight)
              settled == IF store.status = "failed" THEN SettleFailedJob(healed) ELSE healed
              swept   == IF settled = store.pj THEN store ELSE Committed(store, settled)
              resume  == store.status = "completed" /\ settled.review_status = "pending_job"
          IN \/ /\ store' = IF resume THEN Committed(swept, Decided(swept.pj, TRUE)) ELSE swept
                /\ Schedule(resume /\ PushScheduled(swept.pj, TRUE))
                /\ UNCHANGED used
             \/ /\ CanRaise(1) /\ Raise(1) /\ UNCHANGED <<tasks, queued>>
                /\ \/ settled # store.pj /\ store' = CommitRaised(store, settled)
                   \/ resume /\ store' = CommitRaised(swept, Decided(swept.pj, TRUE))
  /\ UNCHANGED <<pc, mem, in_flight, wire, snapshot, history>>

-----------------------------------------------------------------------------
Pipeline == \/ SaveWhileQueued \/ StageSave \/ BranchSaveRaises \/ FailPipeline
            \/ FinishPipeline \/ SaveRaisesFailsJob \/ PostCompletionStep
            \/ HookCompleted \/ HookFailed

User == \/ \E review, push \in Answers, allowed \in BOOLEAN : ApplyOverride(review, push, allowed)
        \/ CompleteReview \/ ReadState \/ RetryPush

Next == \/ Pipeline
        \/ User
        \/ StartScheduledPush \/ InsightsIngests \/ PushAnswered
        \/ StaleRead \/ StaleWrite
        \/ Crash \/ FailOrphan \/ Recover

Spec == Init /\ [][Next]_vars

(* Fairness: the event loop runs what is ready, LLM and HTTP calls end in a    *)
(* bounded time, a dead process is started again.  Users owe nothing.          *)
Fairness == /\ WF_vars(Pipeline /\ pc' # pc)
            /\ WF_vars(StartScheduledPush) /\ WF_vars(PushAnswered)
            /\ WF_vars(FailOrphan) /\ WF_vars(Recover)

FairSpec == Spec /\ Fairness
-----------------------------------------------------------------------------
(* Properties.  Current is the stored post-job state; a stored job without one *)
(* counts as the legacy default.                                               *)
Current == EffectiveState(store.pj)

TypeOK ==
  /\ server \in {"up", "down", "booting"}
  /\ store \in Stores
  /\ pc \in {"queued", "reading", "branches", "post", "aol", "doctype", "hook", "done"}
  /\ mem \in [status : JobStatuses \cup {"none"}, pj : PostJobStates \cup {NoPostJob}]
  /\ tasks \in Nat /\ queued \in BOOLEAN /\ in_flight \in BOOLEAN
  /\ \A p \in wire : p \in [id : Nat, auto : BOOLEAN, delivered : BOOLEAN]
  /\ snapshot \in {NoSnapshot} \cup [status : {"failed"}, pj : PostJobStates \cup {NoPostJob}]
  /\ used \in [overrides : Nat, retries : Nat, crashes : Nat, failures : Nat]
  /\ accepted \in BOOLEAN /\ started \in Nat /\ granted \in Nat
  /\ choice \in [review : {"required", "skipped"}, push : {"requested", "not_requested"}]
  /\ unsaved \subseteq [review : {"required", "skipped"}, push : {"requested", "not_requested"}]

(* One call to insights at most is out for the job, and _in_flight says so.    *)
(* Two triggers at once, stale markings and raising saves do not change that.  *)
OneCallOut == /\ Cardinality(wire) <= 1
              /\ in_flight <=> wire # {}

(* _queued is exact: set when, and only when, a scheduled task has yet to      *)
(* start, and then there is one.  On its word a retry is refused and a pending *)
(* push is not reported as interrupted.                                        *)
QueuedIsExact == tasks <= 1 /\ (queued <=> tasks = 1)

(* No record leaves for insights unless a caller with annotation access asked  *)
(* for that push: at submission, by turning push on, or by a retry.  Statuses, *)
(* overrides, hooks, crashes and recovery never add one of their own.          *)
NoPushWithoutGrant == started <= granted

(* A push is on record before it is on the wire, whatever saves raise later.   *)
EveryPushRecorded == Current.push_attempts >= started

(* What the statuses claim of the job is true of it.                           *)
StatusesFitTheJob ==
  /\ Current.review_status = "awaiting_review" =>
       store.status = "completed" /\ Current.review = "required"
  /\ Current.push_status = "waiting_for_review" =>
       Current.review_status = "awaiting_review" /\ Current.push = "requested"
  /\ Current.push_status = "waiting_for_job" =>
       Current.review_status = "pending_job" /\ Current.push = "requested"

(* Pushes are accounted for: what is scheduled, what was asked for, what is on *)
(* record and what the statuses claim agree with what has left and with the    *)
(* job, over crashes, retries and raising saves.                               *)
PushesAccounted ==
  QueuedIsExact /\ NoPushWithoutGrant /\ EveryPushRecorded /\ StatusesFitTheJob

(* The stored choices are those of the last answered request, or of a request  *)
(* answered 500 since: never those of an older copy of the job.                *)
ChoiceStands == ChoiceOf(Current) \in {choice} \cup unsaved

(* JobStore.save and the commits of the flow only move the stored state on:    *)
(* a revision is never undone, and never stands for two states.                *)
RevisionNeverRollsBack ==
  [][/\ EffectiveState(store'.pj).revision >= Current.revision
     /\ EffectiveState(store'.pj).revision = Current.revision => store'.pj = store.pj]_store

(* A push starts only for a job stored as completed, whose review is not       *)
(* outstanding: a failed pipeline job gets no push.                            *)
PushOnlyForCompletedJob ==
  [][started' > started => /\ store.status = "completed"
                           /\ Current.review_status \in {"not_required", "completed"}]_vars

(* Startup leaves nothing waiting for a process that died: unless a save       *)
(* raised, a pending push has its task and no status waits for the job.        *)
RestartSettles ==
  [][server = "booting" /\ server' = "up" /\ used' = used =>
       LET s == EffectiveState(store'.pj)
       IN /\ s.push_status = "pending" => queued'
          /\ s.push_status # "waiting_for_job" /\ s.review_status # "pending_job"
          /\ store'.status = "failed" => s.push_status \notin {"pending", "waiting_for_review"}
    ]_vars

(* The retry route never stays closed: a push in progress ends.                *)
PushEnds == PushInFlight ~> ~PushInFlight

(* Every job comes out of pending_job, by its hook, its failure or a restart,  *)
(* as long as no save raises.                                                  *)
HookReached ==
  Current.review_status = "pending_job" ~>
    (Current.review_status # "pending_job" \/ used.failures > 0)

(* Neither a push nor a job that waits for its hook stays for ever as it is,   *)
(* and a start of the process leaves none behind.                              *)
NothingHangs == RestartSettles /\ PushEnds /\ HookReached

(* A push that is due (job completed, push requested, no review outstanding)   *)
(* comes to a result or to a state that reads report as interrupted, unless it *)
(* stops being due.                                                            *)
Due == /\ store.status = "completed" /\ Current.push = "requested"
       /\ Current.review_status \in {"not_required", "completed"}
Reported == \/ Current.push_status \in {"pushed", "failed", "not_configured"}
            \/ Current.push_status = "pending" /\ ~PushInFlight
DuePushIsReported == Due ~> (Reported \/ ~Due)

(* What the ledger calls the record and the sender of the job's push.          *)
RecordOf(s) == CASE s.push_status \in Waiting   -> "idle"
                 [] s.push_status \in Retryable -> "failed"
                 [] OTHER -> s.push_status

PushRecord == RecordOf(Current)

PushSender == CASE \E p \in wire : p.delivered -> "ingested"
                [] wire # {} /\ \A p \in wire : ~p.delivered -> "calling"
                [] wire = {} /\ tasks > 0 -> "scheduled"
                [] OTHER -> "none"

(* The flow keeps the ledger's promises about its push.                        *)
Ledger == INSTANCE PushLedger WITH
  record <- PushRecord, sender <- PushSender, ingested <- accepted

KeepsLedger == Ledger!LedgerSpec

(* flow.py: "When both are on, the push waits for the review."                 *)
PushWaitsForReview ==
  /\ Current.push = "requested" /\ Current.review_status = "awaiting_review"
  /\ Current.push_attempts = 0 /\ server = "up" /\ ~PushInFlight
  => Current.push_status = "waiting_for_review"

=============================================================================
