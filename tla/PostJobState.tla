---------------------------- MODULE PostJobState ----------------------------
(* The post-job state of one job and the pure functions of                   *)
(* services/post_job/flow.py over it, with the part of storage/job_store.py  *)
(* that decides which post-job state a save writes.                          *)
(*                                                                           *)
(* Abstracted: timestamps, the error text and the ingest report carried next *)
(* to push_status.  Kept: every status, the attempt counter, the revision.   *)
(*                                                                           *)
(* A definition marked "broken" is a defect put in the place of the one that *)
(* follows it, to see that the properties notice; no specification uses it.  *)
EXTENDS Integers

CONSTANTS NoPostJob,          \* Job.post_job is None: a job older than the flow
          ReviewDefault,      \* settings.post_job_review_default
          PushDefault         \* settings.post_job_push_default

ReviewStatuses == {"pending_job", "not_required", "awaiting_review", "completed"}
PushStatuses   == {"not_requested", "waiting_for_job", "waiting_for_review",
                   "pending", "pushed", "failed", "not_configured"}

PostJobStates == [review        : {"required", "skipped"},
                  push          : {"requested", "not_requested"},
                  review_status : ReviewStatuses,
                  push_status   : PushStatuses,
                  push_attempts : Nat,
                  revision      : Nat]

ASSUME PostJobAssumption == /\ NoPostJob \notin PostJobStates
                            /\ ReviewDefault \in BOOLEAN
                            /\ PushDefault \in BOOLEAN

JobStatuses == {"pending", "enriching", "completed", "failed"}
Terminal    == {"completed", "failed"}

Retryable == {"failed", "not_configured"}
Waiting   == {"not_requested", "waiting_for_job", "waiting_for_review"}

-----------------------------------------------------------------------------
(* Choices.  A request field is omitted, or answers yes or no. *)
Answers == {"omitted", "yes", "no"}

InitialState(review, push, push_allowed) ==
  LET reviewed == IF review = "omitted" THEN ReviewDefault ELSE review = "yes"
      pushed   == IF push = "omitted" THEN PushDefault /\ push_allowed
                                      ELSE push = "yes"
  IN [review        |-> IF reviewed THEN "required" ELSE "skipped",
      push          |-> IF pushed THEN "requested" ELSE "not_requested",
      review_status |-> "pending_job",
      push_status   |-> IF pushed THEN "waiting_for_job" ELSE "not_requested",
      push_attempts |-> 0,
      revision      |-> 0]

LegacyState == [review        |-> "skipped",
                push          |-> "not_requested",
                review_status |-> "not_required",
                push_status   |-> "not_requested",
                push_attempts |-> 0,
                revision      |-> 0]

EffectiveState(pj) == IF pj = NoPostJob THEN LegacyState ELSE pj

-----------------------------------------------------------------------------
(* _heal_interrupted and _settle_failed_job. *)
HealInterruptedAlways(s, in_flight) ==   \* broken: does not ask what is in flight
  IF s.push_status = "pending" THEN [s EXCEPT !.push_status = "failed"] ELSE s

HealInterrupted(s, in_flight) ==
  IF s.push_status = "pending" /\ ~in_flight
  THEN [s EXCEPT !.push_status = "failed"] ELSE s

SettleFailedJob(s) ==
  [s EXCEPT !.review_status = IF @ \in {"pending_job", "awaiting_review"}
                              THEN "not_required" ELSE @,
            !.push_status = IF @ \in {"waiting_for_job", "waiting_for_review"}
                            THEN "not_requested" ELSE @]

(* _reconcile: the statuses that fit the choices, before and after the job is *)
(* done, and whether a push is now due.                                       *)
ReconcileRunning(s) ==
  [s EXCEPT !.review_status = "pending_job",
            !.push_status =
              IF s.push = "requested"
              THEN IF @ \in {"not_requested", "waiting_for_review"}
                   THEN "waiting_for_job" ELSE @
              ELSE IF @ \in {"waiting_for_job", "waiting_for_review"}
                   THEN "not_requested" ELSE @]

ReviewStatusWhenDone(s) ==
  CASE s.review_status = "pending_job" ->
         IF s.review = "required" THEN "awaiting_review" ELSE "not_required"
    [] s.review = "required" /\ s.review_status = "not_required" -> "awaiting_review"
    [] s.review = "skipped" /\ s.review_status = "awaiting_review" -> "not_required"
    [] OTHER -> s.review_status

PushStatusWhenDone(s, review_status) ==
  CASE s.push # "requested" ->
         IF s.push_status \in {"waiting_for_job", "waiting_for_review"}
         THEN "not_requested" ELSE s.push_status
    [] s.push = "requested" /\ review_status = "awaiting_review" ->
         IF s.push_status \in Waiting THEN "waiting_for_review" ELSE s.push_status
    [] OTHER -> s.push_status

ReconcileDone(s) ==
  LET r == ReviewStatusWhenDone(s)
  IN [s EXCEPT !.review_status = r, !.push_status = PushStatusWhenDone(s, r)]

Reconcile(s, job_done) == IF job_done THEN ReconcileDone(s) ELSE ReconcileRunning(s)

\* What _reconcile returns, read off the state it leaves.
PushDue(s, job_done) == /\ job_done
                        /\ s.push = "requested"
                        /\ s.review_status # "awaiting_review"
                        /\ s.push_status \in Waiting

(* _reconcile followed by _queue: a due push is pending in the same save. *)
DecidedUnqueued(s, job_done) ==          \* broken: the decision is not in its save
  Reconcile(s, job_done)

Decided(s, job_done) ==
  LET t == Reconcile(s, job_done)
  IN IF PushDue(t, job_done) THEN [t EXCEPT !.push_status = "pending"] ELSE t

PushScheduled(s, job_done) == PushDue(Reconcile(s, job_done), job_done)

-----------------------------------------------------------------------------
(* JobStore: the job's file (status, post-job state) and _POST_JOB_LATEST for *)
(* its id.  merge is _merge_post_job: what save writes, and what it leaves in *)
(* _POST_JOB_LATEST and in the caller's job.                                  *)
Stores == [status : JobStatuses,
           pj     : PostJobStates \cup {NoPostJob},
           latest : PostJobStates \cup {NoPostJob}]

MergeKeepsCaller(latest, pj) ==          \* broken: the caller's copy always wins
  IF pj = NoPostJob THEN latest ELSE pj

MergePostJob(latest, pj) ==
  IF latest # NoPostJob /\ (pj = NoPostJob \/ pj.revision < latest.revision)
  THEN latest ELSE pj

\* A save that reaches the rename, and one that raises before it: the merge
\* has happened by then.
Saved(store, status, pj) ==
  LET m == MergePostJob(store.latest, pj)
  IN [status |-> status, pj |-> m, latest |-> m]

SaveRaised(store, pj) == [store EXCEPT !.latest = MergePostJob(@, pj)]

\* _commit: the job was just loaded, so its status is the stored one.
SameRevision(store, s) == s              \* broken: the revision is not bumped

NextRevision(store, s) ==
  LET held == EffectiveState(store.pj).revision
  IN [s EXCEPT !.revision = (IF s.revision > held THEN s.revision ELSE held) + 1]

Committed(store, s)    == Saved(store, store.status, NextRevision(store, s))
CommitRaised(store, s) == SaveRaised(store, NextRevision(store, s))
=============================================================================
