------------------------- MODULE PostJobFlowProofs -------------------------
(* What the operators of PostJobState return, keep and order, and what holds   *)
(* of PostJobFlow for every bound on requests, crashes and saves that raise.   *)
EXTENDS PostJobFlow, FiniteSetTheorems, TLAPS

-----------------------------------------------------------------------------
(* The operators of PostJobState.                                              *)

(* A record built from s leaves its revision alone. *)
SameRevisionAs(t, s) == t \in PostJobStates /\ t.revision = s.revision

LEMMA LegacyType == LegacyState \in PostJobStates
  BY DEF LegacyState, PostJobStates, ReviewStatuses, PushStatuses

LEMMA EffectiveType ==
  ASSUME NEW pj \in PostJobStates \cup {NoPostJob}
  PROVE  EffectiveState(pj) \in PostJobStates
  BY LegacyType DEF EffectiveState

LEMMA InitialType ==
  ASSUME NEW r \in Answers, NEW p \in Answers, NEW a \in BOOLEAN
  PROVE  InitialState(r, p, a) \in PostJobStates
  BY DEF InitialState, PostJobStates, ReviewStatuses, PushStatuses

LEMMA HealKeeps ==
  ASSUME NEW s \in PostJobStates, NEW b \in BOOLEAN
  PROVE  SameRevisionAs(HealInterrupted(s, b), s)
  BY DEF HealInterrupted, SameRevisionAs, PostJobStates, PushStatuses

LEMMA SettleKeeps ==
  ASSUME NEW s \in PostJobStates
  PROVE  SameRevisionAs(SettleFailedJob(s), s)
  BY DEF SettleFailedJob, SameRevisionAs, PostJobStates, PushStatuses, ReviewStatuses

LEMMA ReviewWhenDoneType ==
  ASSUME NEW s \in PostJobStates
  PROVE  ReviewStatusWhenDone(s) \in ReviewStatuses
  BY DEF ReviewStatusWhenDone, PostJobStates, ReviewStatuses

LEMMA PushWhenDoneType ==
  ASSUME NEW s \in PostJobStates, NEW r \in ReviewStatuses
  PROVE  PushStatusWhenDone(s, r) \in PushStatuses
  BY DEF PushStatusWhenDone, PostJobStates, PushStatuses, Waiting

LEMMA ReconcileKeeps ==
  ASSUME NEW s \in PostJobStates, NEW done \in BOOLEAN
  PROVE  SameRevisionAs(Reconcile(s, done), s)
<1>1. SameRevisionAs(ReconcileRunning(s), s)
  BY DEF ReconcileRunning, SameRevisionAs, PostJobStates, PushStatuses, ReviewStatuses
<1>2. SameRevisionAs(ReconcileDone(s), s)
  BY ReviewWhenDoneType, PushWhenDoneType
     DEF ReconcileDone, SameRevisionAs, PostJobStates
<1>3. QED  BY <1>1, <1>2 DEF Reconcile

LEMMA DecidedKeeps ==
  ASSUME NEW s \in PostJobStates, NEW done \in BOOLEAN
  PROVE  SameRevisionAs(Decided(s, done), s)
<1> DEFINE t == Reconcile(s, done)
<1>1. SameRevisionAs(t, s)  BY ReconcileKeeps
<1>2. SameRevisionAs([t EXCEPT !.push_status = "pending"], s)
  BY <1>1 DEF SameRevisionAs, PostJobStates, PushStatuses
<1>3. QED  BY <1>1, <1>2 DEF Decided

LEMMA AttemptKeeps ==
  ASSUME NEW s \in PostJobStates
  PROVE  SameRevisionAs([s EXCEPT !.push_status = "pending", !.push_attempts = @ + 1], s)
<1>1. s.push_attempts + 1 \in Nat  BY DEF PostJobStates
<1>2. QED  BY <1>1 DEF SameRevisionAs, PostJobStates, PushStatuses

LEMMA NextRevisionGrows ==
  ASSUME NEW st \in Stores, NEW s,
         SameRevisionAs(s, EffectiveState(st.pj))
  PROVE  /\ NextRevision(st, s) \in PostJobStates
         /\ NextRevision(st, s).revision = EffectiveState(st.pj).revision + 1
<1>1. EffectiveState(st.pj) \in PostJobStates  BY EffectiveType DEF Stores
<1>2. QED  BY <1>1 DEF NextRevision, SameRevisionAs, PostJobStates

LEMMA MergeType ==
  ASSUME NEW latest \in PostJobStates \cup {NoPostJob},
         NEW pj \in PostJobStates \cup {NoPostJob}
  PROVE  MergePostJob(latest, pj) \in PostJobStates \cup {NoPostJob}
  BY DEF MergePostJob

LEMMA SavedType ==
  ASSUME NEW st \in Stores, NEW status \in JobStatuses,
         NEW pj \in PostJobStates \cup {NoPostJob}
  PROVE  /\ Saved(st, status, pj) \in Stores
         /\ SaveRaised(st, pj) \in Stores
         /\ SaveRaised(st, pj).status = st.status
         /\ SaveRaised(st, pj).pj = st.pj
  BY MergeType DEF Saved, SaveRaised, Stores

LEMMA CommitType ==
  ASSUME NEW st \in Stores, NEW s, SameRevisionAs(s, EffectiveState(st.pj))
  PROVE  /\ Committed(st, s) \in Stores
         /\ CommitRaised(st, s) \in Stores
         /\ CommitRaised(st, s).status = st.status
         /\ CommitRaised(st, s).pj = st.pj
<1>1. NextRevision(st, s) \in PostJobStates  BY NextRevisionGrows
<1>2. st.status \in JobStatuses  BY DEF Stores
<1>3. QED  BY <1>1, <1>2, SavedType DEF Committed, CommitRaised
-----------------------------------------------------------------------------
(* What the operators do to the fields a caller can see. *)

(* t is s but for the revision. *)
Alike(t, s) == /\ t \in PostJobStates
               /\ t.review = s.review /\ t.push = s.push
               /\ t.review_status = s.review_status
               /\ t.push_status = s.push_status
               /\ t.push_attempts = s.push_attempts

(* The choices and the attempts are those of s. *)
KeepsChoices(t, s) == /\ t \in PostJobStates
                      /\ t.review = s.review /\ t.push = s.push
                      /\ t.push_attempts = s.push_attempts

(* A push that waits goes on waiting, any other has the status it had. *)
KeepsPush(t, s) == \/ t.push_status = s.push_status
                   \/ t.push_status \in Waiting /\ s.push_status \in Waiting

(* What a status claims of a job with that status. *)
Fits(s, status) ==
  /\ s.review_status = "awaiting_review" => status = "completed" /\ s.review = "required"
  /\ s.push_status = "waiting_for_review" =>
       s.review_status = "awaiting_review" /\ s.push = "requested"
  /\ s.push_status = "waiting_for_job" =>
       s.review_status = "pending_job" /\ s.push = "requested"

LEMMA NextRevisionAlike ==
  ASSUME NEW st \in Stores, NEW s,
         SameRevisionAs(s, EffectiveState(st.pj))
  PROVE  Alike(NextRevision(st, s), s)
<1>1. NextRevision(st, s) \in PostJobStates  BY NextRevisionGrows
<1>2. s \in PostJobStates  BY DEF SameRevisionAs
<1>3. QED  BY <1>1, <1>2 DEF NextRevision, Alike, PostJobStates

(* The decision after the job is done: it waits for nothing but the review,    *)
(* and a push that is due is pending.                                          *)
LEMMA DecidedWhenDone ==
  ASSUME NEW s \in PostJobStates
  PROVE  LET d == Decided(s, TRUE)
         IN /\ KeepsChoices(d, s) /\ Fits(d, "completed")
            /\ d.review_status # "pending_job" /\ d.push_status # "waiting_for_job"
            /\ IF PushScheduled(s, TRUE)
               THEN /\ s.push = "requested" /\ s.push_status \in Waiting
                    /\ d.push_status = "pending"
                    /\ d.review_status # "awaiting_review"
               ELSE KeepsPush(d, s)
<1> DEFINE r == ReviewStatusWhenDone(s)
           p == PushStatusWhenDone(s, r)
           t == Reconcile(s, TRUE)
           d == Decided(s, TRUE)
<1>1. r \in ReviewStatuses /\ p \in PushStatuses
  BY ReviewWhenDoneType, PushWhenDoneType
<1>2. t = [s EXCEPT !.review_status = r, !.push_status = p]
  BY DEF Reconcile, ReconcileDone
<1>3. r # "pending_job" /\ (r = "awaiting_review" => s.review = "required")
  BY DEF ReviewStatusWhenDone, PostJobStates
<1>4. /\ s.push # "requested" => p \notin {"waiting_for_job", "waiting_for_review"}
      /\ r = "awaiting_review" => p # "waiting_for_job"
      /\ p = s.push_status \/ (p \in Waiting /\ s.push_status \in Waiting)
      /\ p \in Waiting => s.push_status \in Waiting
      /\ s.push = "requested" /\ p \in Waiting /\ r = "awaiting_review" => p = "waiting_for_review"
  BY DEF PushStatusWhenDone, Waiting
<1>5. /\ t \in PostJobStates /\ t.review = s.review /\ t.push = s.push
      /\ t.push_attempts = s.push_attempts
      /\ t.review_status = r /\ t.push_status = p
  BY <1>1, <1>2 DEF PostJobStates
<1>6. PushScheduled(s, TRUE) <=> s.push = "requested" /\ r # "awaiting_review" /\ p \in Waiting
  BY <1>5 DEF PushScheduled, PushDue
<1> HIDE DEF r, p, t
<1>7. CASE PushScheduled(s, TRUE)
  <2>1. d = [t EXCEPT !.push_status = "pending"]
    BY <1>7 DEF Decided, PushScheduled, t
  <2>2. /\ d \in PostJobStates /\ d.review = t.review /\ d.push = t.push
        /\ d.push_attempts = t.push_attempts
        /\ d.review_status = t.review_status /\ d.push_status = "pending"
    BY <2>1, <1>5 DEF PostJobStates, PushStatuses
  <2> HIDE DEF d
  <2>3. KeepsChoices(d, s)  BY <2>2, <1>5 DEF KeepsChoices
  <2>4. Fits(d, "completed")  BY <2>2, <1>5, <1>3 DEF Fits
  <2>5. QED  BY <2>2, <2>3, <2>4, <1>3, <1>4, <1>5, <1>6, <1>7 DEF d
<1>8. CASE ~PushScheduled(s, TRUE)
  <2>1. d = t  BY <1>8 DEF Decided, PushScheduled, t
  <2> HIDE DEF d
  <2>2. KeepsChoices(d, s) /\ KeepsPush(d, s)
    BY <2>1, <1>4, <1>5 DEF KeepsChoices, KeepsPush
  <2>3. d.push_status # "waiting_for_job"
    BY <2>1, <1>4, <1>5, <1>6, <1>8 DEF Waiting
  <2>4. d.push_status = "waiting_for_review" => r = "awaiting_review" /\ s.push = "requested"
    BY <2>1, <1>4, <1>5, <1>6, <1>8 DEF Waiting
  <2>5. Fits(d, "completed")  BY <2>1, <2>3, <2>4, <1>3, <1>5 DEF Fits
  <2>6. QED  BY <2>1, <2>2, <2>3, <2>5, <1>3, <1>5, <1>8 DEF d
<1>9. QED  BY <1>7, <1>8

(* Before that, both statuses wait for the job. *)
LEMMA DecidedWhileRunning ==
  ASSUME NEW s \in PostJobStates, NEW status
  PROVE  LET d == Decided(s, FALSE)
         IN /\ KeepsChoices(d, s) /\ Fits(d, status) /\ KeepsPush(d, s)
            /\ ~PushScheduled(s, FALSE)
<1>1. ~PushScheduled(s, FALSE) /\ Decided(s, FALSE) = ReconcileRunning(s)
  BY DEF PushScheduled, PushDue, Decided, Reconcile
<1>2. KeepsChoices(ReconcileRunning(s), s) /\ KeepsPush(ReconcileRunning(s), s)
  BY DEF ReconcileRunning, KeepsChoices, KeepsPush, PostJobStates, PushStatuses,
         ReviewStatuses, Waiting
<1>3. Fits(ReconcileRunning(s), status)
  BY DEF ReconcileRunning, Fits, PostJobStates, PushStatuses
<1>4. QED  BY <1>1, <1>2, <1>3

(* A failed job leaves nothing to wait for. *)
LEMMA SettledState ==
  ASSUME NEW s \in PostJobStates, NEW status
  PROVE  LET d == SettleFailedJob(s)
         IN /\ KeepsChoices(d, s) /\ KeepsPush(d, s) /\ Fits(d, status)
            /\ d.review_status \notin {"pending_job", "awaiting_review"}
            /\ d.push_status \notin {"waiting_for_job", "waiting_for_review"}
<1>1. KeepsChoices(SettleFailedJob(s), s) /\ KeepsPush(SettleFailedJob(s), s)
  BY DEF SettleFailedJob, KeepsChoices, KeepsPush, PostJobStates, PushStatuses,
         ReviewStatuses, Waiting
<1>2. /\ SettleFailedJob(s).review_status \notin {"pending_job", "awaiting_review"}
      /\ SettleFailedJob(s).push_status \notin {"waiting_for_job", "waiting_for_review"}
  BY DEF SettleFailedJob, PostJobStates
<1>3. QED  BY <1>1, <1>2 DEF Fits

(* An interrupted push becomes a failed one; nothing else changes. *)
LEMMA HealedState ==
  ASSUME NEW s \in PostJobStates, NEW b \in BOOLEAN
  PROVE  LET d == HealInterrupted(s, b)
         IN /\ KeepsChoices(d, s) /\ d.review_status = s.review_status
            /\ IF s.push_status = "pending" /\ ~b THEN d.push_status = "failed" ELSE d = s
  BY DEF HealInterrupted, KeepsChoices, PostJobStates, PushStatuses

-----------------------------------------------------------------------------
USE PostJobAssumption, FlowAssumption

-----------------------------------------------------------------------------
(* Types, one part of the state at a time. *)

StoreType == store \in Stores
MemType   == /\ mem \in [status : JobStatuses \cup {"none"}, pj : PostJobStates \cup {NoPostJob}]
             /\ pc \in {"queued", "reading", "branches", "post", "aol", "doctype", "hook", "done"}

LEMMA SaveMemTypes ==
  ASSUME StoreType, MemType, NEW status \in JobStatuses,
         SaveMem(status) \/ SaveMemRaises(status)
  PROVE  /\ StoreType'
         /\ mem' \in [status : JobStatuses, pj : PostJobStates \cup {NoPostJob}]
<1>1. mem.pj \in PostJobStates \cup {NoPostJob}  BY DEF MemType
<1>2. StoreType'
  BY <1>1, SavedType DEF SaveMem, SaveMemRaises, StoreType
<1>3. store'.pj \in PostJobStates \cup {NoPostJob} /\ store'.latest \in PostJobStates \cup {NoPostJob}
  BY <1>2 DEF StoreType, Stores
<1>4. QED  BY <1>2, <1>3 DEF SaveMem, SaveMemRaises

LEMMA CommitsType ==
  ASSUME StoreType, NEW s, SameRevisionAs(s, EffectiveState(store.pj)),
         store' = Committed(store, s) \/ store' = CommitRaised(store, s)
  PROVE  StoreType'
  BY CommitType DEF StoreType

(* Commits of states the flow derives from what is stored. *)
LEMMA FlowStates ==
  ASSUME NEW st \in Stores, NEW b \in BOOLEAN, NEW done \in BOOLEAN,
         NEW review \in Answers, NEW push \in Answers,
         NEW result \in {"pushed", "failed", "not_configured"}
  PROVE  LET s == EffectiveState(st.pj)
             h == HealInterrupted(s, b)
         IN /\ SameRevisionAs(s, s)
            /\ SameRevisionAs(h, s)
            /\ SameRevisionAs(Decided(s, done), s)
            /\ SameRevisionAs(SettleFailedJob(s), s)
            /\ SameRevisionAs(SettleFailedJob(h), s)
            /\ SameRevisionAs(Chosen(h, review, push), s)
            /\ SameRevisionAs(Decided(Chosen(h, review, push), done), s)
            /\ SameRevisionAs(Decided([s EXCEPT !.review_status = "completed"], TRUE), s)
            /\ SameRevisionAs([h EXCEPT !.push = "requested"], s)
            /\ SameRevisionAs(Starting(st), s)
            /\ SameRevisionAs(Recorded(st, result), s)
<1> DEFINE s == EffectiveState(st.pj)
           h == HealInterrupted(s, b)
           c == Chosen(h, review, push)
<1>1. s \in PostJobStates  BY EffectiveType DEF Stores
<1>2. SameRevisionAs(s, s)  BY <1>1 DEF SameRevisionAs
<1>3. SameRevisionAs(h, s)  BY <1>1, HealKeeps
<1>4. SameRevisionAs(Decided(s, done), s)  BY <1>1, DecidedKeeps
<1>5. SameRevisionAs(SettleFailedJob(s), s)  BY <1>1, SettleKeeps
<1>6. SameRevisionAs(SettleFailedJob(h), s)  BY <1>3, SettleKeeps DEF SameRevisionAs
<1>7. SameRevisionAs(c, s)
  BY <1>1, <1>3 DEF Chosen, SameRevisionAs, PostJobStates, PushStatuses
<1>8. SameRevisionAs(Decided(c, done), s)
  BY <1>7, DecidedKeeps DEF SameRevisionAs
<1>9. SameRevisionAs([s EXCEPT !.review_status = "completed"], s)
  BY <1>1 DEF SameRevisionAs, PostJobStates, ReviewStatuses
<1>10. SameRevisionAs(Decided([s EXCEPT !.review_status = "completed"], TRUE), s)
  BY <1>9, DecidedKeeps DEF SameRevisionAs
<1>11. SameRevisionAs([h EXCEPT !.push = "requested"], s)
  BY <1>3 DEF SameRevisionAs, PostJobStates
<1>12. SameRevisionAs(Starting(st), s)  BY <1>1, AttemptKeeps DEF Starting
<1>13. SameRevisionAs(Recorded(st, result), s)
  BY <1>1 DEF Recorded, SameRevisionAs, PostJobStates, PushStatuses
<1>14. QED  BY <1>2, <1>3, <1>4, <1>5, <1>6, <1>7, <1>8, <1>10, <1>11, <1>12, <1>13

LEMMA FlowPair ==
  ASSUME NEW st \in Stores, NEW b \in BOOLEAN, NEW done \in BOOLEAN
  PROVE  LET s == EffectiveState(st.pj)
         IN /\ SameRevisionAs(HealInterrupted(s, b), s)
            /\ SameRevisionAs(Decided(s, done), s)
            /\ SameRevisionAs(SettleFailedJob(s), s)
            /\ SameRevisionAs(SettleFailedJob(HealInterrupted(s, b)), s)
  BY FlowStates DEF Answers

(* A committed state is a state, not the absence of one. *)
LEMMA SweptIsAState ==
  ASSUME NEW st \in Stores, NEW s, SameRevisionAs(s, EffectiveState(st.pj)),
         st.pj # NoPostJob
  PROVE  (IF s = st.pj THEN st ELSE Committed(st, s)).pj \in PostJobStates
<1>1. NextRevision(st, s) \in PostJobStates  BY NextRevisionGrows
<1>2. QED  BY <1>1 DEF Committed, Saved, MergePostJob, Stores

LEMMA ScheduleType ==
  ASSUME NEW due \in BOOLEAN, tasks \in Nat, queued \in BOOLEAN,
         Schedule(due) \/ UNCHANGED <<tasks, queued>>
  PROVE  tasks' \in Nat /\ queued' \in BOOLEAN
  BY DEF Schedule

LEMMA DueType == \A s, done : PushScheduled(s, done) \in BOOLEAN
  BY DEF PushScheduled, PushDue

-----------------------------------------------------------------------------
(* TypeOK, split by who owns the variables. *)
Choices == [review : {"required", "skipped"}, push : {"requested", "not_requested"}]

ServerType == /\ server \in {"up", "down", "booting"}
              /\ snapshot \in {NoSnapshot} \cup [status : {"failed"}, pj : PostJobStates \cup {NoPostJob}]
              /\ used \in [overrides : Nat, retries : Nat, crashes : Nat, failures : Nat]
TaskType   == /\ tasks \in Nat /\ queued \in BOOLEAN /\ in_flight \in BOOLEAN
              /\ \A p \in wire : p \in [id : Nat, auto : BOOLEAN, delivered : BOOLEAN]
PastType   == /\ accepted \in BOOLEAN /\ started \in Nat /\ granted \in Nat
              /\ choice \in Choices /\ unsaved \subseteq Choices

LEMMA TypeParts == TypeOK <=> StoreType /\ MemType /\ ServerType /\ TaskType /\ PastType
  BY DEF TypeOK, StoreType, MemType, ServerType, TaskType, PastType, Choices

LEMMA TypePartsNext ==
  TypeOK' <=> StoreType' /\ MemType' /\ ServerType' /\ TaskType' /\ PastType'
  BY DEF TypeOK, StoreType, MemType, ServerType, TaskType, PastType, Choices

LEMMA ChoiceType ==
  ASSUME NEW s \in PostJobStates
  PROVE  ChoiceOf(s) \in Choices
  BY DEF ChoiceOf, Choices, PostJobStates

LEMMA RaiseType ==
  ASSUME ServerType, NEW n \in Nat, Raise(n)
  PROVE  used' \in [overrides : Nat, retries : Nat, crashes : Nat, failures : Nat]
<1>1. used.failures + n \in Nat  BY DEF ServerType
<1>2. QED  BY <1>1 DEF Raise, ServerType

(* Used is left alone, or charged for one or two saves that raise. *)
MayRaise == UNCHANGED used \/ Raise(1) \/ Raise(2)

LEMMA UsedType ==
  ASSUME ServerType, MayRaise
  PROVE  used' \in [overrides : Nat, retries : Nat, crashes : Nat, failures : Nat]
  BY RaiseType DEF MayRaise, ServerType

LEMMA InitTypes == Init => TypeOK
<1> SUFFICES ASSUME Init PROVE TypeOK
  OBVIOUS
<1>1. CASE \E s \in Submitted :
              /\ store = [status |-> "pending", pj |-> s, latest |-> s]
              /\ pc = "queued"
              /\ granted = (IF s.push = "requested" THEN 1 ELSE 0)
  <2>1. PICK s \in Submitted :
              /\ store = [status |-> "pending", pj |-> s, latest |-> s]
              /\ pc = "queued"
              /\ granted = (IF s.push = "requested" THEN 1 ELSE 0)
    BY <1>1
  <2>2. s \in PostJobStates  BY InitialType DEF Submitted, Requests
  <2>3. StoreType /\ MemType
    BY <2>1, <2>2 DEF Init, StoreType, MemType, Stores, JobStatuses
  <2>4. EffectiveState(store.pj) \in PostJobStates  BY <2>1, <2>2, EffectiveType
  <2>5. ServerType /\ TaskType /\ PastType
    BY <2>1, <2>4, ChoiceType DEF Init, ServerType, TaskType, PastType
  <2>6. QED  BY <2>3, <2>5, TypeParts
<1>2. CASE /\ store = [status |-> "completed", pj |-> NoPostJob, latest |-> NoPostJob]
           /\ pc = "done"
           /\ granted = 0
  <2>1. StoreType /\ MemType
    BY <1>2 DEF Init, StoreType, MemType, Stores, JobStatuses, NoJob
  <2>2. EffectiveState(store.pj) \in PostJobStates  BY <1>2, EffectiveType
  <2>3. ServerType /\ TaskType /\ PastType
    BY <1>2, <2>2, ChoiceType DEF Init, ServerType, TaskType, PastType
  <2>4. QED  BY <2>1, <2>3, TypeParts
<1>3. QED  BY <1>1, <1>2 DEF Init

LEMMA PipelineTypes == TypeOK /\ Pipeline => TypeOK'
<1> SUFFICES ASSUME TypeOK, Pipeline PROVE TypeOK'
  OBVIOUS
<1> USE DEF PipelineOnly, history
<1>0. StoreType /\ MemType /\ ServerType /\ TaskType /\ PastType  BY TypeParts
<1>m. store \in Stores /\ mem.pj \in PostJobStates \cup {NoPostJob}
  BY <1>0 DEF StoreType, MemType
<1>a. ASSUME PipelineOnly, StoreType', MemType', MayRaise
      PROVE  TypeOK'
  <2>1. ServerType'
    BY <1>0, <1>a, UsedType DEF ServerType
  <2>2. TaskType' /\ PastType'  BY <1>0, <1>a DEF TaskType, PastType
  <2>3. QED  BY <1>a, <2>1, <2>2, TypePartsNext
<1>b. ASSUME NEW n \in {1, 2}, SaveRaisesOutOfRun(n)
      PROVE  StoreType' /\ MemType' /\ MayRaise
  <2>1. StoreType'
    BY <1>m, <1>b, SavedType DEF SaveRaisesOutOfRun, StoreType, JobStatuses
  <2>2. MemType'  BY <1>b DEF SaveRaisesOutOfRun, MemType, NoJob
  <2>3. MayRaise  BY <1>b DEF SaveRaisesOutOfRun, MayRaise
  <2>4. QED  BY <2>1, <2>2, <2>3
<1>c. ASSUME NEW status \in JobStatuses, SaveMem(status) \/ SaveMemRaises(status)
      PROVE  /\ StoreType' /\ mem' \in [status : JobStatuses, pj : PostJobStates \cup {NoPostJob}]
             /\ MayRaise
  BY <1>0, <1>c, SaveMemTypes DEF SaveMem, SaveMemRaises, MayRaise
<1>1. CASE SaveWhileQueued
  BY <1>1, <1>a, <1>b, <1>c DEF SaveWhileQueued, MemType, JobStatuses
<1>2. CASE StageSave
  BY <1>2, <1>a, <1>c DEF StageSave, MemType, JobStatuses, Following
<1>3. CASE BranchSaveRaises
  BY <1>3, <1>a, <1>c DEF BranchSaveRaises, MemType, JobStatuses
<1>4. CASE FailPipeline
  BY <1>4, <1>a, <1>b, <1>c DEF FailPipeline, MemType, JobStatuses
<1>5. CASE FinishPipeline
  BY <1>5, <1>a, <1>c DEF FinishPipeline, MemType, JobStatuses
<1>6. CASE SaveRaisesFailsJob
  <2> DEFINE lost == SaveRaised(store, mem.pj)
  <2>1. CASE /\ Raise(1) /\ store' = Saved(lost, "failed", lost.latest)
             /\ mem' = [status |-> "failed", pj |-> store'.pj] /\ pc' = "hook"
    <3>1. lost \in Stores  BY <1>m, SavedType DEF JobStatuses
    <3>2. store' \in Stores
      BY <2>1, <3>1, SavedType DEF Stores, JobStatuses
    <3>3. MemType'  BY <2>1, <3>2 DEF MemType, Stores, JobStatuses
    <3>4. QED  BY <1>6, <2>1, <3>2, <3>3, <1>a DEF SaveRaisesFailsJob, StoreType, MayRaise
  <2>2. CASE SaveRaisesOutOfRun(2)
    BY <1>6, <2>2, <1>a, <1>b DEF SaveRaisesFailsJob
  <2>3. QED  BY <1>6, <2>1, <2>2 DEF SaveRaisesFailsJob
<1>7. CASE PostCompletionStep
  <2>1. CASE SaveMem("completed") \/ SaveMemRaises("completed")
    BY <1>7, <2>1, <1>a, <1>c DEF PostCompletionStep, MemType, JobStatuses
  <2>2. CASE UNCHANGED <<store, mem, used>>
    BY <1>7, <2>2, <1>0, <1>a DEF PostCompletionStep, StoreType, MemType, MayRaise
  <2>3. QED  BY <1>7, <2>1, <2>2 DEF PostCompletionStep
<1>8. CASE HookCompleted
  <2>1. MemType'  BY <1>8 DEF HookCompleted, MemType, NoJob
  <2>2. StoreType'
    <3>1. CASE store' = store  BY <1>0, <3>1 DEF StoreType
    <3>2. CASE /\ store.pj # NoPostJob
               /\ \/ store' = Committed(store, Decided(store.pj, TRUE))
                  \/ store' = CommitRaised(store, Decided(store.pj, TRUE))
      <4>1. SameRevisionAs(Decided(store.pj, TRUE), EffectiveState(store.pj))
        BY <1>m, <3>2, FlowPair DEF EffectiveState
      <4>2. QED  BY <1>0, <3>2, <4>1, CommitsType
    <3>3. QED  BY <1>8, <3>1, <3>2 DEF HookCompleted
  <2>3. ServerType' /\ PastType'
    BY <1>8, <1>0, UsedType DEF HookCompleted, ServerType, PastType, MayRaise
  <2>4. TaskType'  BY <1>8, <1>0, ScheduleType, DueType DEF HookCompleted, TaskType
  <2>5. QED  BY <2>1, <2>2, <2>3, <2>4, TypePartsNext
<1>9. CASE HookFailed
  <2>1. MemType'  BY <1>9 DEF HookFailed, MemType, NoJob
  <2>2. StoreType'
    <3>1. CASE store' = store  BY <1>0, <3>1 DEF StoreType
    <3>2. CASE /\ store.pj # NoPostJob
               /\ \/ store' = Committed(store, SettleFailedJob(store.pj))
                  \/ store' = CommitRaised(store, SettleFailedJob(store.pj))
      <4>1. SameRevisionAs(SettleFailedJob(store.pj), EffectiveState(store.pj))
        BY <1>m, <3>2, FlowPair DEF EffectiveState
      <4>2. QED  BY <1>0, <3>2, <4>1, CommitsType
    <3>3. QED  BY <1>9, <3>1, <3>2 DEF HookFailed
  <2>3. MayRaise  BY <1>9 DEF HookFailed, MayRaise
  <2>4. QED  BY <1>9, <1>a, <2>1, <2>2, <2>3 DEF HookFailed
<1>10. QED  BY <1>1, <1>2, <1>3, <1>4, <1>5, <1>6, <1>7, <1>8, <1>9 DEF Pipeline

LEMMA UsedGrows ==
  ASSUME ServerType
  PROVE  /\ used.overrides + 1 \in Nat /\ used.retries + 1 \in Nat
         /\ used.crashes + 1 \in Nat /\ used.failures + 1 \in Nat
  BY DEF ServerType

LEMMA PushStartTypes ==
  ASSUME TaskType, started \in Nat, NEW st, NEW auto \in BOOLEAN,
         SendFrom(st, auto) \/ DropFrom(st)
  PROVE  /\ in_flight' \in BOOLEAN /\ started' \in Nat
         /\ \A p \in wire' : p \in [id : Nat, auto : BOOLEAN, delivered : BOOLEAN]
<1>1. started + 1 \in Nat  OBVIOUS
<1>2. [id |-> started + 1, auto |-> auto, delivered |-> FALSE]
        \in [id : Nat, auto : BOOLEAN, delivered : BOOLEAN]
  BY <1>1
<1>3. CASE SendFrom(st, auto)  BY <1>1, <1>2, <1>3 DEF SendFrom, TaskType
<1>4. CASE DropFrom(st)  BY <1>4 DEF DropFrom, TaskType
<1>5. QED  BY <1>3, <1>4

(* A step that commits a state derived from the stored one, or leaves the      *)
(* store alone, keeps the type of what is stored.                              *)
LEMMA UserTypes == TypeOK /\ User => TypeOK'
<1> SUFFICES ASSUME TypeOK, User PROVE TypeOK'
  OBVIOUS
<1>0. StoreType /\ MemType /\ ServerType /\ TaskType /\ PastType  BY TypeParts
<1>m. store \in Stores  BY <1>0 DEF StoreType
<1>s. EffectiveState(store.pj) \in PostJobStates  BY <1>m, EffectiveType DEF Stores
<1>1. ASSUME NEW review \in Answers, NEW push \in Answers, NEW allowed \in BOOLEAN,
             ApplyOverride(review, push, allowed)
      PROVE  TypeOK'
  <2> DEFINE h == HealInterrupted(EffectiveState(store.pj), PushInFlight)
             c == Chosen(h, review, push)
             d == store.status = "completed"
  <2>f. PushInFlight \in BOOLEAN /\ d \in BOOLEAN
    BY <1>0 DEF TaskType, PushInFlight
  <2>1. /\ SameRevisionAs(c, EffectiveState(store.pj))
        /\ SameRevisionAs(Decided(c, d), EffectiveState(store.pj))
    BY <1>m, <2>f, FlowStates
  <2>2. StoreType'
    BY <1>1, <1>0, <2>1, CommitsType DEF ApplyOverride
  <2>3. ChoiceOf(c) \in Choices  BY <2>1, ChoiceType DEF SameRevisionAs
  <2>4. PastType'
    BY <1>1, <1>0, <2>3 DEF ApplyOverride, PastType, Asked, AskedLost
  <2>5. TaskType'
    BY <1>1, <1>0, ScheduleType, DueType DEF ApplyOverride, TaskType
  <2>6. ServerType'
    BY <1>1, <1>0, UsedGrows DEF ApplyOverride, ServerType
  <2>7. MemType'  BY <1>1, <1>0 DEF ApplyOverride, MemType
  <2>8. QED  BY <2>2, <2>4, <2>5, <2>6, <2>7, TypePartsNext
<1>2. CASE CompleteReview
  <2> DEFINE s == EffectiveState(store.pj)
             over == [s EXCEPT !.review_status = "completed"]
  <2>1. SameRevisionAs(Decided(over, TRUE), s)
    BY <1>m, FlowStates DEF Answers
  <2>2. StoreType'  BY <1>2, <1>0, <2>1, CommitsType DEF CompleteReview
  <2>3. ChoiceOf(s) \in Choices  BY <1>s, ChoiceType
  <2>4. PastType'
    BY <1>2, <1>0, <2>3 DEF CompleteReview, PastType, Asked, AskedLost
  <2>5. TaskType'
    BY <1>2, <1>0, ScheduleType, DueType DEF CompleteReview, TaskType
  <2>6. ServerType'
    BY <1>2, <1>0, UsedType DEF CompleteReview, ServerType, MayRaise
  <2>7. MemType'  BY <1>2, <1>0 DEF CompleteReview, MemType
  <2>8. QED  BY <2>2, <2>4, <2>5, <2>6, <2>7, TypePartsNext
<1>3. CASE ReadState
  <2> DEFINE h == HealInterrupted(store.pj, PushInFlight)
  <2>f. PushInFlight \in BOOLEAN  BY <1>0 DEF TaskType, PushInFlight
  <2>1. SameRevisionAs(h, EffectiveState(store.pj))
    BY <1>3, <1>m, <2>f, FlowPair DEF ReadState, EffectiveState
  <2>2. StoreType'  BY <1>3, <1>0, <2>1, CommitsType DEF ReadState
  <2>3. ServerType'
    BY <1>3, <1>0, UsedType DEF ReadState, ServerType, MayRaise, PipelineOnly
  <2>4. MemType' /\ TaskType' /\ PastType'
    BY <1>3, <1>0 DEF ReadState, MemType, TaskType, PastType, PipelineOnly, history
  <2>5. QED  BY <2>2, <2>3, <2>4, TypePartsNext
<1>4. CASE RetryPush
  <2> DEFINE s       == EffectiveState(store.pj)
             wanted  == [HealInterrupted(s, FALSE) EXCEPT !.push = "requested"]
             retried == Committed(store, wanted)
  <2>1. SameRevisionAs(wanted, s)
    BY <1>m, FlowStates DEF Answers
  <2>2. retried \in Stores /\ CommitRaised(store, wanted) \in Stores
    BY <1>m, <2>1, CommitType
  <2>3. SameRevisionAs(Starting(retried), EffectiveState(retried.pj))
    BY <2>2, FlowStates DEF Answers
  <2>4. Committed(retried, Starting(retried)) \in Stores
          /\ CommitRaised(retried, Starting(retried)) \in Stores
    BY <2>2, <2>3, CommitType
  <2>5. StoreType'
    BY <1>4, <2>2, <2>4 DEF RetryPush, SendFrom, DropFrom, StoreType
  <2>6. ChoiceOf(wanted) \in Choices  BY <2>1, ChoiceType DEF SameRevisionAs
  <2>p. SendFrom(retried, FALSE) \/ DropFrom(retried) \/ UNCHANGED <<in_flight, wire, started>>
    BY <1>4 DEF RetryPush
  <2>q. /\ in_flight' \in BOOLEAN /\ started' \in Nat
        /\ \A p \in wire' : p \in [id : Nat, auto : BOOLEAN, delivered : BOOLEAN]
    <3>1. CASE SendFrom(retried, FALSE) \/ DropFrom(retried)
      BY <3>1, <1>0, PushStartTypes DEF PastType
    <3>2. CASE UNCHANGED <<in_flight, wire, started>>
      BY <3>2, <1>0 DEF PastType, TaskType
    <3>3. QED  BY <2>p, <3>1, <3>2
  <2>7. PastType'
    <3>1. granted + 1 \in Nat  BY <1>0 DEF PastType
    <3>2. choice' \in Choices /\ unsaved' \subseteq Choices
      BY <1>4, <1>0, <2>6 DEF RetryPush, PastType, Asked, AskedLost
    <3>3. QED  BY <1>4, <1>0, <2>q, <3>1, <3>2 DEF RetryPush, PastType
  <2>8. TaskType'  BY <1>4, <1>0, <2>q DEF RetryPush, TaskType
  <2>9. ServerType'  BY <1>4, <1>0, UsedGrows DEF RetryPush, ServerType
  <2>10. MemType'  BY <1>4, <1>0 DEF RetryPush, MemType
  <2>11. QED  BY <2>5, <2>7, <2>8, <2>9, <2>10, TypePartsNext
<1>5. QED  BY <1>1, <1>2, <1>3, <1>4 DEF User

(* PushAnswered, for one call and its result. *)
Answered(p, result) ==
  LET lost == CommitRaised(store, Recorded(store, result))
  IN /\ wire' = wire \ {p} /\ LeaveFlight(p)
     /\ \/ store' = Committed(store, Recorded(store, result)) /\ UNCHANGED used
        \/ CanRaise(1) /\ Raise(1) /\ store' = Committed(lost, Recorded(lost, "failed"))
        \/ CanRaise(2) /\ Raise(2) /\ store' = CommitRaised(lost, Recorded(lost, "failed"))

LEMMA PushTypes ==
  TypeOK /\ (StartScheduledPush \/ InsightsIngests \/ PushAnswered) => TypeOK'
<1> SUFFICES ASSUME TypeOK, StartScheduledPush \/ InsightsIngests \/ PushAnswered
             PROVE  TypeOK'
  OBVIOUS
<1>0. StoreType /\ MemType /\ ServerType /\ TaskType /\ PastType  BY TypeParts
<1>m. store \in Stores  BY <1>0 DEF StoreType
<1>1. CASE StartScheduledPush
  <2>1. SameRevisionAs(Starting(store), EffectiveState(store.pj))
    BY <1>m, FlowStates DEF Answers
  <2>2. StoreType'
    BY <1>1, <1>0, <2>1, CommitsType DEF StartScheduledPush, SendFrom, DropFrom, StoreType
  <2>3. ServerType'
    BY <1>1, <1>0, UsedType DEF StartScheduledPush, ServerType, MayRaise
  <2>p. /\ in_flight' \in BOOLEAN /\ started' \in Nat
        /\ \A p \in wire' : p \in [id : Nat, auto : BOOLEAN, delivered : BOOLEAN]
    <3>1. CASE SendFrom(store, TRUE) \/ DropFrom(store)
      BY <3>1, <1>0, PushStartTypes DEF PastType
    <3>2. CASE UNCHANGED <<in_flight, wire, started>>
      BY <3>2, <1>0 DEF PastType, TaskType
    <3>3. QED  BY <1>1, <3>1, <3>2 DEF StartScheduledPush
  <2>q. tasks' \in Nat /\ queued' \in BOOLEAN
    <3>1. tasks > 0 /\ tasks' = tasks - 1 /\ queued' = FALSE  BY <1>1 DEF StartScheduledPush
    <3>2. tasks \in Nat  BY <1>0 DEF TaskType
    <3>3. tasks - 1 \in Nat  BY <3>1, <3>2
    <3>4. QED  BY <3>1, <3>3
  <2>4. TaskType' /\ PastType'
    BY <1>1, <1>0, <2>p, <2>q DEF StartScheduledPush, TaskType, PastType
  <2>5. MemType'  BY <1>1, <1>0 DEF StartScheduledPush, MemType
  <2>6. QED  BY <2>2, <2>3, <2>4, <2>5, TypePartsNext
<1>2. CASE InsightsIngests
  <2>1. TaskType'  BY <1>2, <1>0 DEF InsightsIngests, TaskType
  <2>2. StoreType' /\ MemType' /\ ServerType' /\ PastType'
    BY <1>2, <1>0 DEF InsightsIngests, StoreType, MemType, ServerType, PastType
  <2>3. QED  BY <2>1, <2>2, TypePartsNext
<1>3. CASE PushAnswered
  <2>0. PICK p \in wire : \E result \in Answer(p) : Answered(p, result)
    BY <1>3 DEF PushAnswered, Answered
  <2>1. PICK result \in Answer(p) : Answered(p, result)
    BY <2>0
  <2> DEFINE lost == CommitRaised(store, Recorded(store, result))
  <2>2. result \in {"pushed", "failed", "not_configured"}  BY DEF Answer
  <2>3. SameRevisionAs(Recorded(store, result), EffectiveState(store.pj))
    BY <1>m, <2>2, FlowStates DEF Answers
  <2>4. Committed(store, Recorded(store, result)) \in Stores /\ lost \in Stores
    BY <1>m, <2>3, CommitType
  <2>5. SameRevisionAs(Recorded(lost, "failed"), EffectiveState(lost.pj))
    BY <2>4, FlowStates DEF Answers
  <2>6. Committed(lost, Recorded(lost, "failed")) \in Stores
          /\ CommitRaised(lost, Recorded(lost, "failed")) \in Stores
    BY <2>4, <2>5, CommitType
  <2>7. StoreType'  BY <2>1, <2>4, <2>6 DEF StoreType, Answered
  <2>8. ServerType'
    BY <1>3, <2>1, <1>0, UsedType DEF PushAnswered, Answered, ServerType, MayRaise
  <2>9. TaskType'
    BY <1>3, <2>1, <1>0 DEF PushAnswered, Answered, TaskType, LeaveFlight
  <2>10. MemType' /\ PastType'
    BY <1>3, <1>0 DEF PushAnswered, MemType, PastType, history
  <2>11. QED  BY <2>7, <2>8, <2>9, <2>10, TypePartsNext
<1>4. QED  BY <1>1, <1>2, <1>3

LEMMA ServerTypes ==
  TypeOK /\ (StaleRead \/ StaleWrite \/ Crash \/ FailOrphan \/ Recover) => TypeOK'
<1> SUFFICES ASSUME TypeOK, StaleRead \/ StaleWrite \/ Crash \/ FailOrphan \/ Recover
             PROVE  TypeOK'
  OBVIOUS
<1>0. StoreType /\ MemType /\ ServerType /\ TaskType /\ PastType  BY TypeParts
<1>m. /\ store \in Stores
      /\ store.pj \in PostJobStates \cup {NoPostJob}
      /\ store.latest \in PostJobStates \cup {NoPostJob}
  BY <1>0 DEF StoreType, Stores
<1>1. CASE StaleRead
  <2>1. ServerType'  BY <1>1, <1>0, <1>m DEF StaleRead, ServerType
  <2>2. StoreType' /\ MemType' /\ TaskType' /\ PastType'
    BY <1>1, <1>0 DEF StaleRead, StoreType, MemType, TaskType, PastType, history
  <2>3. QED  BY <2>1, <2>2, TypePartsNext
<1>2. CASE StaleWrite
  <2>1. snapshot \in [status : {"failed"}, pj : PostJobStates \cup {NoPostJob}]
    BY <1>2, <1>0 DEF StaleWrite, ServerType
  <2>2. StoreType'
    BY <1>2, <1>m, <2>1 DEF StaleWrite, StoreType, Stores, JobStatuses
  <2>3. ServerType'  BY <1>2, <1>0 DEF StaleWrite, ServerType
  <2>4. MemType' /\ TaskType' /\ PastType'
    BY <1>2, <1>0 DEF StaleWrite, MemType, TaskType, PastType, history
  <2>5. QED  BY <2>2, <2>3, <2>4, TypePartsNext
<1>3. CASE Crash
  <2>1. StoreType'  BY <1>3, <1>m DEF Crash, StoreType, Stores
  <2>2. used.crashes + 1 \in Nat  BY <1>0 DEF ServerType
  <2>3. ServerType'  BY <1>3, <1>0, <2>2 DEF Crash, ServerType
  <2>4. MemType'  BY <1>3 DEF Crash, MemType, NoJob
  <2>5. TaskType'  BY <1>3 DEF Crash, TaskType
  <2>6. PastType'  BY <1>3, <1>0 DEF Crash, PastType
  <2>7. QED  BY <2>1, <2>3, <2>4, <2>5, <2>6, TypePartsNext
<1>4. CASE FailOrphan
  <2>1. StoreType'  BY <1>4, <1>m DEF FailOrphan, StoreType, Stores, JobStatuses
  <2>2. ServerType'  BY <1>4, <1>0 DEF FailOrphan, ServerType
  <2>3. MemType' /\ TaskType' /\ PastType'
    BY <1>4, <1>0 DEF FailOrphan, MemType, TaskType, PastType, history
  <2>4. QED  BY <2>1, <2>2, <2>3, TypePartsNext
<1>5. CASE Recover
  <2>f. PushInFlight \in BOOLEAN  BY <1>0 DEF TaskType, PushInFlight
  <2> DEFINE healed  == HealInterrupted(store.pj, PushInFlight)
             settled == IF store.status = "failed" THEN SettleFailedJob(healed) ELSE healed
             swept   == IF settled = store.pj THEN store ELSE Committed(store, settled)
             resume  == store.status = "completed" /\ settled.review_status = "pending_job"
  <2>1. CASE store.pj = NoPostJob \/ ~NeedsRecovery(EffectiveState(store.pj))
    <3>1. UNCHANGED <<store, tasks, queued, used>>  BY <1>5, <2>1 DEF Recover
    <3>2. StoreType' /\ ServerType' /\ MemType' /\ TaskType' /\ PastType'
      BY <1>5, <3>1, <1>0 DEF Recover, StoreType, ServerType, MemType, TaskType, PastType, history
    <3>3. QED  BY <3>2, TypePartsNext
  <2>2. CASE ~(store.pj = NoPostJob \/ ~NeedsRecovery(EffectiveState(store.pj)))
    <3>1. \/ /\ store' = IF resume THEN Committed(swept, Decided(swept.pj, TRUE)) ELSE swept
             /\ Schedule(resume /\ PushScheduled(swept.pj, TRUE))
             /\ UNCHANGED used
          \/ /\ CanRaise(1) /\ Raise(1) /\ UNCHANGED <<tasks, queued>>
             /\ \/ settled # store.pj /\ store' = CommitRaised(store, settled)
                \/ resume /\ store' = CommitRaised(swept, Decided(swept.pj, TRUE))
      BY <1>5, <2>2 DEF Recover
    <3>2. SameRevisionAs(settled, EffectiveState(store.pj))
      BY <1>m, <2>f, <2>2, FlowPair DEF EffectiveState
    <3>3. swept \in Stores /\ CommitRaised(store, settled) \in Stores
      BY <1>m, <3>2, CommitType
    <3>4. swept.pj \in PostJobStates
      BY <3>2, <2>2, <3>3, SweptIsAState, <1>m
    <3>5. SameRevisionAs(Decided(swept.pj, TRUE), EffectiveState(swept.pj))
      BY <3>3, <3>4, FlowPair, PostJobAssumption DEF EffectiveState
    <3>6. /\ Committed(swept, Decided(swept.pj, TRUE)) \in Stores
          /\ CommitRaised(swept, Decided(swept.pj, TRUE)) \in Stores
      BY <3>3, <3>5, CommitType
    <3>7. StoreType'  BY <3>1, <3>3, <3>6 DEF StoreType
    <3>8. ServerType'
      BY <1>5, <3>1, <1>0, UsedType DEF Recover, ServerType, MayRaise
    <3>9. TaskType'
      <4>1. (resume /\ PushScheduled(swept.pj, TRUE)) \in BOOLEAN  OBVIOUS
      <4>2. tasks' \in Nat /\ queued' \in BOOLEAN
        BY <1>0, <3>1, <4>1, ScheduleType DEF TaskType
      <4>3. QED  BY <1>5, <1>0, <4>2 DEF Recover, TaskType
    <3>10. MemType' /\ PastType'
      BY <1>5, <1>0 DEF Recover, MemType, PastType, history
    <3>11. QED  BY <3>7, <3>8, <3>9, <3>10, TypePartsNext
  <2>3. QED  BY <2>1, <2>2
<1>6. QED  BY <1>1, <1>2, <1>3, <1>4, <1>5

(* Every reachable state has the type the declarations promise: in particular  *)
(* the flow never stores a status or choice outside the model classes of       *)
(* models/job.py, whatever the requests, crashes and raising saves.            *)
THEOREM TypeCorrect == Spec => []TypeOK
<1>1. TypeOK /\ UNCHANGED vars => TypeOK'
  BY DEF TypeOK, vars, system, history
<1>2. TypeOK /\ [Next]_vars => TypeOK'
  BY <1>1, PipelineTypes, UserTypes, PushTypes, ServerTypes DEF Next
<1>3. QED  BY InitTypes, <1>2, PTL DEF Spec
-----------------------------------------------------------------------------
(* One call at a time. *)
AtMostOne == \A p, q \in wire : p = q
OneOnWire == (in_flight <=> wire # {}) /\ AtMostOne

LEMMA OneOnWireCounts == OneOnWire => OneCallOut
<1> SUFFICES ASSUME OneOnWire PROVE OneCallOut
  OBVIOUS
<1>1. CASE wire = {}
  BY <1>1, FS_EmptySet DEF OneOnWire, OneCallOut
<1>2. CASE wire # {}
  <2>1. PICK p : p \in wire  BY <1>2
  <2>2. wire = {p}  BY <2>1 DEF OneOnWire, AtMostOne
  <2>3. Cardinality(wire) = 1  BY <2>2, FS_Singleton
  <2>4. QED  BY <1>2, <2>3 DEF OneOnWire, OneCallOut
<1>3. QED  BY <1>1, <1>2

(* run_push adds its call only when none is in flight. *)
LEMMA StartKeepsOne ==
  ASSUME OneOnWire, ~in_flight, NEW st, NEW auto \in BOOLEAN,
         SendFrom(st, auto) \/ DropFrom(st) \/ UNCHANGED <<in_flight, wire>>
  PROVE  OneOnWire'
<1>0. wire = {}  BY DEF OneOnWire
<1>1. CASE SendFrom(st, auto)
  <2>1. wire' = {[id |-> started + 1, auto |-> auto, delivered |-> FALSE]}
    BY <1>0, <1>1 DEF SendFrom
  <2>2. QED  BY <1>1, <2>1 DEF SendFrom, OneOnWire, AtMostOne
<1>2. CASE DropFrom(st)
  BY <1>0, <1>2 DEF DropFrom, OneOnWire, AtMostOne
<1>3. CASE UNCHANGED <<in_flight, wire>>
  BY <1>3 DEF OneOnWire, AtMostOne
<1>4. QED  BY <1>1, <1>2, <1>3

LEMMA StepKeepsOne == OneOnWire /\ [Next]_vars => OneOnWire'
<1> SUFFICES ASSUME OneOnWire, [Next]_vars PROVE OneOnWire'
  OBVIOUS
<1>1. CASE UNCHANGED <<in_flight, wire>>
  BY <1>1 DEF OneOnWire, AtMostOne
<1>2. CASE Pipeline
  <2>1. UNCHANGED <<in_flight, wire>>
    BY <1>2 DEF Pipeline, PipelineOnly, SaveWhileQueued, StageSave, BranchSaveRaises,
                FailPipeline, FinishPipeline, SaveRaisesFailsJob, PostCompletionStep,
                HookCompleted, HookFailed
  <2>2. QED  BY <1>1, <2>1
<1>3. CASE RetryPush
  <2>1. PICK st : SendFrom(st, FALSE) \/ DropFrom(st) \/ UNCHANGED <<in_flight, wire>>
    BY <1>3 DEF RetryPush
  <2>2. ~in_flight  BY <1>3 DEF RetryPush, PushInFlight
  <2>3. QED  BY <2>1, <2>2, StartKeepsOne
<1>4. CASE User /\ ~RetryPush
  <2>1. UNCHANGED <<in_flight, wire>>
    BY <1>4 DEF User, ApplyOverride, CompleteReview, ReadState, PipelineOnly
  <2>2. QED  BY <1>1, <2>1
<1>5. CASE StartScheduledPush
  <2>1. CASE ~MayStart  BY <1>1, <1>5, <2>1 DEF StartScheduledPush
  <2>2. CASE MayStart
    BY <1>5, <2>2, StartKeepsOne DEF StartScheduledPush, MayStart
  <2>3. QED  BY <2>1, <2>2
<1>6. CASE InsightsIngests
  <2>1. PICK p \in wire : wire' = (wire \ {p}) \cup {[p EXCEPT !.delivered = TRUE]}
    BY <1>6 DEF InsightsIngests
  <2>2. wire' = {[p EXCEPT !.delivered = TRUE]}
    BY <2>1 DEF OneOnWire, AtMostOne
  <2>3. in_flight' = in_flight  BY <1>6 DEF InsightsIngests
  <2>4. QED  BY <2>1, <2>2, <2>3 DEF OneOnWire, AtMostOne
<1>7. CASE PushAnswered
  <2>1. PICK p \in wire : wire' = wire \ {p} /\ in_flight' = FALSE
    BY <1>7 DEF PushAnswered, LeaveFlight
  <2>2. wire' = {}  BY <2>1 DEF OneOnWire, AtMostOne
  <2>3. QED  BY <2>1, <2>2 DEF OneOnWire, AtMostOne
<1>8. CASE Crash
  BY <1>8 DEF Crash, OneOnWire, AtMostOne
<1>9. CASE StaleRead \/ StaleWrite \/ FailOrphan \/ Recover \/ UNCHANGED vars
  BY <1>1, <1>9 DEF StaleRead, StaleWrite, FailOrphan, Recover, vars, system
<1>10. QED
  BY <1>2, <1>3, <1>4, <1>5, <1>6, <1>7, <1>8, <1>9 DEF Next

(* At most one call to insights is out for a job, and _in_flight says so: for   *)
(* any number of requests, scheduled pushes, crashes, raising saves and stale   *)
(* markings.  Only the lock of run_push and its `finally` are needed for it.    *)
THEOREM NeverTwoCalls == Spec => []OneCallOut
<1>1. Init => OneOnWire  BY DEF Init, OneOnWire, AtMostOne
<1>2. QED  BY <1>1, StepKeepsOne, OneOnWireCounts, PTL DEF Spec

-----------------------------------------------------------------------------
(* What is stored of a job, and what is sent of it: the stored state only      *)
(* moves on, the pushes are accounted for, a restart settles what was under    *)
(* way, and the flow implements PushLedger; for any number of requests and     *)
(* crashes, as long as one save at most raises and no thread marks the job as  *)
(* stale.  Both conditions are needed: the runs FlowStale... show what stale   *)
(* marking does, and with two saves that raise, a request's and then a         *)
(* branch's, one revision stands for two states and the older of them is       *)
(* written over the newer.                                                     *)
Revision(pj) == EffectiveState(pj).revision

(* The entry of _POST_JOB_LATEST is what is in the file, or the one commit     *)
(* whose save raised.                                                          *)
LatestFits(st) == \/ st.latest = NoPostJob \/ st.latest = st.pj
                  \/ st.latest.revision = Revision(st.pj) + 1

LEMMA RevisionType ==
  ASSUME NEW st \in Stores
  PROVE  /\ Revision(st.pj) \in Nat
         /\ st.pj # NoPostJob => Revision(st.pj) = st.pj.revision
         /\ st.latest # NoPostJob => st.latest \in PostJobStates /\ st.latest.revision \in Nat
<1>1. EffectiveState(st.pj) \in PostJobStates  BY EffectiveType DEF Stores
<1>2. QED  BY <1>1 DEF Revision, EffectiveState, PostJobStates, Stores

(* What _commit leaves behind: the next revision, in the file and in memory,   *)
(* or in memory alone when the save raises.                                    *)
LEMMA CommitMoves ==
  ASSUME NEW st \in Stores, LatestFits(st),
         NEW s, SameRevisionAs(s, EffectiveState(st.pj))
  PROVE  LET n == NextRevision(st, s)
         IN /\ n \in PostJobStates /\ n.revision = Revision(st.pj) + 1
            /\ Committed(st, s) = [status |-> st.status, pj |-> n, latest |-> n]
            /\ CommitRaised(st, s) = [st EXCEPT !.latest = n]
<1> DEFINE n == NextRevision(st, s)
<1>1. n \in PostJobStates /\ n.revision = Revision(st.pj) + 1
  BY NextRevisionGrows DEF Revision
<1>2. n # NoPostJob  BY <1>1
<1>r. Revision(st.pj) \in Nat  BY RevisionType
<1>3. ~(st.latest # NoPostJob /\ n.revision < st.latest.revision)
  <2>1. CASE st.latest = st.pj /\ st.pj # NoPostJob
    <3>1. st.latest.revision = Revision(st.pj)  BY <2>1, RevisionType
    <3>2. QED  BY <3>1, <1>1, <1>r
  <2>2. CASE st.latest.revision = Revision(st.pj) + 1
    BY <2>2, <1>1, <1>r
  <2>3. QED  BY <2>1, <2>2 DEF LatestFits
<1>4. MergePostJob(st.latest, n) = n  BY <1>2, <1>3 DEF MergePostJob
<1>5. QED  BY <1>1, <1>4 DEF Committed, CommitRaised, Saved, SaveRaised

(* How a step may move the store, as long as the pipeline is not the one that  *)
(* writes.                                                                     *)
Advanced(st, next) == /\ next \in Stores
                      /\ next.pj # NoPostJob /\ next.latest = next.pj
                      /\ Revision(next.pj) > Revision(st.pj)
Withheld(st, next) == /\ next \in Stores
                      /\ next.pj = st.pj /\ next.latest # NoPostJob
                      /\ next.latest.revision = Revision(st.pj) + 1

LEMMA CommitAdvances ==
  ASSUME NEW st \in Stores, LatestFits(st),
         NEW s, SameRevisionAs(s, EffectiveState(st.pj))
  PROVE  Advanced(st, Committed(st, s)) /\ Withheld(st, CommitRaised(st, s))
<1> DEFINE n == NextRevision(st, s)
<1>1. /\ n \in PostJobStates /\ n.revision = Revision(st.pj) + 1
      /\ Committed(st, s) = [status |-> st.status, pj |-> n, latest |-> n]
      /\ CommitRaised(st, s) = [st EXCEPT !.latest = n]
  BY CommitMoves
<1>2. Revision(st.pj) \in Nat  BY RevisionType
<1>3. Committed(st, s) \in Stores /\ CommitRaised(st, s) \in Stores  BY CommitType
<1>4. n # NoPostJob /\ Revision(n) = n.revision
  BY <1>1 DEF Revision, EffectiveState
<1>5. Advanced(st, Committed(st, s))
  BY <1>1, <1>2, <1>3, <1>4 DEF Advanced
<1>6. CommitRaised(st, s).pj = st.pj /\ CommitRaised(st, s).latest = n
  BY <1>1 DEF Stores
<1>7. Withheld(st, CommitRaised(st, s))
  BY <1>1, <1>3, <1>4, <1>6 DEF Withheld
<1>8. QED  BY <1>5, <1>7

LEMMA AdvancedFits ==
  ASSUME NEW st, NEW next, Advanced(st, next) \/ Withheld(st, next)
  PROVE  LatestFits(next)
  BY DEF Advanced, Withheld, LatestFits

LEMMA AdvancedTwice ==
  ASSUME NEW a \in Stores, NEW b, NEW c, Advanced(a, b)
  PROVE  /\ Advanced(b, c) => Advanced(a, c)
         /\ Withheld(b, c) => Revision(c.pj) > Revision(a.pj) /\ c.pj = b.pj /\ LatestFits(c)
<1>1. b \in Stores  BY DEF Advanced
<1>2. Revision(a.pj) \in Nat /\ Revision(b.pj) \in Nat  BY <1>1, RevisionType
<1>3. ASSUME Advanced(b, c) PROVE Advanced(a, c)
  <2>1. c \in Stores  BY <1>3 DEF Advanced
  <2>2. Revision(c.pj) \in Nat  BY <2>1, RevisionType
  <2>3. QED  BY <1>2, <1>3, <2>2 DEF Advanced
<1>4. ASSUME Withheld(b, c)
      PROVE  Revision(c.pj) > Revision(a.pj) /\ c.pj = b.pj /\ LatestFits(c)
  BY <1>4, AdvancedFits DEF Advanced, Withheld
<1>5. QED  BY <1>3, <1>4
-----------------------------------------------------------------------------
(* The invariant.  The pipeline's copy is older than the file, or equal to it; *)
(* before the first save that raises, memory and file agree.                   *)
MemFits == /\ pc # "done" => mem.pj # NoPostJob
           /\ mem.pj # NoPostJob =>
                /\ store.latest # NoPostJob
                /\ \/ mem.pj = store.pj
                   \/ mem.pj.revision < Revision(store.pj)

FailuresFit == /\ used.failures = 0 => store.latest \in {NoPostJob, store.pj}
               /\ used.failures <= MaxSaveFailures

StoreInv == /\ snapshot = NoSnapshot
            /\ server # "up" => store.latest = NoPostJob
            /\ LatestFits(store) /\ MemFits /\ FailuresFit

RevisionOrdered == /\ Revision(store'.pj) >= Revision(store.pj)
                   /\ Revision(store'.pj) = Revision(store.pj) => store'.pj = store.pj

LEMMA InitStoreInv == Init => StoreInv
<1> SUFFICES ASSUME Init PROVE StoreInv
  OBVIOUS
<1>1. LatestFits(store) /\ used.failures = 0 /\ snapshot = NoSnapshot /\ server = "up"
  BY DEF Init, LatestFits
<1>2. ASSUME NEW s \in Submitted,
             store = [status |-> "pending", pj |-> s, latest |-> s]
      PROVE  s # NoPostJob
  BY InitialType DEF Submitted, Requests
<1>3. MemFits  BY <1>2 DEF Init, MemFits, NoJob
<1>4. store.latest = store.pj  BY DEF Init
<1>5. QED  BY <1>1, <1>3, <1>4 DEF StoreInv, FailuresFit

(* A save of the pipeline's copy leaves the file as it is, or writes the        *)
(* commit whose save raised.                                                   *)
LEMMA MemSaves ==
  ASSUME store \in Stores, mem.pj \in PostJobStates \cup {NoPostJob},
         LatestFits(store), MemFits, mem.pj # NoPostJob,
         NEW status \in JobStatuses
  PROVE  LET st == Saved(store, status, mem.pj)
         IN /\ st.latest = st.pj /\ st.pj = store.latest /\ st.pj # NoPostJob
            /\ \/ st.pj = store.pj
               \/ Revision(st.pj) = Revision(store.pj) + 1
            /\ SaveRaised(store, mem.pj) = store
<1> DEFINE m == MergePostJob(store.latest, mem.pj)
<1>0. store.latest # NoPostJob  BY DEF MemFits
<1>1. /\ Revision(store.pj) \in Nat
      /\ store.pj # NoPostJob => Revision(store.pj) = store.pj.revision
      /\ store.latest.revision \in Nat
  BY <1>0, RevisionType
<1>2. mem.pj.revision \in Nat  BY DEF PostJobStates
<1>3. m = store.latest
  <2>1. CASE mem.pj = store.pj
    <3>1. CASE store.latest = store.pj  BY <2>1, <3>1 DEF MergePostJob
    <3>2. CASE store.latest.revision = Revision(store.pj) + 1
      <4>1. mem.pj.revision < store.latest.revision  BY <2>1, <3>2, <1>1
      <4>2. QED  BY <4>1, <1>0 DEF MergePostJob
    <3>3. QED  BY <1>0, <3>1, <3>2 DEF LatestFits
  <2>2. CASE mem.pj.revision < Revision(store.pj)
    <3>1. mem.pj.revision < store.latest.revision
      <4>1. CASE store.latest = store.pj  BY <4>1, <2>2, <1>0, <1>1
      <4>2. CASE store.latest.revision = Revision(store.pj) + 1
        BY <4>2, <2>2, <1>1, <1>2
      <4>3. QED  BY <1>0, <4>1, <4>2 DEF LatestFits
    <3>2. QED  BY <3>1, <1>0 DEF MergePostJob
  <2>3. QED  BY <2>1, <2>2 DEF MemFits
<1>4. Revision(store.latest) = store.latest.revision
  BY <1>0 DEF Revision, EffectiveState
<1>5. store.latest = store.pj \/ Revision(store.latest) = Revision(store.pj) + 1
  BY <1>0, <1>4 DEF LatestFits
<1>6. SaveRaised(store, mem.pj) = store  BY <1>3 DEF SaveRaised, Stores
<1>7. QED  BY <1>0, <1>3, <1>5, <1>6 DEF Saved

(* What every step but a crash does to the store, if anything.                 *)
Moves == /\ store' \in Stores
         /\ LatestFits(store') /\ store'.latest # NoPostJob
         /\ used'.failures = 0 => store'.latest = store'.pj
         /\ store'.pj = store.pj \/ Revision(store'.pj) > Revision(store.pj)

Spends == used'.failures <= MaxSaveFailures /\ used'.failures >= used.failures

LEMMA MovesKeep ==
  ASSUME TypeOK, TypeOK', StoreInv, Moves, Spends, server' = "up", UNCHANGED snapshot,
         \/ UNCHANGED <<mem, pc>>
         \/ mem'.pj = NoPostJob /\ pc' = "done"
         \/ mem.pj # NoPostJob /\ mem'.pj = store'.pj
  PROVE  StoreInv' /\ RevisionOrdered
<1>1. store \in Stores /\ store' \in Stores  BY DEF TypeOK
<1>2. Revision(store.pj) \in Nat /\ Revision(store'.pj) \in Nat  BY <1>1, RevisionType
<1>3. RevisionOrdered  BY <1>2 DEF Moves, RevisionOrdered
<1>4. MemFits'
  <2>1. CASE UNCHANGED <<mem, pc>>
    <3>1. ASSUME mem.pj # NoPostJob
          PROVE  mem.pj = store'.pj \/ mem.pj.revision < Revision(store'.pj)
      <4>1. mem.pj \in PostJobStates  BY <3>1 DEF TypeOK
      <4>2. mem.pj.revision \in Nat  BY <4>1 DEF PostJobStates
      <4>3. mem.pj = store.pj => mem.pj.revision = Revision(store.pj)
        BY <3>1 DEF Revision, EffectiveState
      <4>4. QED  BY <3>1, <4>2, <4>3, <1>2 DEF StoreInv, MemFits, Moves
    <3>2. QED  BY <2>1, <3>1 DEF MemFits, StoreInv, Moves
  <2>2. CASE mem'.pj = NoPostJob /\ pc' = "done"  BY <2>2 DEF MemFits
  <2>3. CASE mem.pj # NoPostJob /\ mem'.pj = store'.pj
    <3>1. store'.pj # NoPostJob
      <4>1. store'.pj = store.pj => store.pj # NoPostJob
        <5>1. ASSUME store'.pj = store.pj, store.pj = NoPostJob PROVE FALSE
          <6>1. mem.pj \in PostJobStates  BY <2>3 DEF TypeOK
          <6>2. mem.pj.revision < 0
            BY <5>1, <2>3 DEF StoreInv, MemFits, Revision, EffectiveState, LegacyState
          <6>3. QED  BY <6>1, <6>2 DEF PostJobStates
        <5>2. QED  BY <5>1
      <4>2. Revision(store'.pj) > Revision(store.pj) => store'.pj # NoPostJob
        BY <1>2 DEF Revision, EffectiveState, LegacyState
      <4>3. QED  BY <4>1, <4>2 DEF Moves
    <3>2. QED  BY <2>3, <3>1 DEF MemFits, Moves
  <2>4. QED  BY <2>1, <2>2, <2>3
<1>5. FailuresFit'  BY DEF Moves, Spends, FailuresFit
<1>6. QED  BY <1>3, <1>4, <1>5 DEF StoreInv, Moves
LEMMA StillKeep ==
  ASSUME TypeOK, TypeOK', StoreInv, Spends, server' = "up" \/ server' = server,
         UNCHANGED <<store, snapshot>>,
         UNCHANGED <<mem, pc>> \/ (mem'.pj = NoPostJob /\ pc' = "done")
                               \/ (mem' = mem /\ pc # "done")
  PROVE  StoreInv' /\ RevisionOrdered
<1>1. used.failures \in Nat /\ used'.failures \in Nat  BY DEF TypeOK
<1>2. FailuresFit'  BY <1>1 DEF StoreInv, FailuresFit, Spends
<1>3. MemFits'
  <2>1. CASE mem'.pj = NoPostJob /\ pc' = "done"  BY <2>1 DEF MemFits
  <2>2. CASE mem' = mem /\ (pc' = pc \/ pc # "done")  BY <2>2 DEF MemFits, StoreInv
  <2>3. QED  BY <2>1, <2>2
<1>4. store \in Stores  BY DEF TypeOK
<1>5. Revision(store.pj) \in Nat  BY <1>4, RevisionType
<1>6. QED  BY <1>2, <1>3, <1>5 DEF StoreInv, RevisionOrdered

LEMMA CommitIsMove ==
  ASSUME NEW st \in Stores, LatestFits(st),
         st.pj = store.pj \/ Revision(st.pj) > Revision(store.pj),
         store \in Stores,
         NEW s, SameRevisionAs(s, EffectiveState(st.pj)),
         \/ store' = Committed(st, s)
         \/ store' = CommitRaised(st, s) /\ used'.failures # 0
  PROVE  Moves
<1>1. Advanced(st, Committed(st, s)) /\ Withheld(st, CommitRaised(st, s))
  BY CommitAdvances
<1>2. Revision(st.pj) \in Nat /\ Revision(store.pj) \in Nat  BY RevisionType
<1>3. CASE store' = Committed(st, s)
  <2>1. store' \in Stores  BY <1>1, <1>3 DEF Advanced
  <2>2. Revision(store'.pj) \in Nat  BY <2>1, RevisionType
  <2>3. Revision(store'.pj) > Revision(store.pj)
    BY <1>1, <1>2, <1>3, <2>2 DEF Advanced
  <2>4. QED  BY <1>1, <1>3, <2>1, <2>3 DEF Advanced, Moves, LatestFits
<1>4. CASE store' = CommitRaised(st, s) /\ used'.failures # 0
  BY <1>1, <1>4, AdvancedFits DEF Withheld, Moves
<1>5. QED  BY <1>3, <1>4

(* A second commit on top of the first one's store. *)
LEMMA CommittedFits ==
  ASSUME NEW st \in Stores, LatestFits(st),
         NEW s, SameRevisionAs(s, EffectiveState(st.pj))
  PROVE  /\ Committed(st, s) \in Stores /\ LatestFits(Committed(st, s))
         /\ Revision(Committed(st, s).pj) > Revision(st.pj)
         /\ CommitRaised(st, s) \in Stores /\ LatestFits(CommitRaised(st, s))
         /\ CommitRaised(st, s).pj = st.pj
  BY CommitAdvances, AdvancedFits DEF Advanced, Withheld

OneFailure == MaxSaveFailures <= 1 /\ ~StaleMarking

LEMMA RaiseSpends ==
  ASSUME TypeOK, StoreInv, NEW n \in {1, 2}, CanRaise(n), Raise(n)
  PROVE  /\ Spends /\ used'.failures # 0
         /\ OneFailure => used.failures = 0
<1>1. used.failures \in Nat /\ used'.failures = used.failures + n
  BY DEF TypeOK, Raise
<1>2. QED  BY <1>1 DEF CanRaise, Spends, OneFailure

LEMMA SameSpends ==
  ASSUME TypeOK, StoreInv, UNCHANGED used
  PROVE  Spends
  BY DEF TypeOK, StoreInv, FailuresFit, Spends

(* A save of the pipeline's copy that returns moves the store; one that raises  *)
(* leaves it alone, and leaves the copy as the file is.                        *)
LEMMA SaveMemMoves ==
  ASSUME OneFailure, TypeOK, StoreInv, pc # "done", NEW status \in JobStatuses,
         SaveMem(status) \/ SaveMemRaises(status)
  PROVE  Spends /\ Moves /\ mem.pj # NoPostJob /\ mem'.pj = store'.pj
<1>1. /\ store \in Stores /\ mem.pj \in PostJobStates \cup {NoPostJob}
      /\ LatestFits(store) /\ MemFits /\ mem.pj # NoPostJob
  BY DEF TypeOK, StoreInv, MemFits
<1>2. LET st == Saved(store, status, mem.pj)
      IN /\ st.latest = st.pj /\ st.pj = store.latest /\ st.pj # NoPostJob
         /\ \/ st.pj = store.pj
            \/ Revision(st.pj) = Revision(store.pj) + 1
         /\ SaveRaised(store, mem.pj) = store
  BY <1>1, MemSaves
<1>3. Revision(store.pj) \in Nat  BY <1>1, RevisionType
<1>4. CASE SaveMem(status)
  <2>1. store' \in Stores  BY <1>1, <1>4, SavedType DEF SaveMem
  <2>2. Spends  BY <1>4, SameSpends DEF SaveMem
  <2>3. Moves  BY <1>2, <1>3, <1>4, <2>1 DEF SaveMem, Moves, LatestFits
  <2>4. QED  BY <1>1, <1>4, <2>2, <2>3 DEF SaveMem
<1>5. CASE SaveMemRaises(status)
  <2>1. store' = store /\ mem'.pj = store'.latest
    BY <1>2, <1>5 DEF SaveMemRaises
  <2>2. Spends /\ used'.failures # 0 /\ used.failures = 0
    BY <1>5, RaiseSpends DEF SaveMemRaises
  <2>3. store.latest # NoPostJob /\ store.latest = store.pj
    BY <1>1, <2>2 DEF StoreInv, FailuresFit, MemFits
  <2>4. QED  BY <1>1, <2>1, <2>2, <2>3 DEF Moves
<1>6. QED  BY <1>4, <1>5

LEMMA RaisesOutKeeps ==
  ASSUME TypeOK, TypeOK', StoreInv, pc # "done", NEW n \in {1, 2}, SaveRaisesOutOfRun(n),
         UNCHANGED <<server, snapshot>>
  PROVE  StoreInv' /\ RevisionOrdered
<1>1. /\ store \in Stores /\ mem.pj \in PostJobStates \cup {NoPostJob}
      /\ LatestFits(store) /\ MemFits /\ mem.pj # NoPostJob
  BY DEF TypeOK, StoreInv, MemFits
<1>2. SaveRaised(store, mem.pj) = store  BY <1>1, MemSaves DEF JobStatuses
<1>3. store' = store /\ mem'.pj = NoPostJob /\ pc' = "done"
  BY <1>2 DEF SaveRaisesOutOfRun, NoJob
<1>4. Spends  BY RaiseSpends DEF SaveRaisesOutOfRun
<1>5. QED  BY <1>3, <1>4, StillKeep
-----------------------------------------------------------------------------
(* Action by action. *)
LEMMA PipelineOrdered ==
  ASSUME OneFailure, TypeOK, TypeOK', StoreInv, Pipeline
  PROVE  StoreInv' /\ RevisionOrdered
<1> USE DEF PipelineOnly
<1>0. /\ store \in Stores /\ mem.pj \in PostJobStates \cup {NoPostJob}
      /\ LatestFits(store) /\ MemFits
  BY DEF TypeOK, StoreInv
<1>u. server = "up"
  BY DEF Pipeline, SaveWhileQueued, StageSave, BranchSaveRaises, FailPipeline,
         FinishPipeline, SaveRaisesFailsJob, PostCompletionStep, HookCompleted, HookFailed
<1>v. UNCHANGED <<server, snapshot>>
  BY DEF Pipeline, SaveWhileQueued, StageSave, BranchSaveRaises, FailPipeline,
         FinishPipeline, SaveRaisesFailsJob, PostCompletionStep, HookCompleted, HookFailed
<1>p. pc # "done"
  BY DEF Pipeline, SaveWhileQueued, StageSave, BranchSaveRaises, FailPipeline, Following,
         FinishPipeline, SaveRaisesFailsJob, PostCompletionStep, HookCompleted, HookFailed
<1>1. ASSUME NEW status \in JobStatuses, SaveMem(status) \/ SaveMemRaises(status)
      PROVE  StoreInv' /\ RevisionOrdered
  BY <1>1, <1>p, <1>u, <1>v, SaveMemMoves, MovesKeep
<1>2. ASSUME NEW n \in {1, 2}, SaveRaisesOutOfRun(n)
      PROVE  StoreInv' /\ RevisionOrdered
  BY <1>2, <1>p, <1>v, RaisesOutKeeps
<1>3. CASE SaveWhileQueued \/ StageSave \/ BranchSaveRaises \/ FailPipeline \/ FinishPipeline
  BY <1>3, <1>1, <1>2
     DEF SaveWhileQueued, StageSave, BranchSaveRaises, FailPipeline, FinishPipeline, JobStatuses
<1>4. CASE SaveRaisesFailsJob
  <2>1. CASE SaveRaisesOutOfRun(2)  BY <2>1, <1>2
  <2>2. CASE /\ CanRaise(1) /\ Raise(1)
             /\ LET lost == SaveRaised(store, mem.pj)
                IN store' = Saved(lost, "failed", lost.latest)
             /\ mem' = [status |-> "failed", pj |-> store'.pj]
    <3>1. mem.pj # NoPostJob  BY <1>p, <1>0 DEF MemFits
    <3>2. SaveRaised(store, mem.pj) = store
      BY <1>0, <3>1, MemSaves DEF JobStatuses
    <3>3. Spends /\ used'.failures # 0 /\ used.failures = 0  BY <2>2, RaiseSpends
    <3>4. store.latest # NoPostJob /\ store.latest = store.pj
      BY <1>0, <3>1, <3>3 DEF StoreInv, FailuresFit, MemFits
    <3>5. store' = [status |-> "failed", pj |-> store.pj, latest |-> store.pj]
      BY <2>2, <3>2, <3>4 DEF Saved, MergePostJob
    <3>6. Moves /\ mem'.pj = store'.pj
      BY <2>2, <3>4, <3>5 DEF Moves, LatestFits, TypeOK
    <3>7. QED  BY <3>1, <3>3, <3>6, <1>u, <1>v, MovesKeep
  <2>3. QED  BY <1>4, <2>1, <2>2 DEF SaveRaisesFailsJob
<1>5. CASE PostCompletionStep
  <2>1. CASE SaveMem("completed") \/ SaveMemRaises("completed")
    BY <2>1, <1>1 DEF JobStatuses
  <2>2. CASE UNCHANGED <<store, mem, used>>
    BY <2>2, <1>p, <1>v, SameSpends, StillKeep
  <2>3. QED  BY <1>5, <2>1, <2>2 DEF PostCompletionStep
<1>6. CASE HookCompleted \/ HookFailed
  <2>1. mem'.pj = NoPostJob /\ pc' = "done"
    <3>1. mem' = NoJob /\ pc' = "done"  BY <1>6 DEF HookCompleted, HookFailed
    <3>2. QED  BY <3>1 DEF NoJob
  <2>2. CASE UNCHANGED <<store, used>>
    BY <2>1, <2>2, <1>v, SameSpends, StillKeep
  <2>3. CASE ~UNCHANGED <<store, used>>
    <3>1. PICK s \in {Decided(store.pj, TRUE), SettleFailedJob(store.pj)} :
            /\ store.pj # NoPostJob
            /\ \/ store' = Committed(store, s) /\ UNCHANGED used
               \/ CanRaise(1) /\ Raise(1) /\ store' = CommitRaised(store, s)
      BY <1>6, <2>3 DEF HookCompleted, HookFailed
    <3>2. SameRevisionAs(s, EffectiveState(store.pj))
      BY <1>0, <3>1, FlowPair DEF EffectiveState
    <3>3. Spends /\ (used' = used \/ used'.failures # 0)
      BY <3>1, RaiseSpends, SameSpends
    <3>4. Moves  BY <1>0, <3>1, <3>2, <3>3, RaiseSpends, CommitIsMove
    <3>5. QED  BY <2>1, <3>3, <3>4, <1>u, <1>v, MovesKeep
  <2>4. QED  BY <2>2, <2>3
<1>7. QED  BY <1>3, <1>4, <1>5, <1>6 DEF Pipeline

LEMMA UserOrdered ==
  ASSUME TypeOK, TypeOK', StoreInv, User
  PROVE  StoreInv' /\ RevisionOrdered
<1>0. store \in Stores /\ LatestFits(store)
  BY DEF TypeOK, StoreInv
<1>f. PushInFlight \in BOOLEAN  BY DEF TypeOK, PushInFlight
<1>u. /\ server = "up" /\ server' = "up"
      /\ UNCHANGED <<snapshot, mem, pc>>
  BY DEF User, ApplyOverride, CompleteReview, ReadState, RetryPush, PipelineOnly
<1>g. used.failures \in Nat  BY DEF TypeOK
<1>1. Spends
  <2>1. \/ used'.failures = used.failures
        \/ CanRaise(1) /\ used'.failures = used.failures + 1
    BY DEF User, ApplyOverride, CompleteReview, ReadState, RetryPush, Raise, TypeOK
  <2>2. QED  BY <2>1, <1>g DEF CanRaise, Spends, StoreInv, FailuresFit
<1> SUFFICES Moves
  BY <1>1, <1>u, MovesKeep
<1>2. ASSUME NEW s, SameRevisionAs(s, EffectiveState(store.pj)),
             \/ store' = Committed(store, s)
             \/ store' = CommitRaised(store, s) /\ used'.failures # 0
      PROVE  Moves
  BY <1>0, <1>2, CommitIsMove
<1>3. ASSUME NEW review \in Answers, NEW push \in Answers, NEW allowed \in BOOLEAN,
             ApplyOverride(review, push, allowed)
      PROVE  Moves
  <2> DEFINE c == Chosen(HealInterrupted(EffectiveState(store.pj), PushInFlight), review, push)
             d == store.status = "completed"
  <2>1. SameRevisionAs(Decided(c, d), EffectiveState(store.pj))
    <3>1. d \in BOOLEAN  OBVIOUS
    <3>2. QED  BY <1>0, <1>f, <3>1, FlowStates
  <2>2. \/ store' = Committed(store, Decided(c, d))
        \/ store' = CommitRaised(store, Decided(c, d)) /\ used'.failures = used.failures + 1
    BY <1>3 DEF ApplyOverride, TypeOK
  <2>3. QED  BY <1>g, <2>1, <2>2, <1>2
<1>4. CASE CompleteReview
  <2> DEFINE over == [EffectiveState(store.pj) EXCEPT !.review_status = "completed"]
             d    == Decided(over, TRUE)
  <2>1. SameRevisionAs(d, EffectiveState(store.pj))  BY <1>0, FlowStates DEF Answers
  <2>2. \/ store' = Committed(store, d)
        \/ store' = CommitRaised(store, d) /\ used'.failures # 0
    BY <1>4, <1>g, RaiseSpends DEF CompleteReview
  <2> HIDE DEF d
  <2>3. QED  BY <2>1, <2>2, <1>2
<1>5. CASE ReadState
  <2> DEFINE s == HealInterrupted(store.pj, PushInFlight)
  <2>1. SameRevisionAs(s, EffectiveState(store.pj))
    BY <1>0, <1>f, <1>5, FlowPair DEF ReadState, EffectiveState
  <2>2. store' = Committed(store, s) \/ (store' = CommitRaised(store, s) /\ used'.failures # 0)
    BY <1>5, <1>g, RaiseSpends DEF ReadState
  <2> HIDE DEF s
  <2>3. QED  BY <2>1, <2>2, <1>2
<1>6. CASE RetryPush
  <2> DEFINE wanted  == [HealInterrupted(EffectiveState(store.pj), FALSE)
                           EXCEPT !.push = "requested"]
             retried == Committed(store, wanted)
  <2>1. SameRevisionAs(wanted, EffectiveState(store.pj))  BY <1>0, FlowStates DEF Answers
  <2>2. /\ retried \in Stores /\ LatestFits(retried)
        /\ Revision(retried.pj) > Revision(store.pj)
    BY <1>0, <2>1, CommittedFits
  <2>3. SameRevisionAs(Starting(retried), EffectiveState(retried.pj))
    BY <2>2, FlowStates DEF Answers
  <2>4. \/ store' = Committed(retried, Starting(retried))
        \/ /\ used'.failures # 0
           /\ \/ store' = CommitRaised(retried, Starting(retried))
              \/ store' = CommitRaised(store, wanted)
    <3>1. used'.failures = used.failures + 1 => used'.failures # 0  BY <1>g
    <3>2. QED  BY <1>6, <3>1 DEF RetryPush, SendFrom, DropFrom, TypeOK
  <2> HIDE DEF wanted, retried
  <2>5. CASE store' = CommitRaised(store, wanted) /\ used'.failures # 0
    BY <2>1, <2>5, <1>2
  <2>6. CASE \/ store' = Committed(retried, Starting(retried))
             \/ /\ used'.failures # 0
                /\ store' = CommitRaised(retried, Starting(retried))
    BY <1>0, <2>2, <2>3, <2>6, CommitIsMove
  <2>7. QED  BY <2>4, <2>5, <2>6
<1>7. CASE \E review, push \in Answers, allowed \in BOOLEAN :
            ApplyOverride(review, push, allowed)
  BY <1>7, <1>3
<1>8. QED  BY <1>4, <1>5, <1>6, <1>7 DEF User

LEMMA PushOrdered ==
  ASSUME TypeOK, TypeOK', StoreInv, StartScheduledPush \/ InsightsIngests \/ PushAnswered
  PROVE  StoreInv' /\ RevisionOrdered
<1>0. store \in Stores /\ LatestFits(store)
  BY DEF TypeOK, StoreInv
<1>u. /\ server = "up" /\ server' = "up"
      /\ UNCHANGED <<snapshot, mem, pc>>
  BY DEF StartScheduledPush, InsightsIngests, PushAnswered
<1>1. CASE UNCHANGED <<store, used>>
  BY <1>1, <1>u, SameSpends, StillKeep
<1>2. CASE StartScheduledPush /\ ~UNCHANGED <<store, used>>
  <2>1. SameRevisionAs(Starting(store), EffectiveState(store.pj))
    BY <1>0, FlowStates DEF Answers
  <2>2. \/ store' = Committed(store, Starting(store)) /\ UNCHANGED used
        \/ CanRaise(1) /\ Raise(1) /\ store' = CommitRaised(store, Starting(store))
    BY <1>2 DEF StartScheduledPush, SendFrom, DropFrom
  <2>3. Spends /\ (used' = used \/ used'.failures # 0)
    BY <2>2, RaiseSpends, SameSpends
  <2>4. Moves  BY <1>0, <2>1, <2>2, RaiseSpends, CommitIsMove
  <2>5. QED  BY <2>3, <2>4, <1>u, MovesKeep
<1>3. CASE PushAnswered
  <2>1. PICK p \in wire : \E result \in Answer(p) : Answered(p, result)
    BY <1>3 DEF PushAnswered, Answered
  <2>2. PICK result \in Answer(p) : Answered(p, result)  BY <2>1
  <2> DEFINE lost == CommitRaised(store, Recorded(store, result))
             last == Recorded(lost, "failed")
  <2>3. result \in {"pushed", "failed", "not_configured"}  BY DEF Answer
  <2>4. SameRevisionAs(Recorded(store, result), EffectiveState(store.pj))
    BY <1>0, <2>3, FlowStates DEF Answers
  <2>5. lost \in Stores /\ LatestFits(lost) /\ lost.pj = store.pj
    BY <1>0, <2>4, CommittedFits
  <2>6. SameRevisionAs(last, EffectiveState(lost.pj))
    BY <2>5, FlowStates DEF Answers
  <2>7. \/ store' = Committed(store, Recorded(store, result)) /\ UNCHANGED used
        \/ /\ \E n \in {1, 2} : CanRaise(n) /\ Raise(n)
           /\ store' = Committed(lost, last) \/ store' = CommitRaised(lost, last)
    BY <2>2 DEF Answered
  <2> HIDE DEF lost, last
  <2>8. CASE store' = Committed(store, Recorded(store, result)) /\ UNCHANGED used
    <3>1. Moves  BY <1>0, <2>4, <2>8, CommitIsMove
    <3>2. QED  BY <2>8, <3>1, <1>u, SameSpends, MovesKeep
  <2>9. CASE /\ \E n \in {1, 2} : CanRaise(n) /\ Raise(n)
             /\ store' = Committed(lost, last) \/ store' = CommitRaised(lost, last)
    <3>1. Spends /\ used'.failures # 0  BY <2>9, RaiseSpends
    <3>2. Moves  BY <1>0, <2>5, <2>6, <2>9, <3>1, CommitIsMove
    <3>3. QED  BY <3>1, <3>2, <1>u, MovesKeep
  <2>10. QED  BY <2>7, <2>8, <2>9
<1>4. QED  BY <1>1, <1>2, <1>3 DEF InsightsIngests

LEMMA ServerOrdered ==
  ASSUME OneFailure, TypeOK, TypeOK', StoreInv,
         StaleRead \/ StaleWrite \/ Crash \/ FailOrphan \/ Recover
  PROVE  StoreInv' /\ RevisionOrdered
<1>0. store \in Stores /\ LatestFits(store)
  BY DEF TypeOK, StoreInv
<1>r. Revision(store.pj) \in Nat  BY <1>0, RevisionType
<1>1. ~StaleRead /\ ~StaleWrite
  BY DEF OneFailure, StaleRead, StaleWrite, StoreInv
<1>2. CASE Crash \/ FailOrphan
  <2>1. store'.pj = store.pj /\ store'.latest = NoPostJob
    BY <1>0, <1>2 DEF Crash, FailOrphan, Stores, StoreInv
  <2>2. snapshot' = NoSnapshot /\ used'.failures = used.failures
    BY <1>2 DEF Crash, FailOrphan, StoreInv, TypeOK
  <2>3. MemFits'
    <3>1. CASE Crash  BY <3>1 DEF Crash, MemFits, NoJob
    <3>2. CASE FailOrphan  BY <2>1, <3>2, <1>0 DEF FailOrphan, MemFits, StoreInv
    <3>3. QED  BY <1>2, <3>1, <3>2
  <2>4. QED  BY <2>1, <2>2, <2>3, <1>r DEF StoreInv, FailuresFit, LatestFits, RevisionOrdered
<1>3. CASE Recover
  <2>u. server' = "up" /\ UNCHANGED <<snapshot, mem, pc>>  BY <1>3 DEF Recover
  <2>f. PushInFlight \in BOOLEAN  BY DEF TypeOK, PushInFlight
  <2> DEFINE healed  == HealInterrupted(store.pj, PushInFlight)
             settled == IF store.status = "failed" THEN SettleFailedJob(healed) ELSE healed
             swept   == IF settled = store.pj THEN store ELSE Committed(store, settled)
             resume  == store.status = "completed" /\ settled.review_status = "pending_job"
  <2>1. CASE UNCHANGED <<store, used>>
    BY <2>1, <2>u, SameSpends, StillKeep
  <2>2. CASE ~UNCHANGED <<store, used>>
    <3>1. /\ store.pj # NoPostJob
          /\ \/ /\ store' = IF resume THEN Committed(swept, Decided(swept.pj, TRUE)) ELSE swept
                /\ UNCHANGED used
             \/ /\ CanRaise(1) /\ Raise(1)
                /\ \/ settled # store.pj /\ store' = CommitRaised(store, settled)
                   \/ resume /\ store' = CommitRaised(swept, Decided(swept.pj, TRUE))
      BY <1>3, <2>2 DEF Recover
    <3>2. SameRevisionAs(settled, EffectiveState(store.pj))
      BY <1>0, <2>f, <3>1, FlowPair DEF EffectiveState
    <3>3. /\ swept \in Stores /\ LatestFits(swept)
          /\ swept.pj = store.pj \/ Revision(swept.pj) > Revision(store.pj)
      BY <1>0, <3>2, CommittedFits
    <3>4. swept.pj # NoPostJob
      BY <1>0, <3>1, <3>2, SweptIsAState
    <3>5. SameRevisionAs(Decided(swept.pj, TRUE), EffectiveState(swept.pj))
      BY <3>3, <3>4, FlowPair DEF EffectiveState
    <3>6. Spends /\ (used' = used \/ used'.failures # 0)
      BY <3>1, RaiseSpends, SameSpends
    <3>7. swept = store \/ swept = Committed(store, settled)  OBVIOUS
    <3> DEFINE resumed == Decided(swept.pj, TRUE)
    <3>8. \/ store' = Committed(store, settled)
          \/ store' = Committed(swept, resumed)
          \/ used'.failures # 0 /\ store' = CommitRaised(store, settled)
          \/ used'.failures # 0 /\ store' = CommitRaised(swept, resumed)
      BY <2>2, <3>1, <3>7, RaiseSpends
    <3> HIDE DEF healed, settled, swept, resume, resumed
    <3>9. Moves
      <4>1. SameRevisionAs(resumed, EffectiveState(swept.pj))  BY <3>5 DEF resumed
      <4>2. QED  BY <1>0, <3>2, <3>3, <3>8, <4>1, CommitIsMove
    <3>10. QED  BY <3>6, <3>9, <2>u, MovesKeep
  <2>3. QED  BY <2>1, <2>2
<1>4. QED  BY <1>1, <1>2, <1>3

LEMMA StepOrdered ==
  ASSUME OneFailure, TypeOK, TypeOK', StoreInv, [Next]_vars
  PROVE  StoreInv' /\ RevisionOrdered
<1>1. CASE UNCHANGED vars
  <2>1. UNCHANGED <<server, store, snapshot, used, mem, pc>>
    BY <1>1 DEF vars, system
  <2>2. QED  BY <2>1, SameSpends, StillKeep
<1>2. CASE Next
  BY <1>2, PipelineOrdered, UserOrdered, PushOrdered, ServerOrdered DEF Next
<1>3. QED  BY <1>1, <1>2

(* The stored revision of a job never goes back and never stands for two       *)
(* states, for any number of requests, pushes and crashes, if at most one save *)
(* raises and no thread marks the job as stale: an older copy of the job, the  *)
(* pipeline's above all, never overwrites what a user or the flow decided.     *)
THEOREM RevisionsOnlyMoveOn ==
  ASSUME OneFailure
  PROVE  Spec => RevisionNeverRollsBack
<1>1. TypeOK /\ TypeOK' /\ StoreInv /\ [Next]_vars =>
        StoreInv' /\ [/\ EffectiveState(store'.pj).revision >= Current.revision
                      /\ EffectiveState(store'.pj).revision = Current.revision
                           => store'.pj = store.pj]_store
  BY StepOrdered DEF RevisionOrdered, Revision, Current
<1>2. QED
  BY <1>1, InitStoreInv, TypeCorrect, PTL DEF Spec, RevisionNeverRollsBack
-----------------------------------------------------------------------------
(* What is held of the job: what is stored, and the commit a raising save has  *)
(* kept out of the file.  The pipeline's next save may store the second in the *)
(* place of the first, so that what is claimed is claimed of both.             *)
Held(st) == {EffectiveState(st.pj)} \cup ({st.latest} \ {NoPostJob})

(* A requested push that waits was asked for and has not been sent. *)
Owed(s) == IF s.push = "requested" /\ s.push_status \in Waiting THEN 1 ELSE 0

Accounted(s) == started + tasks + Owed(s) <= granted /\ s.push_attempts >= started

InStep(s) == /\ PushInFlight => s.push_status = "pending"
             /\ tasks > 0 => s.review_status # "pending_job"
             /\ s.push_status = "pushed" => accepted

Sound(s) == /\ Accounted(s) /\ InStep(s) /\ Fits(s, store.status)
            /\ ChoiceOf(s) \in {choice} \cup unsaved

PipelineFits ==
  /\ pc \in {"queued", "reading", "branches", "post"} => store.status \in {"pending", "enriching"}
  /\ pc \in {"aol", "doctype"} => store.status = "completed"
  /\ pc \in {"aol", "doctype", "hook"} => store.status = mem.status /\ store.status \in Terminal

SenderFits ==
  /\ QueuedIsExact
  /\ tasks > 0 => wire = {} /\ store.status = "completed"
  /\ in_flight <=> wire # {}
  /\ \A p \in wire : p.delivered => accepted
  /\ server # "up" => tasks = 0 /\ wire = {} /\ pc = "done"
  /\ server = "booting" => store.status \in Terminal

(* How the record of a push may move when a save finally stores it. *)
RecordMoves(r, n) == \/ n = r
                     \/ r \in {"idle", "failed"} /\ n = "pending"
                     \/ r \in {"pending", "failed"} /\ n = "idle"
                     \/ r = "pending" /\ n = "failed"

LateFits == store.latest # NoPostJob => RecordMoves(PushRecord, RecordOf(store.latest))

HeldSound == \A s \in Held(store) : Sound(s)

PushInv == HeldSound /\ PipelineFits /\ SenderFits /\ LateFits

(* A step that leaves the sender of the push alone.                            *)
Quiet == /\ UNCHANGED <<wire, tasks, queued, in_flight, accepted>>
         /\ RecordMoves(PushRecord, PushRecord')

LEMMA SenderIs ==
  /\ wire = {} => PushSender = IF tasks > 0 THEN "scheduled" ELSE "none"
  /\ wire # {} /\ (\A p \in wire : ~p.delivered) => PushSender = "calling"
  /\ (\E p \in wire : p.delivered) => PushSender = "ingested"
BY DEF PushSender

LEMMA SenderBecomes ==
  /\ wire' = {} => PushSender' = IF tasks' > 0 THEN "scheduled" ELSE "none"
  /\ wire' # {} /\ (\A p \in wire' : ~p.delivered) => PushSender' = "calling"
  /\ (\E p \in wire' : p.delivered) => PushSender' = "ingested"
BY DEF PushSender

LEMMA HeldTypes ==
  ASSUME TypeOK
  PROVE  /\ Current \in Held(store) /\ Current \in PostJobStates
         /\ store.latest # NoPostJob => store.latest \in Held(store)
         /\ Held(store) \subseteq PostJobStates
<1>1. store.pj \in PostJobStates \cup {NoPostJob} /\ store.latest \in PostJobStates \cup {NoPostJob}
  BY DEF TypeOK, Stores
<1>2. Current \in PostJobStates  BY <1>1, EffectiveType DEF Current
<1>3. QED  BY <1>1, <1>2 DEF Held, Current

(* A commit that returns leaves one state held, one that raises two. *)
LEMMA CommitHolds ==
  ASSUME NEW st \in Stores, LatestFits(st),
         NEW d, SameRevisionAs(d, EffectiveState(st.pj))
  PROVE  /\ LET done == Committed(st, d)
            IN /\ done.status = st.status /\ done.latest = done.pj /\ done.pj # NoPostJob
               /\ Alike(EffectiveState(done.pj), d)
               /\ \A n \in Held(done) : Alike(n, d)
         /\ LET lost == CommitRaised(st, d)
            IN /\ lost.status = st.status /\ lost.pj = st.pj
               /\ Alike(lost.latest, d)
               /\ \A n \in Held(lost) : n = EffectiveState(st.pj) \/ Alike(n, d)
<1> DEFINE n == NextRevision(st, d)
           done == Committed(st, d)
           lost == CommitRaised(st, d)
<1>1. /\ n \in PostJobStates
      /\ done = [status |-> st.status, pj |-> n, latest |-> n]
      /\ lost = [st EXCEPT !.latest = n]
  BY CommitMoves
<1>2. Alike(n, d)  BY NextRevisionAlike
<1>3. n # NoPostJob /\ EffectiveState(n) = n  BY <1>1 DEF EffectiveState
<1>4. lost.status = st.status /\ lost.pj = st.pj /\ lost.latest = n  BY <1>1 DEF Stores
<1> HIDE DEF n, done, lost
<1>5. \A m \in Held(done) : Alike(m, d)  BY <1>1, <1>2, <1>3 DEF Held
<1>6. \A m \in Held(lost) : m = EffectiveState(st.pj) \/ Alike(m, d)
  BY <1>2, <1>3, <1>4 DEF Held
<1>7. QED  BY <1>1, <1>2, <1>3, <1>4, <1>5, <1>6 DEF done, lost

LEMMA CommitStatus ==
  ASSUME NEW st \in Stores, NEW d
  PROVE  Committed(st, d).status = st.status /\ CommitRaised(st, d).status = st.status
BY DEF Committed, Saved, CommitRaised, SaveRaised, Stores

LEMMA AlikeRecord ==
  ASSUME NEW t, NEW s, Alike(t, s)
  PROVE  RecordOf(t) = RecordOf(s)
BY DEF Alike, RecordOf

LEMMA CommitRecord ==
  ASSUME NEW st \in Stores, LatestFits(st),
         NEW d, SameRevisionAs(d, EffectiveState(st.pj))
  PROVE  /\ store' = Committed(st, d) => PushRecord' = RecordOf(d)
         /\ store' = CommitRaised(st, d) => PushRecord' = RecordOf(EffectiveState(st.pj))
  BY CommitHolds, AlikeRecord DEF PushRecord, Current

(* What has to be shown of a state for the one that is committed to be sound. *)
LEMMA NewSound ==
  ASSUME NEW d, NEW n, Alike(n, d),
         started' + tasks' + Owed(d) <= granted', d.push_attempts >= started',
         PushInFlight' => d.push_status = "pending",
         tasks' > 0 => d.review_status # "pending_job",
         d.push_status = "pushed" => accepted',
         Fits(d, store'.status), ChoiceOf(d) \in {choice'} \cup unsaved'
  PROVE  Sound(n)'
<1>1. Owed(n) = Owed(d) /\ ChoiceOf(n) = ChoiceOf(d)  BY DEF Alike, Owed, ChoiceOf
<1>2. Accounted(n)'  BY <1>1 DEF Alike, Accounted, Owed
<1>3. InStep(n)'  BY DEF Alike, InStep, PushInFlight
<1>4. Fits(n, store.status)'  BY DEF Alike, Fits
<1>5. QED  BY <1>1, <1>2, <1>3, <1>4 DEF Sound, ChoiceOf

(* A step that asks nothing more of the states that are held. *)
Eases == /\ started' = started /\ tasks' \in Nat /\ tasks' <= tasks
         /\ granted' \in Nat /\ granted' >= granted
         /\ PushInFlight' => PushInFlight
         /\ accepted => accepted'
         /\ {choice} \cup unsaved \subseteq {choice'} \cup unsaved'

LEMMA StillSound ==
  ASSUME TypeOK, Eases, NEW s, Sound(s), Fits(s, store.status) => Fits(s, store'.status)
  PROVE  Sound(s)'
<1>1. Owed(s) \in {0, 1}  BY DEF Owed
<1>2. /\ started \in Nat /\ tasks \in Nat /\ granted \in Nat
      /\ started' = started /\ tasks' \in Nat /\ tasks' <= tasks
      /\ granted' \in Nat /\ granted' >= granted
  BY DEF TypeOK, Eases
<1>3. started + tasks + Owed(s) <= granted /\ s.push_attempts >= started
  BY DEF Sound, Accounted
<1>4. started' + tasks' + Owed(s) <= granted' /\ s.push_attempts >= started'
  BY <1>1, <1>2, <1>3
<1>5. Accounted(s)'  BY <1>4 DEF Accounted, Owed
<1>6. InStep(s)'  BY <1>2 DEF Sound, InStep, Eases
<1>7. Fits(s, store.status)'  BY DEF Sound, Fits
<1>8. QED  BY <1>5, <1>6, <1>7 DEF Sound, Eases, ChoiceOf

LEMMA CommitsSound ==
  ASSUME NEW st \in Stores, LatestFits(st),
         NEW d, SameRevisionAs(d, EffectiveState(st.pj)),
         \A n : Alike(n, d) => Sound(n)',
         \/ store' = Committed(st, d)
         \/ /\ store' = CommitRaised(st, d)
            /\ \A s : s = EffectiveState(st.pj) => Sound(s)'
            /\ RecordMoves(RecordOf(EffectiveState(st.pj)), RecordOf(d))
  PROVE  HeldSound' /\ LateFits' /\ store'.status = st.status
<1>1. CASE store' = Committed(st, d)
  <2>1. /\ store'.status = st.status /\ store'.latest = store'.pj /\ store'.pj # NoPostJob
        /\ \A n \in Held(store') : Alike(n, d)
    BY <1>1, CommitHolds
  <2>2. RecordOf(EffectiveState(store'.pj)) = RecordOf(store'.latest)
    BY <2>1 DEF EffectiveState
  <2>3. QED  BY <2>1, <2>2 DEF HeldSound, LateFits, RecordMoves, PushRecord, Current
<1>2. CASE /\ store' = CommitRaised(st, d)
           /\ \A s : s = EffectiveState(st.pj) => Sound(s)'
           /\ RecordMoves(RecordOf(EffectiveState(st.pj)), RecordOf(d))
  <2>1. /\ store'.status = st.status /\ store'.pj = st.pj
        /\ Alike(store'.latest, d)
        /\ \A n \in Held(store') : n = EffectiveState(st.pj) \/ Alike(n, d)
    BY <1>2, CommitHolds
  <2>2. RecordOf(store'.latest) = RecordOf(d)  BY <2>1, AlikeRecord
  <2>3. RecordMoves(RecordOf(EffectiveState(store'.pj)), RecordOf(store'.latest))
    BY <1>2, <2>1, <2>2
  <2>4. QED  BY <1>2, <2>1, <2>3 DEF HeldSound, LateFits, PushRecord, Current
<1>3. QED  BY <1>1, <1>2
-----------------------------------------------------------------------------
(* The decision taken on a state x that stands for what st holds: if a push is *)
(* due it gets its task, and it is pending in the same commit.                 *)
LEMMA DecisionRecord ==
  ASSUME NEW x \in PostJobStates, NEW done \in BOOLEAN
  PROVE  LET d == Decided(x, done)
         IN /\ d \in PostJobStates /\ ChoiceOf(d) = ChoiceOf(x)
            /\ d.push_attempts = x.push_attempts
            /\ IF PushScheduled(x, done)
               THEN /\ done /\ Owed(x) = 1 /\ Owed(d) = 0
                    /\ RecordOf(x) = "idle" /\ RecordOf(d) = "pending"
                    /\ x.push_status \in Waiting /\ d.push_status = "pending"
               ELSE Owed(d) = Owed(x) /\ RecordOf(d) = RecordOf(x) /\ KeepsPush(d, x)
<1> DEFINE d   == Decided(x, done)
           due == PushScheduled(x, done)
<1>1. CASE done
  <2>1. /\ KeepsChoices(d, x)
        /\ IF due
           THEN /\ x.push = "requested" /\ x.push_status \in Waiting
                /\ d.push_status = "pending"
           ELSE KeepsPush(d, x)
    BY <1>1, DecidedWhenDone
  <2> HIDE DEF d, due
  <2>2. CASE due
    <3>1. Owed(x) = 1 /\ Owed(d) = 0 /\ RecordOf(x) = "idle" /\ RecordOf(d) = "pending"
      BY <2>1, <2>2 DEF Owed, RecordOf, Waiting, Retryable
    <3>2. QED  BY <1>1, <2>1, <2>2, <3>1 DEF KeepsChoices, ChoiceOf, d, due
  <2>3. CASE ~due
    <3>1. Owed(d) = Owed(x) /\ RecordOf(d) = RecordOf(x)
      BY <2>1, <2>3 DEF Owed, RecordOf, KeepsChoices, KeepsPush, Waiting, Retryable
    <3>2. QED  BY <2>1, <2>3, <3>1 DEF KeepsChoices, ChoiceOf, d, due
  <2>4. QED  BY <2>2, <2>3
<1>2. CASE ~done
  <2>1. KeepsChoices(d, x) /\ KeepsPush(d, x) /\ ~PushScheduled(x, done)
    BY <1>2, DecidedWhileRunning
  <2> HIDE DEF d
  <2>2. Owed(d) = Owed(x) /\ RecordOf(d) = RecordOf(x)
    BY <2>1 DEF Owed, RecordOf, KeepsChoices, KeepsPush, Waiting, Retryable
  <2>3. QED  BY <2>1, <2>2 DEF KeepsChoices, ChoiceOf, d
<1>3. QED  BY <1>1, <1>2

LEMMA MovesToDecision ==
  ASSUME NEW r, NEW x \in PostJobStates, NEW done \in BOOLEAN,
         RecordMoves(r, RecordOf(x))
  PROVE  RecordMoves(r, RecordOf(Decided(x, done)))
<1>1. CASE PushScheduled(x, done)
  BY <1>1, DecisionRecord DEF RecordMoves
<1>2. CASE ~PushScheduled(x, done)
  BY <1>2, DecisionRecord
<1>3. QED  BY <1>1, <1>2

LEMMA DecisionSound ==
  ASSUME TypeOK, PushInv, server = "up" \/ server = "booting",
         UNCHANGED <<in_flight, wire, accepted, started>>, server' = "up",
         UNCHANGED <<pc, mem>> \/ pc' = "done",
         NEW st \in Stores, LatestFits(st), st.status = store.status,
         NEW x, SameRevisionAs(x, EffectiveState(st.pj)),
         NEW done \in BOOLEAN, done <=> store.status = "completed",
         granted' \in Nat, granted' >= granted, started + tasks + Owed(x) <= granted',
         x.push_attempts >= started, PushInFlight => x.push_status = "pending",
         x.push_status = "pushed" => accepted,
         ChoiceOf(x) \in {choice'} \cup unsaved',
         \/ /\ store' = Committed(st, Decided(x, done))
            /\ Schedule(PushScheduled(x, done))
         \/ /\ store' = CommitRaised(st, Decided(x, done))
            /\ UNCHANGED <<tasks, queued>>
            /\ \A s : s = EffectiveState(st.pj) => Sound(s)'
            /\ RecordMoves(RecordOf(EffectiveState(st.pj)), RecordOf(x))
            /\ RecordMoves(PushRecord, RecordOf(EffectiveState(st.pj))),
         RecordMoves(PushRecord, RecordOf(x))
  PROVE  PushInv' /\ (Quiet \/ Ledger!Decide)
<1> DEFINE d   == Decided(x, done)
           due == PushScheduled(x, done)
<1>0. x \in PostJobStates  BY DEF SameRevisionAs
<1>1. SameRevisionAs(d, EffectiveState(st.pj))
  BY <1>0, DecidedKeeps DEF SameRevisionAs
<1>2. /\ d \in PostJobStates /\ ChoiceOf(d) = ChoiceOf(x)
      /\ d.push_attempts = x.push_attempts
      /\ IF due
         THEN /\ done /\ Owed(x) = 1 /\ Owed(d) = 0
              /\ x.push_status \in Waiting /\ d.push_status = "pending"
              /\ RecordOf(x) = "idle" /\ RecordOf(d) = "pending"
         ELSE Owed(d) = Owed(x) /\ KeepsPush(d, x) /\ RecordOf(d) = RecordOf(x)
  BY <1>0, DecisionRecord
<1>3. Fits(d, store.status) /\ (done => d.review_status # "pending_job")
  BY <1>0, DecidedWhenDone, DecidedWhileRunning
<1>n. tasks \in Nat /\ started \in Nat /\ granted \in Nat /\ queued \in BOOLEAN
  BY DEF TypeOK
<1>q. QueuedIsExact /\ (tasks > 0 => done) /\ (in_flight <=> wire # {})
  BY DEF PushInv, SenderFits
<1>d. \/ store' = Committed(st, d) /\ Schedule(due)
      \/ /\ store' = CommitRaised(st, d) /\ UNCHANGED <<tasks, queued>>
         /\ \A s : s = EffectiveState(st.pj) => Sound(s)'
         /\ RecordMoves(RecordOf(EffectiveState(st.pj)), RecordOf(x))
         /\ RecordMoves(PushRecord, RecordOf(EffectiveState(st.pj)))
  OBVIOUS
<1>m. RecordMoves(RecordOf(EffectiveState(st.pj)), RecordOf(x)) =>
        RecordMoves(RecordOf(EffectiveState(st.pj)), RecordOf(d))
  BY <1>0, MovesToDecision
<1>b. due \in BOOLEAN  BY DueType
<1> HIDE DEF d, due
<1>4. due => tasks = 0 /\ ~queued /\ ~in_flight /\ wire = {}
  BY <1>2, <1>q, <1>n DEF PushInFlight, QueuedIsExact, Waiting
<1>5. \/ due /\ tasks' = 1 /\ queued' = TRUE
      \/ UNCHANGED <<tasks, queued>>
  BY <1>b, <1>d, <1>4, <1>n DEF Schedule
<1>8. started' + tasks' + Owed(d) <= granted'
  <2>1. CASE due  BY <2>1, <1>2, <1>4, <1>5, <1>n
  <2>2. CASE ~due  BY <2>2, <1>2, <1>5, <1>n
  <2>3. QED  BY <2>1, <2>2
<1>9. PushInFlight' => d.push_status = "pending"
  <2>1. CASE due  BY <2>1, <1>2
  <2>2. CASE ~due
    <3>1. PushInFlight' => PushInFlight  BY <2>2, <1>5 DEF PushInFlight
    <3>2. QED  BY <2>2, <3>1, <1>2 DEF KeepsPush, Waiting
  <2>3. QED  BY <2>1, <2>2
<1>10. tasks' > 0 => d.review_status # "pending_job"
  BY <1>2, <1>3, <1>5, <1>q
<1>11. d.push_status = "pushed" => accepted'  BY <1>2 DEF KeepsPush, Waiting
<1>s. store'.status = store.status  BY <1>1, <1>d, CommitHolds
<1>12. \A n : Alike(n, d) => Sound(n)'
  <2>1. Fits(d, store'.status) /\ d.push_attempts >= started'  BY <1>2, <1>3, <1>s
  <2>2. QED  BY <1>2, <1>8, <1>9, <1>10, <1>11, <2>1, NewSound
<1>13. HeldSound' /\ LateFits'  BY <1>1, <1>12, <1>d, <1>m, CommitsSound
<1>14. PipelineFits'  BY <1>s DEF PushInv, PipelineFits
<1>15. SenderFits'
  <2>1. QueuedIsExact'  BY <1>5, <1>q DEF QueuedIsExact
  <2>2. tasks' > 0 => wire' = {} /\ store'.status = "completed"
    BY <1>2, <1>4, <1>5, <1>s, <1>q DEF PushInv, SenderFits
  <2>3. QED  BY <2>1, <2>2 DEF PushInv, SenderFits
<1>16. CASE due /\ PushRecord' = "pending" /\ tasks' = 1
  <2>1. PushSender = "none" /\ PushSender' = "scheduled"
    BY <1>4, <1>16, SenderIs, SenderBecomes
  <2>2. PushRecord # "pushed"  BY <1>2, <1>16 DEF RecordMoves
  <2>3. Ledger!Decide  BY <1>16, <2>1, <2>2 DEF Ledger!Decide
  <2>4. QED  BY <1>13, <1>14, <1>15, <2>3 DEF PushInv
<1>17. CASE UNCHANGED <<tasks, queued>> /\ RecordMoves(PushRecord, PushRecord')
  <2>1. Quiet  BY <1>17 DEF Quiet
  <2>2. QED  BY <1>13, <1>14, <1>15, <2>1 DEF PushInv
<1>18. \/ due /\ PushRecord' = "pending" /\ tasks' = 1
       \/ UNCHANGED <<tasks, queued>> /\ RecordMoves(PushRecord, PushRecord')
  <2>1. /\ store' = Committed(st, d) => PushRecord' = RecordOf(d)
        /\ store' = CommitRaised(st, d) => PushRecord' = RecordOf(EffectiveState(st.pj))
    BY <1>1, CommitRecord
  <2>2. CASE due /\ store' = Committed(st, d) /\ Schedule(due)
    BY <1>2, <1>4, <1>n, <2>1, <2>2 DEF Schedule
  <2>3. CASE ~due /\ store' = Committed(st, d)  BY <1>2, <1>5, <2>1, <2>3
  <2>4. QED  BY <1>d, <1>b, <2>1, <2>2, <2>3
<1>19. QED  BY <1>16, <1>17, <1>18
-----------------------------------------------------------------------------
(* Action by action.  The pipeline's saves store what was held already. *)
PipelineWrites ==
  \/ store' = store
  \/ /\ store'.pj = store.latest /\ store'.latest = store.latest
     /\ store.latest # NoPostJob

LEMMA PipelineHolds ==
  ASSUME TypeOK, PushInv, PipelineWrites,
         UNCHANGED <<server, tasks, queued, in_flight, wire, history>>, server = "up",
         store'.status = store.status \/ store.status # "completed"
  PROVE  HeldSound' /\ LateFits' /\ SenderFits' /\ Quiet
<1>1. Held(store') \subseteq Held(store)
  <2>1. CASE store' = store  BY <2>1
  <2>2. CASE /\ store'.pj = store.latest /\ store'.latest = store.latest
             /\ store.latest # NoPostJob
    BY <2>2 DEF Held, EffectiveState
  <2>3. QED  BY <2>1, <2>2 DEF PipelineWrites
<1>2. Eases  BY DEF Eases, TypeOK, history, PushInFlight
<1>3. ASSUME NEW s \in Held(store')  PROVE Sound(s)'
  <2>1. Sound(s)  BY <1>1 DEF PushInv, HeldSound
  <2>2. Fits(s, store.status) => Fits(s, store'.status)
    <3>1. CASE store'.status = store.status  BY <3>1
    <3>2. CASE store.status # "completed"  BY <3>2 DEF Fits
    <3>3. QED  BY <3>1, <3>2
  <2>3. QED  BY <1>2, <2>1, <2>2, StillSound
<1>4. LateFits'
  <2>1. CASE store' = store  BY <2>1 DEF PushInv, LateFits, PushRecord, Current
  <2>2. CASE /\ store'.pj = store.latest /\ store'.latest = store.latest
             /\ store.latest # NoPostJob
    BY <2>2 DEF LateFits, PushRecord, Current, EffectiveState, RecordMoves
  <2>3. QED  BY <2>1, <2>2 DEF PipelineWrites
<1>5. tasks > 0 => store'.status = "completed"  BY DEF PushInv, SenderFits
<1>6. SenderFits'  BY <1>5 DEF PushInv, SenderFits, QueuedIsExact, history
<1>7. Quiet
  <2>1. CASE store' = store
    BY <2>1 DEF Quiet, RecordMoves, PushRecord, Current, history
  <2>2. CASE /\ store'.pj = store.latest /\ store'.latest = store.latest
             /\ store.latest # NoPostJob
    BY <2>2 DEF Quiet, PushInv, LateFits, PushRecord, Current, EffectiveState, history
  <2>3. QED  BY <2>1, <2>2 DEF PipelineWrites
<1>8. QED  BY <1>3, <1>4, <1>6, <1>7 DEF HeldSound

(* What a save of the in-memory job may write, with which status. *)
LEMMA SaveWrites ==
  ASSUME TypeOK, StoreInv, pc # "done", NEW status \in JobStatuses
  PROVE  /\ store' = Saved(store, status, mem.pj) =>
              PipelineWrites /\ store'.status = status
         /\ store' = SaveRaised(store, mem.pj) => store' = store
         /\ LET lost == SaveRaised(store, mem.pj)
            IN store' = Saved(lost, status, lost.latest) =>
                 PipelineWrites /\ store'.status = status
<1>1. /\ store \in Stores /\ mem.pj \in PostJobStates \cup {NoPostJob}
      /\ LatestFits(store) /\ MemFits /\ mem.pj # NoPostJob
  BY DEF TypeOK, StoreInv, MemFits
<1> DEFINE st == Saved(store, status, mem.pj)
<1>2. /\ st.latest = st.pj /\ st.pj = store.latest /\ st.pj # NoPostJob
      /\ SaveRaised(store, mem.pj) = store
  BY <1>1, MemSaves
<1>3. st.status = status  BY DEF Saved
<1>4. Saved(store, status, store.latest)
        = [status |-> status, pj |-> store.latest, latest |-> store.latest]
  BY DEF Saved, MergePostJob
<1>5. QED  BY <1>2, <1>3, <1>4 DEF PipelineWrites

LEMMA StagesSound ==
  ASSUME TypeOK, TypeOK', StoreInv, PushInv,
         \/ SaveWhileQueued \/ StageSave \/ BranchSaveRaises \/ FailPipeline
         \/ FinishPipeline \/ SaveRaisesFailsJob \/ PostCompletionStep
  PROVE  PushInv' /\ Quiet
<1> USE DEF PipelineOnly
<1>0. pc # "done" /\ server = "up"
  BY DEF SaveWhileQueued, StageSave, BranchSaveRaises, FailPipeline, Following,
         FinishPipeline, SaveRaisesFailsJob, PostCompletionStep
<1>u. UNCHANGED <<server, tasks, queued, in_flight, wire, history>>
  BY DEF SaveWhileQueued, StageSave, BranchSaveRaises, FailPipeline,
         FinishPipeline, SaveRaisesFailsJob, PostCompletionStep
<1>h. ASSUME PipelineWrites, store'.status = store.status \/ store.status # "completed",
             PipelineFits'
      PROVE  PushInv' /\ Quiet
  BY <1>h, <1>0, <1>u, PipelineHolds DEF PushInv
<1>e. pc \in DOMAIN Following => store.status \in {"pending", "enriching"}
  BY DEF Following, PushInv, PipelineFits
<1>1. ASSUME NEW status \in JobStatuses, SaveMem(status)
      PROVE  PipelineWrites /\ store'.status = status /\ mem'.status = status
  BY <1>0, <1>1, SaveWrites DEF SaveMem
<1>2. ASSUME NEW status \in JobStatuses, SaveMemRaises(status)
      PROVE  store' = store /\ mem'.status = status
  BY <1>0, <1>2, SaveWrites DEF SaveMemRaises
<1>3. ASSUME NEW n \in {1, 2}, SaveRaisesOutOfRun(n)
      PROVE  PushInv' /\ Quiet
  <2>1. store' = store /\ pc' = "done"
    BY <1>0, <1>3, SaveWrites DEF SaveRaisesOutOfRun, JobStatuses
  <2>2. PipelineFits'  BY <2>1 DEF PipelineFits
  <2>3. QED  BY <2>1, <2>2, <1>h DEF PipelineWrites
<1>4. CASE SaveWhileQueued
  <2>1. CASE SaveMem("pending") /\ UNCHANGED pc
    <3>1. PipelineWrites /\ store'.status = "pending"  BY <2>1, <1>1 DEF JobStatuses
    <3>2. PipelineFits'  BY <1>4, <2>1, <3>1 DEF SaveWhileQueued, PipelineFits
    <3>3. QED  BY <1>4, <3>1, <3>2, <1>e, <1>h DEF SaveWhileQueued, Following
  <2>2. CASE SaveRaisesOutOfRun(1)  BY <2>2, <1>3
  <2>3. QED  BY <1>4, <2>1, <2>2 DEF SaveWhileQueued
<1>5. CASE StageSave
  <2>1. PipelineWrites /\ store'.status = "enriching"
    BY <1>5, <1>1 DEF StageSave, JobStatuses
  <2>2. pc' \in {"reading", "branches", "post"}  BY <1>5 DEF StageSave, Following
  <2>3. PipelineFits'  BY <2>1, <2>2 DEF PipelineFits
  <2>4. QED  BY <1>5, <2>1, <2>3, <1>e, <1>h DEF StageSave
<1>6. CASE BranchSaveRaises
  <2>1. store' = store /\ pc' = pc /\ pc = "branches"
    BY <1>6, <1>2 DEF BranchSaveRaises, JobStatuses
  <2>2. PipelineFits'  BY <2>1 DEF PushInv, PipelineFits
  <2>3. QED  BY <2>1, <2>2, <1>h DEF PipelineWrites
<1>7. CASE FailPipeline
  <2>1. CASE SaveMem("failed") /\ pc' = "hook"
    <3>1. PipelineWrites /\ store'.status = "failed" /\ mem'.status = "failed"
      BY <2>1, <1>1 DEF JobStatuses
    <3>2. PipelineFits'  BY <2>1, <3>1 DEF PipelineFits, Terminal
    <3>3. QED  BY <1>7, <3>1, <3>2, <1>e, <1>h DEF FailPipeline, Following
  <2>2. CASE SaveRaisesOutOfRun(1)  BY <2>2, <1>3
  <2>3. QED  BY <1>7, <2>1, <2>2 DEF FailPipeline
<1>8. CASE FinishPipeline
  <2>1. PipelineWrites /\ store'.status = "completed"
    BY <1>8, <1>1 DEF FinishPipeline, JobStatuses
  <2>2. mem'.status = "completed" /\ pc' = "aol"
    BY <1>8, <1>1 DEF FinishPipeline, JobStatuses
  <2>m. PipelineFits'  BY <2>1, <2>2 DEF PipelineFits, Terminal
  <2>3. QED  BY <1>8, <2>1, <2>m, <1>e, <1>h DEF FinishPipeline, Following
<1>9. CASE SaveRaisesFailsJob
  <2>1. CASE SaveRaisesOutOfRun(2)  BY <2>1, <1>3
  <2>2. CASE /\ LET lost == SaveRaised(store, mem.pj)
                IN store' = Saved(lost, "failed", lost.latest)
             /\ mem' = [status |-> "failed", pj |-> store'.pj]
             /\ pc' = "hook"
    <3>1. PipelineWrites /\ store'.status = "failed"
      BY <2>2, <1>0, SaveWrites DEF JobStatuses
    <3>2. PipelineFits'  BY <2>2, <3>1 DEF PipelineFits, Terminal
    <3>3. QED  BY <1>9, <3>1, <3>2, <1>e, <1>h DEF SaveRaisesFailsJob
  <2>3. QED  BY <1>9, <2>1, <2>2 DEF SaveRaisesFailsJob
<1>10. CASE PostCompletionStep
  <2>1. store.status = "completed" /\ pc \in {"aol", "doctype"}
    BY <1>10 DEF PostCompletionStep, PushInv, PipelineFits
  <2>2. PipelineWrites /\ store'.status = "completed" /\ mem'.status = "completed"
    <3>1. CASE SaveMem("completed")  BY <3>1, <1>1 DEF JobStatuses
    <3>2. CASE SaveMemRaises("completed") \/ UNCHANGED <<store, mem, used>>
      BY <2>1, <3>2, <1>2 DEF PipelineWrites, JobStatuses, PushInv, PipelineFits
    <3>3. QED  BY <1>10, <3>1, <3>2 DEF PostCompletionStep
  <2>3. PipelineFits'
    BY <1>10, <2>1, <2>2 DEF PostCompletionStep, PipelineFits, Terminal
  <2>4. QED  BY <2>1, <2>2, <2>3, <1>h
<1>11. QED  BY <1>4, <1>5, <1>6, <1>7, <1>8, <1>9, <1>10

(* A commit of a state that owes what the stored one owes, by a step that      *)
(* schedules nothing.                                                          *)
LEMMA PlainCommitSound ==
  ASSUME TypeOK, StoreInv, PushInv, server' = "up",
         UNCHANGED <<tasks, queued, in_flight, wire, history>>,
         UNCHANGED <<pc, mem>> \/ pc' = "done",
         NEW d, SameRevisionAs(d, Current), KeepsChoices(d, Current),
         store' = Committed(store, d) \/ store' = CommitRaised(store, d),
         Fits(d, store.status), tasks > 0 => d.review_status # "pending_job",
         \/ KeepsPush(d, Current)
         \/ Current.push_status = "pending" /\ d.push_status = "failed" /\ ~PushInFlight
  PROVE  PushInv' /\ Quiet
<1>0. /\ store \in Stores /\ LatestFits(store) /\ Current = EffectiveState(store.pj)
      /\ Current \in PostJobStates /\ Sound(Current)
  BY HeldTypes DEF TypeOK, StoreInv, PushInv, HeldSound, Current
<1>1. Owed(d) = Owed(Current)
  BY DEF Owed, KeepsChoices, KeepsPush, Waiting
<1>2. /\ PushInFlight' => d.push_status = "pending"
      /\ d.push_status = "pushed" => accepted'
  BY <1>0 DEF Sound, InStep, KeepsPush, Waiting, PushInFlight, history
<1>3. store'.status = store.status  BY <1>0, CommitStatus
<1>4. started' + tasks' + Owed(d) <= granted' /\ d.push_attempts >= started'
  BY <1>0, <1>1 DEF Sound, Accounted, KeepsChoices, history
<1>5. ChoiceOf(d) \in {choice'} \cup unsaved'
  BY <1>0 DEF Sound, ChoiceOf, KeepsChoices, history
<1>6. \A n : Alike(n, d) => Sound(n)'
  BY <1>2, <1>3, <1>4, <1>5, NewSound
<1>7. Eases  BY DEF Eases, TypeOK, history, PushInFlight
<1>8. \A s : s = EffectiveState(store.pj) => Sound(s)'
  BY <1>0, <1>3, <1>7, StillSound
<1>9. RecordMoves(PushRecord, RecordOf(d))
  BY DEF PushRecord, RecordOf, RecordMoves, KeepsPush, Waiting, Retryable
<1>10. HeldSound' /\ LateFits'
  BY <1>0, <1>6, <1>8, <1>9, CommitsSound DEF PushRecord
<1>11. PipelineFits'  BY <1>3 DEF PushInv, PipelineFits
<1>12. SenderFits'  BY <1>3 DEF PushInv, SenderFits, QueuedIsExact, history
<1>13. Quiet
  BY <1>0, <1>9, CommitRecord DEF Quiet, history, PushRecord, RecordMoves
<1>14. QED  BY <1>10, <1>11, <1>12, <1>13 DEF PushInv

LEMMA HooksSound ==
  ASSUME TypeOK, TypeOK', StoreInv, PushInv, HookCompleted \/ HookFailed
  PROVE  PushInv' /\ (Quiet \/ Ledger!Decide)
<1> USE DEF PipelineOnly
<1>0. /\ store \in Stores /\ LatestFits(store) /\ Current = EffectiveState(store.pj)
      /\ Current \in PostJobStates /\ Sound(Current)
  BY HeldTypes DEF TypeOK, StoreInv, PushInv, HeldSound, Current
<1>1. /\ server = "up" /\ pc' = "done"
      /\ UNCHANGED <<server, in_flight, wire, history>>
      /\ store.status = mem.status
  BY DEF HookCompleted, HookFailed, PushInv, PipelineFits
<1>2. CASE UNCHANGED <<store, tasks, queued>>
  <2>1. HeldSound' /\ LateFits' /\ SenderFits' /\ Quiet
    BY <1>1, <1>2, PipelineHolds DEF PipelineWrites
  <2>2. QED  BY <1>1, <2>1 DEF PushInv, PipelineFits
<1>3. CASE HookCompleted /\ ~UNCHANGED <<store, tasks, queued>>
  <2>1. store.pj # NoPostJob /\ store.pj = Current /\ store.status = "completed"
    BY <1>1, <1>3 DEF HookCompleted, Current, EffectiveState
  <2>2. \/ /\ store' = Committed(store, Decided(Current, TRUE))
           /\ Schedule(PushScheduled(Current, TRUE))
        \/ /\ store' = CommitRaised(store, Decided(Current, TRUE))
           /\ UNCHANGED <<tasks, queued>>
    BY <1>3, <2>1 DEF HookCompleted
  <2>3. SameRevisionAs(Current, EffectiveState(store.pj))  BY <1>0 DEF SameRevisionAs
  <2>5. store'.status = store.status  BY <1>0, <2>2, CommitStatus
  <2>6. UNCHANGED <<tasks, queued>> => \A s : s = EffectiveState(store.pj) => Sound(s)'
    <3>1. ASSUME UNCHANGED <<tasks, queued>>  PROVE Eases
      BY <1>1, <3>1 DEF Eases, TypeOK, history, PushInFlight
    <3>2. QED  BY <1>0, <2>5, <3>1, StillSound
  <2>7. /\ RecordMoves(RecordOf(EffectiveState(store.pj)), RecordOf(Current))
        /\ RecordMoves(PushRecord, RecordOf(EffectiveState(store.pj)))
        /\ RecordMoves(PushRecord, RecordOf(Current))
    BY <1>0 DEF RecordMoves, PushRecord
  <2>8. /\ granted' \in Nat /\ granted' >= granted
        /\ started + tasks + Owed(Current) <= granted' /\ Current.push_attempts >= started
        /\ PushInFlight => Current.push_status = "pending"
        /\ Current.push_status = "pushed" => accepted
        /\ ChoiceOf(Current) \in {choice'} \cup unsaved'
    BY <1>0, <1>1 DEF TypeOK, history, Sound, Accounted, InStep
  <2>9. PICK x : x = Current  OBVIOUS
  <2>10. UNCHANGED <<in_flight, wire, accepted, started>> /\ server' = "up"
    BY <1>1 DEF history
  <2>11. QED
    BY <1>0, <1>1, <2>1, <2>2, <2>3, <2>6, <2>7, <2>8, <2>9, <2>10, DecisionSound
<1>4. CASE HookFailed /\ ~UNCHANGED <<store, tasks, queued>>
  <2> DEFINE d == SettleFailedJob(Current)
  <2>1. store.pj = Current /\ store.status = "failed"
    BY <1>1, <1>4 DEF HookFailed, Current, EffectiveState
  <2>2. store' = Committed(store, d) \/ store' = CommitRaised(store, d)
    BY <1>4, <2>1 DEF HookFailed
  <2>3. SameRevisionAs(d, Current)  BY <1>0, SettleKeeps
  <2>4. /\ KeepsChoices(d, Current) /\ KeepsPush(d, Current) /\ Fits(d, store.status)
        /\ d.review_status # "pending_job"
    BY <1>0, SettledState
  <2>5. UNCHANGED <<tasks, queued, in_flight, wire, history>> /\ server' = "up"
    BY <1>1, <1>4 DEF HookFailed
  <2> HIDE DEF d
  <2>6. QED  BY <1>1, <2>2, <2>3, <2>4, <2>5, PlainCommitSound
<1>5. QED  BY <1>2, <1>3, <1>4

LEMMA ChosenState ==
  ASSUME NEW s \in PostJobStates, NEW review \in Answers, NEW push \in Answers
  PROVE  LET c  == Chosen(s, review, push)
             on == push = "yes" /\ s.push # "requested"
         IN /\ c.push_attempts = s.push_attempts
            /\ Owed(c) <= Owed(s) + (IF on THEN 1 ELSE 0)
            /\ \/ c.push_status = s.push_status
               \/ s.push_status \in Retryable /\ c.push_status = "not_requested"
<1> DEFINE c == Chosen(s, review, push)
<1>1. /\ c.push_attempts = s.push_attempts
      /\ c.push = CASE push = "yes" -> "requested"
                    [] push = "no" -> "not_requested"
                    [] OTHER -> s.push
      /\ c.push_status = IF push = "yes" /\ s.push # "requested" /\ s.push_status \in Retryable
                         THEN "not_requested" ELSE s.push_status
  BY DEF Chosen, PostJobStates
<1> HIDE DEF c
<1>2. c.push = "requested" => s.push = "requested" \/ push = "yes"
  BY <1>1 DEF Answers
<1>3. Owed(c) \in {0, 1} /\ Owed(s) \in {0, 1}  BY DEF Owed
<1>4. CASE push = "yes" /\ s.push # "requested"  BY <1>1, <1>3, <1>4 DEF c
<1>5. CASE ~(push = "yes" /\ s.push # "requested")
  <2>1. c.push_status = s.push_status  BY <1>1, <1>5
  <2>2. Owed(c) <= Owed(s)  BY <1>2, <1>3, <1>5, <2>1 DEF Owed
  <2>3. QED  BY <1>1, <1>3, <1>5, <2>1, <2>2 DEF c
<1>6. QED  BY <1>4, <1>5

LEMMA StartingState ==
  ASSUME NEW st \in Stores
  PROVE  LET s == EffectiveState(st.pj)
             d == Starting(st)
         IN /\ d.push_status = "pending" /\ d.push_attempts = s.push_attempts + 1
            /\ d.review_status = s.review_status
            /\ ChoiceOf(d) = ChoiceOf(s)
            /\ Owed(d) = 0 /\ RecordOf(d) = "pending"
<1> DEFINE s == EffectiveState(st.pj)
           d == Starting(st)
<1>1. s \in PostJobStates  BY EffectiveType DEF Stores
<1>2. /\ d.push_status = "pending" /\ d.push_attempts = s.push_attempts + 1
      /\ d.review_status = s.review_status /\ d.review = s.review /\ d.push = s.push
  BY <1>1 DEF Starting, PostJobStates
<1> HIDE DEF d, s
<1>3. ChoiceOf(d) = ChoiceOf(s) /\ Owed(d) = 0 /\ RecordOf(d) = "pending"
  BY <1>2 DEF ChoiceOf, Owed, RecordOf, Waiting, Retryable
<1>4. QED  BY <1>2, <1>3 DEF d, s

LEMMA OverrideSound ==
  ASSUME TypeOK, TypeOK', StoreInv, PushInv,
         NEW review \in Answers, NEW push \in Answers, NEW allowed \in BOOLEAN,
         ApplyOverride(review, push, allowed)
  PROVE  PushInv' /\ (Quiet \/ Ledger!Decide)
<1> DEFINE s    == HealInterrupted(Current, PushInFlight)
           x    == Chosen(s, review, push)
           on   == push = "yes" /\ s.push # "requested"
           done == store.status = "completed"
<1>0. /\ store \in Stores /\ LatestFits(store) /\ Current = EffectiveState(store.pj)
      /\ Current \in PostJobStates /\ Sound(Current)
  BY HeldTypes DEF TypeOK, StoreInv, PushInv, HeldSound, Current
<1>f. PushInFlight \in BOOLEAN /\ done \in BOOLEAN  BY DEF TypeOK, PushInFlight
<1>1. SameRevisionAs(x, EffectiveState(store.pj)) /\ s \in PostJobStates
  <2>1. SameRevisionAs(s, Current)  BY <1>0, <1>f, HealKeeps
  <2>2. s \in PostJobStates /\ s.revision = Current.revision  BY <2>1 DEF SameRevisionAs
  <2> HIDE DEF s
  <2>3. SameRevisionAs(x, s)
    BY <2>2 DEF Chosen, SameRevisionAs, PostJobStates, PushStatuses
  <2>4. QED  BY <1>0, <2>2, <2>3 DEF SameRevisionAs
<1>2. /\ KeepsChoices(s, Current)
      /\ IF Current.push_status = "pending" /\ ~PushInFlight
         THEN s.push_status = "failed" ELSE s = Current
  BY <1>0, <1>f, HealedState
<1>3. /\ x.push_attempts = s.push_attempts
      /\ Owed(x) <= Owed(s) + (IF on THEN 1 ELSE 0)
      /\ \/ x.push_status = s.push_status
         \/ s.push_status \in Retryable /\ x.push_status = "not_requested"
  BY <1>1, ChosenState
<1>4. /\ server = "up" /\ server' = "up"
      /\ UNCHANGED <<pc, mem, in_flight, wire, accepted, started>>
      /\ granted' = IF on THEN granted + 1 ELSE granted
      /\ \/ /\ store' = Committed(store, Decided(x, done))
            /\ Schedule(PushScheduled(x, done)) /\ Asked(ChoiceOf(x))
         \/ /\ store' = CommitRaised(store, Decided(x, done))
            /\ AskedLost(ChoiceOf(x)) /\ UNCHANGED <<tasks, queued>>
  BY <1>0 DEF ApplyOverride
<1>5. store'.status = store.status  BY <1>0, <1>4, CommitStatus
<1> HIDE DEF s, x, on, done
<1>6. Owed(s) = Owed(Current) /\ Owed(s) \in {0, 1} /\ Owed(x) \in {0, 1}
  BY <1>2 DEF Owed, KeepsChoices, Waiting
<1>n. /\ granted' \in Nat /\ granted' >= granted
      /\ granted \in Nat /\ started \in Nat /\ tasks \in Nat
  BY <1>4 DEF TypeOK
<1>7. started + tasks + Owed(x) <= granted' /\ x.push_attempts >= started
  BY <1>0, <1>2, <1>3, <1>4, <1>6, <1>n DEF Sound, Accounted, KeepsChoices
<1>8. /\ PushInFlight => x.push_status = "pending"
      /\ x.push_status = "pushed" => accepted
  BY <1>0, <1>2, <1>3 DEF Sound, InStep, Retryable
<1>9. RecordMoves(RecordOf(EffectiveState(store.pj)), RecordOf(x))
  <2>1. x.push_status \in {Current.push_status, "failed", "not_requested"}
    BY <1>2, <1>3
  <2>2. x.push_status # Current.push_status =>
          Current.push_status \in {"pending", "failed", "not_configured"}
    BY <1>2, <1>3 DEF Retryable
  <2>3. QED
    BY <1>0, <2>1, <2>2 DEF RecordOf, RecordMoves, Waiting, Retryable
<1>10. ChoiceOf(x) \in {choice'} \cup unsaved'  BY <1>4 DEF Asked, AskedLost
<1>11. ASSUME AskedLost(ChoiceOf(x)), UNCHANGED <<tasks, queued>>
       PROVE  \A r : r = EffectiveState(store.pj) => Sound(r)'
  <2>1. Eases  BY <1>4, <1>11, <1>n DEF Eases, PushInFlight, AskedLost
  <2>2. QED  BY <1>0, <1>5, <2>1, StillSound
<1>12. done <=> store.status = "completed"  BY DEF done
<1>13. RecordMoves(PushRecord, RecordOf(x)) /\ RecordMoves(PushRecord, PushRecord)
  BY <1>0, <1>9 DEF PushRecord, RecordMoves
<1>14. PushRecord = RecordOf(EffectiveState(store.pj))  BY <1>0 DEF PushRecord
<1>15. QED
  BY <1>0, <1>f, <1>1, <1>4, <1>n, <1>7, <1>8, <1>9, <1>10, <1>11, <1>12, <1>13, <1>14,
     DecisionSound

LEMMA ReviewDoneSound ==
  ASSUME TypeOK, TypeOK', StoreInv, PushInv, CompleteReview
  PROVE  PushInv' /\ (Quiet \/ Ledger!Decide)
<1> DEFINE x == [Current EXCEPT !.review_status = "completed"]
<1>0. /\ store \in Stores /\ LatestFits(store) /\ Current = EffectiveState(store.pj)
      /\ Current \in PostJobStates /\ Sound(Current)
  BY HeldTypes DEF TypeOK, StoreInv, PushInv, HeldSound, Current
<1>1. SameRevisionAs(x, EffectiveState(store.pj))
  BY <1>0 DEF SameRevisionAs, PostJobStates, ReviewStatuses
<1>2. /\ x.push_attempts = Current.push_attempts /\ x.push_status = Current.push_status
      /\ x.push = Current.push /\ x.review = Current.review
  BY <1>0 DEF PostJobStates
<1>3. /\ server = "up" /\ server' = "up" /\ store.status = "completed"
      /\ UNCHANGED <<pc, mem, in_flight, wire, accepted, started, granted>>
      /\ \/ /\ store' = Committed(store, Decided(x, TRUE))
            /\ Schedule(PushScheduled(x, TRUE)) /\ Asked(ChoiceOf(Current))
         \/ /\ store' = CommitRaised(store, Decided(x, TRUE))
            /\ AskedLost(ChoiceOf(Current)) /\ UNCHANGED <<tasks, queued>>
  BY <1>0 DEF CompleteReview
<1>4. store'.status = store.status  BY <1>0, <1>3, CommitStatus
<1> HIDE DEF x
<1>5. Owed(x) = Owed(Current) /\ RecordOf(x) = RecordOf(Current) /\ ChoiceOf(x) = ChoiceOf(Current)
  BY <1>2 DEF Owed, RecordOf, ChoiceOf
<1>n. granted' \in Nat /\ granted' >= granted  BY <1>3 DEF TypeOK
<1>6. /\ started + tasks + Owed(x) <= granted' /\ x.push_attempts >= started
      /\ PushInFlight => x.push_status = "pending"
      /\ x.push_status = "pushed" => accepted
  BY <1>0, <1>2, <1>3, <1>5 DEF Sound, Accounted, InStep
<1>7. /\ RecordMoves(RecordOf(EffectiveState(store.pj)), RecordOf(x))
      /\ RecordMoves(PushRecord, RecordOf(EffectiveState(store.pj)))
      /\ RecordMoves(PushRecord, RecordOf(x))
  BY <1>0, <1>5 DEF RecordMoves, PushRecord
<1>8. ChoiceOf(x) \in {choice'} \cup unsaved'  BY <1>3, <1>5 DEF Asked, AskedLost
<1>9. ASSUME AskedLost(ChoiceOf(Current)), UNCHANGED <<tasks, queued>>
      PROVE  \A r : r = EffectiveState(store.pj) => Sound(r)'
  <2>1. Eases  BY <1>3, <1>9, <1>n DEF Eases, PushInFlight, AskedLost, TypeOK
  <2>2. QED  BY <1>0, <1>4, <2>1, StillSound
<1>10. QED
  BY <1>0, <1>1, <1>3, <1>n, <1>6, <1>7, <1>8, <1>9, DecisionSound

LEMMA ReadStateSound ==
  ASSUME TypeOK, TypeOK', StoreInv, PushInv, ReadState
  PROVE  PushInv' /\ Quiet
<1> DEFINE d == HealInterrupted(Current, PushInFlight)
<1>0. Current \in PostJobStates /\ Sound(Current) /\ PushInFlight \in BOOLEAN
  BY HeldTypes DEF TypeOK, PushInv, HeldSound, PushInFlight
<1>1. /\ server' = "up" /\ UNCHANGED <<tasks, queued, in_flight, wire, history, pc, mem>>
      /\ store.pj = Current /\ d # Current
      /\ store' = Committed(store, d) \/ store' = CommitRaised(store, d)
  BY DEF ReadState, PipelineOnly, Current, EffectiveState
<1>2. SameRevisionAs(d, Current)  BY <1>0, HealKeeps
<1>3. /\ KeepsChoices(d, Current) /\ d.review_status = Current.review_status
      /\ Current.push_status = "pending" /\ ~PushInFlight /\ d.push_status = "failed"
  BY <1>0, <1>1, HealedState
<1> HIDE DEF d
<1>4. Fits(d, store.status) /\ (tasks > 0 => d.review_status # "pending_job")
  BY <1>0, <1>3 DEF Sound, Fits, InStep, KeepsChoices
<1>5. QED  BY <1>1, <1>2, <1>3, <1>4, PlainCommitSound

LEMMA RetrySound ==
  ASSUME TypeOK, TypeOK', StoreInv, PushInv, RetryPush
  PROVE  PushInv' /\ (Quiet \/ Ledger!Retry)
<1> DEFINE healed  == HealInterrupted(Current, FALSE)
           wanted  == [healed EXCEPT !.push = "requested"]
           retried == Committed(store, wanted)
           first   == EffectiveState(retried.pj)
           d       == Starting(retried)
<1>0. /\ store \in Stores /\ LatestFits(store) /\ Current = EffectiveState(store.pj)
      /\ Current \in PostJobStates /\ Sound(Current)
  BY HeldTypes DEF TypeOK, StoreInv, PushInv, HeldSound, Current
<1>1. healed \in PostJobStates /\ SameRevisionAs(wanted, Current)
  <2>1. healed \in PostJobStates /\ healed.revision = Current.revision
    BY <1>0, HealKeeps DEF SameRevisionAs
  <2> HIDE DEF healed
  <2>2. QED  BY <2>1 DEF SameRevisionAs, PostJobStates
<1>2. /\ KeepsChoices(healed, Current) /\ healed.review_status = Current.review_status
      /\ IF Current.push_status = "pending" THEN healed.push_status = "failed"
         ELSE healed = Current
  BY <1>0, HealedState
<1>3. /\ wanted.review_status = healed.review_status /\ wanted.push_status = healed.push_status
      /\ wanted.push_attempts = healed.push_attempts
  BY <1>1 DEF PostJobStates
<1>4. /\ server = "up" /\ server' = "up" /\ UNCHANGED <<pc, mem, tasks, queued, accepted>>
      /\ store.status = "completed" /\ ~PushInFlight
      /\ healed.push_status \in Retryable
      /\ Current.review_status \notin {"pending_job", "awaiting_review"}
      /\ granted' = granted + 1
      /\ \/ SendFrom(retried, FALSE) /\ Asked(ChoiceOf(wanted))
         \/ DropFrom(retried) /\ Asked(ChoiceOf(wanted))
         \/ /\ store' = CommitRaised(store, wanted) /\ AskedLost(ChoiceOf(wanted))
            /\ UNCHANGED <<in_flight, wire, started>>
  BY <1>0 DEF RetryPush
<1>5. /\ retried \in Stores /\ LatestFits(retried)
      /\ retried.status = store.status /\ Alike(first, wanted)
      /\ SameRevisionAs(d, first)
  <2>1. retried \in Stores /\ LatestFits(retried)  BY <1>0, <1>1, CommittedFits
  <2>2. retried.status = store.status /\ Alike(first, wanted)  BY <1>0, <1>1, CommitHolds
  <2>3. SameRevisionAs(d, first)  BY <2>1, FlowStates DEF Answers
  <2>4. QED  BY <2>1, <2>2, <2>3
<1>6. /\ d.push_status = "pending" /\ d.push_attempts = first.push_attempts + 1
      /\ d.review_status = first.review_status
      /\ ChoiceOf(d) = ChoiceOf(first)
      /\ Owed(d) = 0 /\ RecordOf(d) = "pending"
  BY <1>5, StartingState
<1>n. /\ granted \in Nat /\ started \in Nat /\ Current.push_attempts \in Nat
      /\ granted' \in Nat /\ granted' >= granted
      /\ tasks = 0 /\ queued = FALSE /\ in_flight = FALSE /\ wire = {}
  <2>1. /\ granted \in Nat /\ started \in Nat /\ tasks \in Nat
        /\ queued \in BOOLEAN /\ in_flight \in BOOLEAN
    BY DEF TypeOK
  <2>2. tasks = 0 /\ queued = FALSE /\ in_flight = FALSE /\ wire = {}
    BY <1>4, <2>1 DEF PushInv, SenderFits, QueuedIsExact, PushInFlight
  <2>3. QED  BY <1>0, <1>4, <2>1, <2>2 DEF PostJobStates
<1>t. tasks' = 0 /\ queued' = FALSE  BY <1>4, <1>n
<1> HIDE DEF healed, wanted, retried, first, d
<1>7. /\ Owed(wanted) = 0 /\ RecordOf(wanted) = "failed"
      /\ wanted.push_attempts = Current.push_attempts
      /\ wanted.push_status \in Retryable
      /\ wanted.review_status = Current.review_status
  BY <1>2, <1>3, <1>4 DEF Owed, RecordOf, Waiting, Retryable, KeepsChoices
<1>8. started <= granted /\ started <= Current.push_attempts
  <2>1. Owed(Current) \in {0, 1}  BY DEF Owed
  <2>2. QED  BY <1>0, <1>n, <2>1 DEF Sound, Accounted
<1>9. RecordMoves(PushRecord, "failed")
  BY <1>2, <1>4 DEF PushRecord, RecordOf, RecordMoves, Waiting, Retryable
<1>10. store'.status = "completed"
  BY <1>0, <1>4, <1>5, CommitStatus DEF SendFrom, DropFrom
<1>11. Fits(wanted, "completed") /\ Fits(d, "completed")
  BY <1>4, <1>5, <1>6, <1>7 DEF Fits, Alike, Retryable
<1>a. wanted.review_status # "pending_job" /\ d.review_status # "pending_job"
  BY <1>4, <1>5, <1>6, <1>7 DEF Alike
\* The state the first of the two commits stores.
<1>12. ASSUME DropFrom(retried) \/ store' = CommitRaised(store, wanted),
              UNCHANGED started, in_flight' = FALSE,
              ChoiceOf(wanted) \in {choice'} \cup unsaved'
       PROVE  \A n : Alike(n, wanted) => Sound(n)'
  <2>1. started' + tasks' + Owed(wanted) <= granted' /\ wanted.push_attempts >= started'
    BY <1>4, <1>7, <1>8, <1>n, <1>12
  <2>2. ~PushInFlight' /\ tasks' = 0  BY <1>4, <1>n, <1>12 DEF PushInFlight
  <2>3. QED
    BY <1>7, <1>10, <1>11, <1>12, <1>a, <2>1, <2>2, NewSound DEF Retryable
<1>13. ASSUME SendFrom(retried, FALSE) \/ DropFrom(retried), Asked(ChoiceOf(wanted))
       PROVE  \A n : Alike(n, d) => Sound(n)'
  <2>1. started' \in {started, started + 1}  BY <1>13 DEF SendFrom, DropFrom
  <2>2. d.push_attempts = Current.push_attempts + 1 /\ ChoiceOf(d) = ChoiceOf(wanted)
    BY <1>5, <1>6, <1>7 DEF Alike, ChoiceOf
  <2>3. started' + tasks' + Owed(d) <= granted' /\ d.push_attempts >= started'
    <3>1. started' \in Nat /\ started' <= started + 1  BY <1>n, <2>1
    <3>2. tasks' = 0 /\ Owed(d) = 0 /\ granted' = granted + 1
      BY <1>4, <1>6, <1>t
    <3>3. started' <= granted'  BY <1>8, <1>n, <3>1, <3>2
    <3>4. started' <= d.push_attempts  BY <1>8, <1>n, <2>2, <3>1
    <3>5. \A i \in Nat : i + 0 + 0 = i  OBVIOUS
    <3>6. started' + tasks' + Owed(d) = started'  BY <3>1, <3>2, <3>5, Zenon
    <3>7. QED  BY <3>3, <3>4, <3>6
  <2>4. ChoiceOf(d) \in {choice'} \cup unsaved'  BY <1>13, <2>2 DEF Asked
  <2>5. QED  BY <1>6, <1>10, <1>11, <1>a, <2>3, <2>4, NewSound
<1>14. HeldSound' /\ LateFits'
  <2>1. CASE SendFrom(retried, FALSE) /\ Asked(ChoiceOf(wanted))
    <3>1. store' = Committed(retried, d)  BY <2>1 DEF SendFrom, d
    <3>2. QED  BY <2>1, <3>1, <1>5, <1>13, CommitsSound DEF first
  <2>2. CASE DropFrom(retried) /\ Asked(ChoiceOf(wanted))
    <3>1. store' = CommitRaised(retried, d) /\ UNCHANGED started /\ in_flight' = FALSE
      BY <2>2 DEF DropFrom, d
    <3>2. \A n : Alike(n, wanted) => Sound(n)'  BY <2>2, <3>1, <1>12 DEF Asked
    <3>3. RecordMoves(RecordOf(first), RecordOf(d))
      BY <1>5, <1>6, <1>7, AlikeRecord DEF RecordMoves
    <3>4. QED  BY <2>2, <3>1, <3>2, <3>3, <1>5, <1>13, CommitsSound DEF first
  <2>3. CASE /\ store' = CommitRaised(store, wanted) /\ AskedLost(ChoiceOf(wanted))
             /\ UNCHANGED <<in_flight, wire, started>>
    <3>1. \A n : Alike(n, wanted) => Sound(n)'  BY <2>3, <1>n, <1>12 DEF AskedLost
    <3>2. Eases  BY <2>3, <1>4, <1>n DEF Eases, PushInFlight, AskedLost
    <3>3. \A r : r = EffectiveState(store.pj) => Sound(r)'
      BY <1>0, <1>4, <1>10, <3>2, StillSound
    <3>4. RecordMoves(RecordOf(EffectiveState(store.pj)), RecordOf(wanted))
      BY <1>0, <1>7, <1>9 DEF PushRecord
    <3>5. QED  BY <2>3, <3>1, <3>3, <3>4, <1>0, <1>1, CommitsSound
  <2>4. QED  BY <1>4, <2>1, <2>2, <2>3
<1>15. PipelineFits'  BY <1>4, <1>10 DEF PushInv, PipelineFits
<1>16. SenderFits'
  <2>1. (in_flight' <=> wire' # {}) /\ \A p \in wire' : ~p.delivered
    <3>1. CASE SendFrom(retried, FALSE)
      <4>1. /\ in_flight' = TRUE
            /\ wire' = {[id |-> started + 1, auto |-> FALSE, delivered |-> FALSE]}
        BY <3>1, <1>n DEF SendFrom
      <4>2. QED  BY <4>1
    <3>2. CASE in_flight' = FALSE /\ wire' = {}  BY <3>2
    <3>3. QED  BY <1>4, <1>n, <3>1, <3>2 DEF DropFrom
  <2>2. QED  BY <1>4, <1>n, <1>t, <2>1 DEF PushInv, SenderFits, QueuedIsExact
<1>17. Quiet \/ Ledger!Retry
  <2>1. CASE SendFrom(retried, FALSE)
    <3>1. store' = Committed(retried, d)  BY <2>1 DEF SendFrom, d
    <3>2. PushRecord' = "pending"  BY <1>5, <1>6, <3>1, CommitRecord DEF first
    <3>3. PushSender = "none"  BY <1>n, SenderIs
    <3>4. wire' = {[id |-> started + 1, auto |-> FALSE, delivered |-> FALSE]}
      BY <1>n, <2>1 DEF SendFrom
    <3>5. PushSender' = "calling"  BY <3>4, SenderBecomes
    <3>6. PushRecord \in {"pending", "failed"}
      BY <1>2, <1>4 DEF PushRecord, RecordOf, Waiting, Retryable
    <3>7. QED  BY <1>4, <3>2, <3>3, <3>5, <3>6 DEF Ledger!Retry
  <2>2. CASE DropFrom(retried)
    <3>1. store' = CommitRaised(retried, d) /\ in_flight' = FALSE /\ UNCHANGED wire
      BY <2>2 DEF DropFrom, d
    <3>2. PushRecord' = RecordOf(first)  BY <1>5, <3>1, CommitRecord DEF first
    <3>3. RecordOf(first) = "failed"  BY <1>5, <1>7, AlikeRecord
    <3>4. QED  BY <1>4, <1>n, <1>9, <3>1, <3>2, <3>3 DEF Quiet
  <2>3. CASE store' = CommitRaised(store, wanted) /\ UNCHANGED <<in_flight, wire>>
    <3>1. PushRecord' = RecordOf(EffectiveState(store.pj))
      BY <1>0, <1>1, <2>3, CommitRecord
    <3>2. QED  BY <1>0, <1>4, <2>3, <3>1 DEF Quiet, RecordMoves, PushRecord
  <2>4. QED  BY <1>4, <2>1, <2>2, <2>3
<1>18. QED  BY <1>14, <1>15, <1>16, <1>17 DEF PushInv

LEMMA UserSound ==
  ASSUME TypeOK, TypeOK', StoreInv, PushInv, User
  PROVE  PushInv' /\ (Quiet \/ Ledger!Decide \/ Ledger!Retry)
BY OverrideSound, ReviewDoneSound, ReadStateSound, RetrySound DEF User

LEMMA StartSound ==
  ASSUME TypeOK, TypeOK', StoreInv, PushInv, StartScheduledPush
  PROVE  PushInv' /\ (Ledger!Call \/ Ledger!GiveUp)
<1> DEFINE d == Starting(store)
<1>0. /\ store \in Stores /\ LatestFits(store) /\ Current = EffectiveState(store.pj)
      /\ Current \in PostJobStates /\ Sound(Current)
  BY HeldTypes DEF TypeOK, StoreInv, PushInv, HeldSound, Current
<1>1. /\ server = "up" /\ tasks = 1 /\ tasks' = 0 /\ queued' = FALSE
      /\ wire = {} /\ in_flight = FALSE /\ PushInFlight /\ store.status = "completed"
      /\ UNCHANGED <<server, pc, mem, accepted, granted, choice, unsaved>>
  <2>1. in_flight \in BOOLEAN /\ tasks \in Nat  BY DEF TypeOK
  <2>2. QED
    BY <2>1 DEF StartScheduledPush, PushInv, SenderFits, QueuedIsExact, PushInFlight
<1>2. \/ UNCHANGED <<store, in_flight, wire, started>>
      \/ SendFrom(store, TRUE) /\ MayStart
      \/ DropFrom(store) /\ MayStart
  BY DEF StartScheduledPush
<1>3. /\ d.push_status = "pending" /\ d.push_attempts = Current.push_attempts + 1
      /\ d.review_status = Current.review_status
      /\ ChoiceOf(d) = ChoiceOf(Current)
      /\ Owed(d) = 0 /\ RecordOf(d) = "pending"
  BY <1>0, StartingState
<1>4. SameRevisionAs(d, EffectiveState(store.pj))  BY <1>0, FlowStates DEF Answers
<1>5. store'.status = store.status
  BY <1>0, <1>2, CommitStatus DEF SendFrom, DropFrom
<1>n. /\ started \in Nat /\ granted \in Nat /\ Current.push_attempts \in Nat
      /\ Owed(Current) = 0 /\ Current.push_status = "pending" /\ PushRecord = "pending"
      /\ Current.review_status # "pending_job"
  BY <1>0, <1>1 DEF TypeOK, PostJobStates, Owed, Sound, InStep, Waiting, Retryable,
                    PushRecord, RecordOf
<1>6. started + 1 <= granted /\ started <= Current.push_attempts
  BY <1>0, <1>1, <1>n DEF Sound, Accounted
<1> HIDE DEF d
<1>7. MayStart => Fits(d, store'.status)
  BY <1>0, <1>3, <1>5 DEF MayStart, Fits
<1>8. ASSUME SendFrom(store, TRUE) \/ DropFrom(store), MayStart
      PROVE  \A n : Alike(n, d) => Sound(n)'
  <2>1. started' \in {started, started + 1}  BY <1>8 DEF SendFrom, DropFrom
  <2>2. started' + tasks' + Owed(d) <= granted' /\ d.push_attempts >= started'
    <3>1. started' \in Nat /\ started' <= started + 1  BY <1>n, <2>1
    <3>2. tasks' = 0 /\ Owed(d) = 0 /\ granted' = granted  BY <1>1, <1>3
    <3>3. started' <= granted'  BY <1>6, <1>n, <3>1, <3>2
    <3>4. started' <= d.push_attempts  BY <1>3, <1>6, <1>n, <3>1
    <3>5. \A i \in Nat : i + 0 + 0 = i  OBVIOUS
    <3>6. started' + tasks' + Owed(d) = started'  BY <3>1, <3>2, <3>5, Zenon
    <3>7. QED  BY <3>3, <3>4, <3>6
  <2>3. ChoiceOf(d) \in {choice'} \cup unsaved'
    BY <1>0, <1>1, <1>3 DEF Sound
  <2>4. QED  BY <1>1, <1>3, <1>7, <1>8, <1>n, <2>2, <2>3, NewSound
<1>9. HeldSound' /\ LateFits'
  <2>1. CASE SendFrom(store, TRUE) /\ MayStart
    <3>1. store' = Committed(store, d)  BY <2>1 DEF SendFrom, d
    <3>2. QED  BY <2>1, <3>1, <1>0, <1>4, <1>8, CommitsSound
  <2>2. CASE UNCHANGED started /\ in_flight' = FALSE
    <3>1. Eases  BY <1>1, <2>2 DEF Eases, PushInFlight, TypeOK
    <3>2. \A s : Sound(s) => Sound(s)'
      BY <1>5, <3>1, StillSound
    <3>3. CASE UNCHANGED store
      BY <3>2, <3>3 DEF PushInv, HeldSound, LateFits, PushRecord, Current
    <3>4. CASE DropFrom(store) /\ MayStart
      <4>1. store' = CommitRaised(store, d)  BY <3>4 DEF DropFrom, d
      <4>2. RecordMoves(RecordOf(EffectiveState(store.pj)), RecordOf(d))
        BY <1>0, <1>3, <1>n DEF RecordMoves, PushRecord
      <4>3. \A s : s = EffectiveState(store.pj) => Sound(s)'  BY <1>0, <3>2
      <4>4. QED  BY <3>4, <4>1, <4>2, <4>3, <1>0, <1>4, <1>8, CommitsSound
    <3>5. CASE SendFrom(store, TRUE) /\ MayStart  BY <3>5, <2>1
    <3>6. QED  BY <1>2, <3>3, <3>4, <3>5
  <2>3. QED  BY <1>1, <1>2, <2>1, <2>2 DEF DropFrom
<1>10. PipelineFits'  BY <1>1, <1>5 DEF PushInv, PipelineFits
<1>11. SenderFits'
  <2>1. (in_flight' <=> wire' # {}) /\ \A p \in wire' : ~p.delivered
    <3>1. CASE SendFrom(store, TRUE)
      <4>1. /\ in_flight' = TRUE
            /\ wire' = {[id |-> started + 1, auto |-> TRUE, delivered |-> FALSE]}
        BY <3>1, <1>1 DEF SendFrom
      <4>2. QED  BY <4>1
    <3>2. CASE in_flight' = FALSE /\ wire' = {}  BY <3>2
    <3>3. QED  BY <1>1, <1>2, <3>1, <3>2 DEF DropFrom
  <2>2. QED  BY <1>1, <2>1 DEF PushInv, SenderFits, QueuedIsExact
<1>12. Ledger!Call \/ Ledger!GiveUp
  <2>1. PushSender = "scheduled"  BY <1>1, SenderIs
  <2>2. CASE SendFrom(store, TRUE)
    <3>1. store' = Committed(store, d)  BY <2>2 DEF SendFrom, d
    <3>2. PushRecord' = "pending"  BY <1>0, <1>3, <1>4, <3>1, CommitRecord
    <3>3. wire' = {[id |-> started + 1, auto |-> TRUE, delivered |-> FALSE]}
      BY <1>1, <2>2 DEF SendFrom
    <3>4. PushSender' = "calling"  BY <3>3, SenderBecomes
    <3>5. QED  BY <1>1, <1>n, <2>1, <3>2, <3>4 DEF Ledger!Call
  <2>3. CASE wire' = wire /\ PushRecord' = PushRecord
    <3>1. PushSender' = "none"  BY <1>1, <2>3, SenderBecomes
    <3>2. QED  BY <1>1, <2>1, <2>3, <3>1 DEF Ledger!GiveUp
  <2>4. CASE UNCHANGED <<store, wire>>  BY <2>3, <2>4 DEF PushRecord, Current
  <2>5. CASE DropFrom(store)
    <3>1. store' = CommitRaised(store, d) /\ UNCHANGED wire  BY <2>5 DEF DropFrom, d
    <3>2. PushRecord' = RecordOf(EffectiveState(store.pj))
      BY <1>0, <1>4, <3>1, CommitRecord
    <3>3. QED  BY <1>0, <2>3, <3>1, <3>2 DEF PushRecord
  <2>6. QED  BY <1>2, <2>2, <2>4, <2>5
<1>13. QED  BY <1>9, <1>10, <1>11, <1>12 DEF PushInv

LEMMA StoreStays ==
  ASSUME TypeOK, PushInv, Eases,
         store' = store \/ store' = [store EXCEPT !.latest = NoPostJob]
  PROVE  HeldSound' /\ LateFits' /\ store'.status = store.status
<1>0. store \in Stores  BY DEF TypeOK
<1>1. /\ store'.status = store.status /\ store'.pj = store.pj
      /\ store'.latest \in {store.latest, NoPostJob}
  BY <1>0 DEF Stores
<1>2. Held(store') \subseteq Held(store)  BY <1>1 DEF Held
<1>3. \A s : Sound(s) => Sound(s)'  BY <1>1, StillSound
<1>4. HeldSound'  BY <1>2, <1>3 DEF PushInv, HeldSound
<1>5. LateFits'  BY <1>1 DEF PushInv, LateFits, PushRecord, Current
<1>6. QED  BY <1>1, <1>4, <1>5

LEMMA IngestSound ==
  ASSUME TypeOK, TypeOK', OneOnWire, PushInv, InsightsIngests
  PROVE  PushInv' /\ Ledger!Ingest
<1>1. PICK p \in wire : /\ ~p.delivered
                         /\ wire' = (wire \ {p}) \cup {[p EXCEPT !.delivered = TRUE]}
  BY DEF InsightsIngests
<1>2. /\ accepted' = TRUE /\ store' = store
      /\ UNCHANGED <<server, pc, mem, tasks, queued, in_flight, started, granted, choice, unsaved>>
  BY DEF InsightsIngests
<1>3. Eases  BY <1>2 DEF Eases, TypeOK, PushInFlight
<1>4. HeldSound' /\ LateFits'  BY <1>2, <1>3, StoreStays
<1>5. PipelineFits'  BY <1>2 DEF PushInv, PipelineFits
<1>6. wire # {} /\ wire' # {}  BY <1>1
<1>7. SenderFits'  BY <1>2, <1>6 DEF PushInv, SenderFits, QueuedIsExact
<1>8. Ledger!Ingest
  <2>1. wire = {p} /\ p \in [id : Nat, auto : BOOLEAN, delivered : BOOLEAN]
    BY <1>1 DEF OneOnWire, AtMostOne, TypeOK
  <2>2. PushSender = "calling"  BY <1>1, <2>1, SenderIs
  <2>3. [p EXCEPT !.delivered = TRUE].delivered = TRUE  BY <2>1
  <2>4. PushSender' = "ingested"  BY <1>1, <2>3, SenderBecomes
  <2>5. QED  BY <1>2, <2>2, <2>4 DEF Ledger!Ingest, PushRecord, Current
<1>9. QED  BY <1>4, <1>5, <1>7, <1>8 DEF PushInv

LEMMA RecordedState ==
  ASSUME NEW st \in Stores, NEW result
  PROVE  LET s == EffectiveState(st.pj)
             d == Recorded(st, result)
         IN /\ d.push_status = result /\ d.push_attempts = s.push_attempts
            /\ d.review_status = s.review_status
            /\ d.review = s.review /\ d.push = s.push
<1>1. EffectiveState(st.pj) \in PostJobStates  BY EffectiveType DEF Stores
<1>2. QED  BY <1>1 DEF Recorded, PostJobStates

LEMMA AnswerSound ==
  ASSUME OneFailure, TypeOK, TypeOK', StoreInv, PushInv, OneOnWire, PushAnswered
  PROVE  PushInv' /\ Ledger!Settle
<1>0. /\ store \in Stores /\ LatestFits(store) /\ Current = EffectiveState(store.pj)
      /\ Current \in PostJobStates /\ Sound(Current)
  BY HeldTypes DEF TypeOK, StoreInv, PushInv, HeldSound, Current
<1>p. PICK p \in wire : \E result \in Answer(p) : Answered(p, result)
  BY DEF PushAnswered, Answered
<1>1. PICK result \in Answer(p) : Answered(p, result)  BY <1>p
<1>2. /\ server = "up" /\ wire' = wire \ {p} /\ in_flight' = FALSE
      /\ queued' = (IF p.auto THEN FALSE ELSE queued)
      /\ UNCHANGED <<server, pc, mem, tasks, accepted, started, granted, choice, unsaved>>
  BY <1>1 DEF Answered, PushAnswered, LeaveFlight, history
<1>3. /\ wire' = {} /\ tasks = 0 /\ queued = FALSE /\ queued' = FALSE
      /\ started \in Nat /\ granted \in Nat
  <2>1. wire' = {}  BY <1>2 DEF OneOnWire, AtMostOne
  <2>2. tasks \in Nat /\ queued \in BOOLEAN /\ started \in Nat /\ granted \in Nat  BY DEF TypeOK
  <2>3. tasks = 0 /\ queued = FALSE
    BY <1>1, <2>2 DEF PushInv, SenderFits, QueuedIsExact
  <2>4. QED  BY <1>2, <2>1, <2>2, <2>3
<1>4. /\ result \in {"pushed", "failed", "not_configured"}
      /\ result = "pushed" => accepted
  <2>1. p.delivered => accepted  BY <1>1 DEF PushInv, SenderFits
  <2>2. QED  BY <2>1 DEF Answer
<1>w. \/ PushSender = "ingested"
      \/ PushSender = "calling" /\ result # "pushed"
  <2>1. wire = {p}  BY <1>1 DEF OneOnWire, AtMostOne
  <2>2. CASE p.delivered  BY <1>1, <2>2, SenderIs
  <2>3. CASE ~p.delivered
    <3>1. result # "pushed"  BY <2>3 DEF Answer
    <3>2. QED  BY <2>1, <2>3, <3>1, SenderIs
  <2>4. QED  BY <2>2, <2>3
<1>5. ASSUME NEW st \in Stores, LatestFits(st), st.pj = store.pj, st.status = store.status,
             NEW r \in {result, "failed"}, store' = Committed(st, Recorded(st, r))
      PROVE  PushInv' /\ Ledger!Settle
  <2> DEFINE d == Recorded(st, r)
  <2>1. /\ d.push_status = r /\ d.push_attempts = Current.push_attempts
        /\ d.review_status = Current.review_status
        /\ d.review = Current.review /\ d.push = Current.push
    BY <1>0, <1>5, RecordedState
  <2>2. SameRevisionAs(d, EffectiveState(st.pj))  BY <1>4, FlowStates DEF Answers
  <2>3. store'.status = st.status  BY <1>5, CommitStatus
  <2>c. store' = Committed(st, d)  BY <1>5
  <2> HIDE DEF d
  <2>4. Owed(d) = 0 /\ ChoiceOf(d) = ChoiceOf(Current)
    BY <1>4, <2>1 DEF Owed, Waiting, ChoiceOf
  <2>5. started <= granted /\ d.push_attempts >= started
    <3>1. Owed(Current) \in {0, 1}  BY DEF Owed
    <3>2. QED  BY <1>0, <1>3, <2>1, <3>1 DEF Sound, Accounted
  <2>6. started' + tasks' + Owed(d) <= granted' /\ d.push_attempts >= started'
    <3>1. started' = started /\ tasks' = 0 /\ granted' = granted  BY <1>2, <1>3
    <3>2. QED  BY <1>3, <2>4, <2>5, <3>1
  <2>7. Fits(d, store'.status)
    BY <1>0, <1>4, <1>5, <2>1, <2>3 DEF Sound, Fits
  <2>8. ~PushInFlight' /\ tasks' = 0  BY <1>2, <1>3 DEF PushInFlight
  <2>9. d.push_status = "pushed" => accepted'  BY <1>2, <1>4, <2>1
  <2>10. ChoiceOf(d) \in {choice'} \cup unsaved'  BY <1>0, <1>2, <2>4 DEF Sound
  <2>11. \A n : Alike(n, d) => Sound(n)'
    BY <2>6, <2>7, <2>8, <2>9, <2>10, NewSound
  <2>12. HeldSound' /\ LateFits'  BY <1>5, <2>2, <2>11, <2>c, CommitsSound
  <2>13. PipelineFits'  BY <1>2, <1>5, <2>3 DEF PushInv, PipelineFits
  <2>14. SenderFits'  BY <1>2, <1>3 DEF PushInv, SenderFits, QueuedIsExact
  <2>15. Ledger!Settle
    <3>1. PushRecord' = RecordOf(d)  BY <1>5, <2>2, <2>c, CommitRecord
    <3>2. RecordOf(d) \in {"failed", "pushed"} /\ (RecordOf(d) = "pushed" => r = "pushed")
      BY <1>4, <2>1 DEF RecordOf, Waiting, Retryable
    <3>3. PushSender' = "none"  BY <1>2, <1>3, SenderBecomes
    <3>4. r = "pushed" => result = "pushed"  OBVIOUS
    <3>5. QED  BY <1>2, <1>w, <3>1, <3>2, <3>3, <3>4 DEF Ledger!Settle
  <2>16. QED  BY <2>12, <2>13, <2>14, <2>15 DEF PushInv
<1>6. CASE store' = Committed(store, Recorded(store, result))  BY <1>0, <1>5, <1>6
<1>7. CASE LET lost == CommitRaised(store, Recorded(store, result))
           IN store' = Committed(lost, Recorded(lost, "failed"))
  <2> DEFINE lost == CommitRaised(store, Recorded(store, result))
  <2>1. SameRevisionAs(Recorded(store, result), EffectiveState(store.pj))
    BY <1>0, <1>4, FlowStates DEF Answers
  <2>2. lost \in Stores /\ LatestFits(lost) /\ lost.pj = store.pj /\ lost.status = store.status
    BY <1>0, <2>1, CommittedFits, CommitStatus
  <2>3. QED  BY <1>5, <1>7, <2>2
<1>8. ~CanRaise(2)
  BY DEF CanRaise, OneFailure, TypeOK
<1>9. QED  BY <1>1, <1>6, <1>7, <1>8 DEF Answered

LEMMA CrashSound ==
  ASSUME TypeOK, TypeOK', StoreInv, OneOnWire, PushInv, Crash \/ FailOrphan
  PROVE  PushInv' /\ (Quiet \/ Ledger!Die)
<1>0. store \in Stores  BY DEF TypeOK
<1>1. CASE Crash
  <2>1. /\ server' = "down" /\ pc' = "done" /\ tasks' = 0 /\ queued' = FALSE
        /\ in_flight' = FALSE /\ wire' = {}
        /\ store' = [store EXCEPT !.latest = NoPostJob]
        /\ UNCHANGED <<started, granted, choice, unsaved>>
        /\ accepted => accepted'
    BY <1>1 DEF Crash
  <2>2. Eases  BY <2>1 DEF Eases, TypeOK, PushInFlight
  <2>3. HeldSound' /\ LateFits'  BY <2>1, <2>2, StoreStays
  <2>4. PipelineFits' /\ SenderFits'
    BY <2>1 DEF PipelineFits, SenderFits, QueuedIsExact
  <2>5. Ledger!Die
    <3>1. PushSender' = "none"  BY <2>1, SenderBecomes
    <3>2. PushRecord' = PushRecord  BY <1>0, <2>1 DEF PushRecord, Current, Stores
    <3>3. \/ accepted' = accepted
          \/ accepted' = TRUE /\ wire # {}
      BY <1>1 DEF Crash, TypeOK
    <3>4. wire # {} => accepted = TRUE \/ PushSender = "calling"
      <4>1. CASE \E p \in wire : p.delivered
        BY <4>1 DEF PushInv, SenderFits, TypeOK
      <4>2. CASE \A p \in wire : ~p.delivered  BY <4>2, SenderIs
      <4>3. QED  BY <4>1, <4>2
    <3>5. QED  BY <3>1, <3>2, <3>3, <3>4 DEF Ledger!Die
  <2>6. QED  BY <2>3, <2>4, <2>5 DEF PushInv
<1>2. CASE FailOrphan
  <2>1. /\ server = "down" /\ server' = "booting"
        /\ UNCHANGED <<pc, mem, tasks, queued, in_flight, wire, history>>
        /\ store'.pj = store.pj /\ store'.latest = NoPostJob /\ store.latest = NoPostJob
        /\ store'.status \in Terminal
        /\ store.status = "completed" => store'.status = "completed"
    BY <1>0, <1>2 DEF FailOrphan, Stores, StoreInv, Terminal
  <2>2. Eases  BY <2>1 DEF Eases, TypeOK, PushInFlight, history
  <2>3. ASSUME NEW s, Sound(s)  PROVE Sound(s)'
    <3>1. Fits(s, store.status) => Fits(s, store'.status)  BY <2>1 DEF Fits
    <3>2. QED  BY <2>2, <2>3, <3>1, StillSound
  <2>4. Held(store') = Held(store)  BY <2>1 DEF Held
  <2>5. HeldSound' /\ LateFits'  BY <2>1, <2>3, <2>4 DEF PushInv, HeldSound, LateFits
  <2>6. PipelineFits' /\ SenderFits'
    BY <2>1 DEF PushInv, PipelineFits, SenderFits, QueuedIsExact, history
  <2>7. Quiet  BY <2>1 DEF Quiet, RecordMoves, PushRecord, Current, history
  <2>8. QED  BY <2>5, <2>6, <2>7 DEF PushInv
<1>3. QED  BY <1>1, <1>2

(* Startup: what recover_on_startup makes of the stored state, with no push in  *)
(* flight.                                                                     *)
LEMMA SweptState ==
  ASSUME NEW s \in PostJobStates, NEW status \in Terminal, Fits(s, status)
  PROVE  LET h == HealInterrupted(s, FALSE)
             t == IF status = "failed" THEN SettleFailedJob(h) ELSE h
         IN /\ t \in PostJobStates /\ KeepsChoices(t, s) /\ Fits(t, status)
            /\ \/ KeepsPush(t, s) /\ t.push_status # "pending"
               \/ s.push_status = "pending" /\ t.push_status = "failed"
            /\ status = "failed" => /\ t.review_status # "pending_job"
                                    /\ t.push_status \notin {"waiting_for_job", "waiting_for_review"}
<1> DEFINE h == HealInterrupted(s, FALSE)
           t == IF status = "failed" THEN SettleFailedJob(h) ELSE h
<1>1. /\ KeepsChoices(h, s) /\ h.review_status = s.review_status
      /\ IF s.push_status = "pending" THEN h.push_status = "failed" ELSE h = s
  BY HealedState
<1>2. h \in PostJobStates  BY <1>1 DEF KeepsChoices
<1> HIDE DEF h
<1>3. CASE status = "failed"
  <2>1. /\ KeepsChoices(t, h) /\ KeepsPush(t, h) /\ Fits(t, status)
        /\ t.review_status \notin {"pending_job", "awaiting_review"}
        /\ t.push_status \notin {"waiting_for_job", "waiting_for_review"}
    BY <1>2, <1>3, SettledState
  <2> HIDE DEF t
  <2>2. KeepsChoices(t, s) /\ t \in PostJobStates  BY <1>1, <2>1 DEF KeepsChoices
  <2>3. CASE s.push_status = "pending"
    <3>1. t.push_status = "failed"  BY <1>1, <2>1, <2>3 DEF KeepsPush, Waiting
    <3>2. QED  BY <1>3, <2>1, <2>2, <2>3, <3>1 DEF t, h
  <2>4. CASE s.push_status # "pending"
    <3>1. KeepsPush(t, s) /\ t.push_status # "pending"
      BY <1>1, <2>1, <2>4 DEF KeepsPush, Waiting
    <3>2. QED  BY <1>3, <2>1, <2>2, <3>1 DEF t, h
  <2>5. QED  BY <2>3, <2>4
<1>4. CASE status # "failed"
  <2>1. t = h  BY <1>4
  <2> HIDE DEF t
  <2>2. Fits(t, status)
    BY <1>1, <2>1 DEF Fits, KeepsChoices
  <2>3. CASE s.push_status = "pending"
    BY <1>1, <1>2, <1>4, <2>1, <2>2, <2>3 DEF t, h
  <2>4. CASE s.push_status # "pending"
    BY <1>1, <1>2, <1>4, <2>1, <2>2, <2>4 DEF t, h, KeepsPush
  <2>5. QED  BY <2>3, <2>4
<1>5. QED  BY <1>3, <1>4

Settled == IF store.status = "failed"
           THEN SettleFailedJob(HealInterrupted(Current, FALSE))
           ELSE HealInterrupted(Current, FALSE)
Swept   == IF Settled = store.pj THEN store ELSE Committed(store, Settled)
SweptPj == EffectiveState(Swept.pj)
Resumes == store.status = "completed" /\ Settled.review_status = "pending_job"

LEMMA RecoverSteps ==
  ASSUME TypeOK, StoreInv, PushInv, Recover
  PROVE  /\ server = "booting" /\ server' = "up" /\ store.status \in Terminal
         /\ UNCHANGED <<pc, mem, in_flight, wire, snapshot, history>>
         /\ tasks = 0 /\ queued = FALSE /\ in_flight = FALSE /\ wire = {} /\ PushInFlight = FALSE
         /\ started \in Nat /\ granted \in Nat
         /\ Settled \in PostJobStates /\ KeepsChoices(Settled, Current)
         /\ Fits(Settled, store.status) /\ SameRevisionAs(Settled, EffectiveState(store.pj))
         /\ \/ KeepsPush(Settled, Current) /\ Settled.push_status # "pending"
            \/ Current.push_status = "pending" /\ Settled.push_status = "failed"
         /\ store.status = "failed" =>
              /\ Settled.review_status # "pending_job"
              /\ Settled.push_status \notin {"waiting_for_job", "waiting_for_review"}
         /\ \/ /\ UNCHANGED <<store, tasks, queued, used>>
               /\ store.pj = NoPostJob \/ ~NeedsRecovery(Current)
            \/ /\ store.pj # NoPostJob
               /\ \/ /\ store' = IF Resumes THEN Committed(Swept, Decided(Swept.pj, TRUE)) ELSE Swept
                     /\ Schedule(Resumes /\ PushScheduled(Swept.pj, TRUE))
                     /\ UNCHANGED used
                  \/ /\ CanRaise(1) /\ Raise(1) /\ UNCHANGED <<tasks, queued>>
                     /\ \/ store' = CommitRaised(store, Settled)
                        \/ Resumes /\ store' = CommitRaised(Swept, Decided(Swept.pj, TRUE))
<1>0. store \in Stores /\ Current \in PostJobStates /\ Sound(Current)
  BY HeldTypes DEF TypeOK, PushInv, HeldSound
<1>1. /\ server = "booting" /\ server' = "up"
      /\ UNCHANGED <<pc, mem, in_flight, wire, snapshot, history>>
  BY DEF Recover
<1>2. /\ tasks = 0 /\ queued = FALSE /\ in_flight = FALSE /\ wire = {} /\ PushInFlight = FALSE
      /\ store.status \in Terminal
      /\ started \in Nat /\ granted \in Nat
  <2>1. /\ tasks \in Nat /\ queued \in BOOLEAN /\ in_flight \in BOOLEAN
        /\ started \in Nat /\ granted \in Nat
    BY DEF TypeOK
  <2>2. QED  BY <1>1, <2>1 DEF PushInv, SenderFits, QueuedIsExact, PushInFlight
<1>3. /\ Settled \in PostJobStates /\ KeepsChoices(Settled, Current)
      /\ Fits(Settled, store.status)
      /\ \/ KeepsPush(Settled, Current) /\ Settled.push_status # "pending"
         \/ Current.push_status = "pending" /\ Settled.push_status = "failed"
      /\ store.status = "failed" =>
           /\ Settled.review_status # "pending_job"
           /\ Settled.push_status \notin {"waiting_for_job", "waiting_for_review"}
  BY <1>0, <1>2, SweptState DEF Sound, Settled
<1>4. SameRevisionAs(Settled, EffectiveState(store.pj))
  BY <1>0, FlowPair DEF Settled, Current
<1>5. CASE store.pj = NoPostJob \/ ~NeedsRecovery(Current)
  <2>1. UNCHANGED <<store, tasks, queued, used>>  BY <1>5 DEF Recover, Current
  <2>2. QED  BY <1>1, <1>2, <1>3, <1>4, <1>5, <2>1
<1>6. CASE ~(store.pj = NoPostJob \/ ~NeedsRecovery(Current))
  <2>1. store.pj = Current  BY <1>6 DEF Current, EffectiveState
  <2>2. \/ /\ store' = IF Resumes THEN Committed(Swept, Decided(Swept.pj, TRUE)) ELSE Swept
           /\ Schedule(Resumes /\ PushScheduled(Swept.pj, TRUE))
           /\ UNCHANGED used
        \/ /\ CanRaise(1) /\ Raise(1) /\ UNCHANGED <<tasks, queued>>
           /\ \/ store' = CommitRaised(store, Settled)
              \/ Resumes /\ store' = CommitRaised(Swept, Decided(Swept.pj, TRUE))
    BY <1>2, <1>6, <2>1 DEF Recover, Current, Settled, Swept, Resumes
  <2>3. QED  BY <1>1, <1>2, <1>3, <1>4, <1>6, <2>2
<1>7. QED  BY <1>5, <1>6

(* The state that a resumed decision is taken on. *)
LEMMA SweptFacts ==
  ASSUME store \in Stores, LatestFits(store), store.pj # NoPostJob,
         Settled \in PostJobStates, SameRevisionAs(Settled, EffectiveState(store.pj))
  PROVE  /\ Swept \in Stores /\ LatestFits(Swept) /\ Swept.status = store.status
         /\ Swept.pj = SweptPj /\ Alike(SweptPj, Settled)
         /\ Swept = store \/ Swept = Committed(store, Settled)
         /\ SameRevisionAs(SweptPj, EffectiveState(Swept.pj))
<1>1. Swept = store \/ Swept = Committed(store, Settled)  BY DEF Swept
<1>2. CASE Settled = store.pj
  <2>1. Swept = store /\ SweptPj = Settled /\ Swept.pj = SweptPj
    BY <1>2 DEF Swept, SweptPj, EffectiveState
  <2>2. QED  BY <1>1, <2>1 DEF Alike, SameRevisionAs, SweptPj
<1>3. CASE Settled # store.pj
  <2>1. Swept = Committed(store, Settled)  BY <1>3 DEF Swept
  <2>2. Swept \in Stores /\ LatestFits(Swept)  BY <2>1, CommittedFits
  <2>3. /\ Swept.status = store.status /\ Swept.pj # NoPostJob
        /\ Alike(EffectiveState(Swept.pj), Settled)
    BY <2>1, CommitHolds
  <2>4. QED  BY <1>1, <2>2, <2>3 DEF SweptPj, EffectiveState, Alike, SameRevisionAs
<1>4. QED  BY <1>2, <1>3

LEMMA RecoverSound ==
  ASSUME TypeOK, TypeOK', StoreInv, PushInv, Recover
  PROVE  PushInv' /\ (Quiet \/ Ledger!Decide)
<1>0. /\ store \in Stores /\ LatestFits(store) /\ Current = EffectiveState(store.pj)
      /\ Current \in PostJobStates /\ Sound(Current)
  BY HeldTypes DEF TypeOK, StoreInv, PushInv, HeldSound, Current
<1>1. /\ server = "booting" /\ server' = "up"
      /\ UNCHANGED <<pc, mem, in_flight, wire, snapshot, history>>
      /\ tasks = 0 /\ queued = FALSE /\ in_flight = FALSE /\ wire = {} /\ PushInFlight = FALSE
      /\ started \in Nat /\ granted \in Nat
  BY RecoverSteps
<1>2. /\ Settled \in PostJobStates /\ KeepsChoices(Settled, Current)
      /\ Fits(Settled, store.status) /\ SameRevisionAs(Settled, EffectiveState(store.pj))
      /\ \/ KeepsPush(Settled, Current) /\ Settled.push_status # "pending"
         \/ Current.push_status = "pending" /\ Settled.push_status = "failed"
  BY RecoverSteps
<1>3. CASE UNCHANGED <<store, tasks, queued>>
  <2>1. Eases  BY <1>1, <1>3 DEF Eases, PushInFlight, history
  <2>2. HeldSound' /\ LateFits'  BY <1>3, <2>1, StoreStays
  <2>3. PipelineFits' /\ SenderFits'
    BY <1>1, <1>3 DEF PushInv, PipelineFits, SenderFits, QueuedIsExact, history
  <2>4. Quiet  BY <1>1, <1>3 DEF Quiet, RecordMoves, PushRecord, Current, history
  <2>5. QED  BY <2>2, <2>3, <2>4 DEF PushInv
<1>4. CASE /\ UNCHANGED <<tasks, queued>>
           /\ store' = Committed(store, Settled) \/ store' = CommitRaised(store, Settled)
  <2>1. tasks > 0 => Settled.review_status # "pending_job"  BY <1>1
  <2>2. SameRevisionAs(Settled, Current)  BY <1>0, <1>2
  <2>3. \/ KeepsPush(Settled, Current)
        \/ Current.push_status = "pending" /\ Settled.push_status = "failed" /\ ~PushInFlight
    BY <1>1, <1>2
  <2>4. QED  BY <1>1, <1>2, <1>4, <2>1, <2>2, <2>3, PlainCommitSound
<1>5. CASE /\ store.pj # NoPostJob /\ Resumes
           /\ \/ /\ store' = Committed(Swept, Decided(Swept.pj, TRUE))
                 /\ Schedule(PushScheduled(Swept.pj, TRUE))
              \/ /\ store' = CommitRaised(Swept, Decided(Swept.pj, TRUE))
                 /\ UNCHANGED <<tasks, queued>>
  <2>0. PICK x : x = SweptPj  OBVIOUS
  <2>1. /\ Swept \in Stores /\ LatestFits(Swept) /\ Swept.status = store.status
        /\ Swept.pj = x /\ x = EffectiveState(Swept.pj) /\ Alike(x, Settled)
        /\ SameRevisionAs(x, EffectiveState(Swept.pj))
    BY <1>0, <1>2, <1>5, <2>0, SweptFacts DEF SweptPj
  <2>2. store.status = "completed"  BY <1>5 DEF Resumes
  <2>3. /\ x.push_attempts = Current.push_attempts
        /\ x.push_status = Settled.push_status /\ x.push = Current.push
        /\ ChoiceOf(x) = ChoiceOf(Current)
        /\ Fits(x, store.status)
    BY <1>2, <2>1 DEF Alike, KeepsChoices, ChoiceOf, Fits
  <2>4. Owed(x) = Owed(Current)
    BY <1>2, <2>3 DEF Owed, KeepsPush, Waiting
  <2>5. started + tasks + Owed(x) <= granted' /\ x.push_attempts >= started
    BY <1>0, <1>1, <2>3, <2>4 DEF Sound, Accounted, history
  <2>6. x.push_status = "pushed" => accepted
    BY <1>0, <1>2, <2>3 DEF Sound, InStep, KeepsPush, Waiting
  <2>7. ChoiceOf(x) \in {choice'} \cup unsaved'
    BY <1>0, <1>1, <2>3 DEF Sound, history
  <2>8. ASSUME UNCHANGED <<tasks, queued>>, store' = CommitRaised(Swept, Decided(x, TRUE)),
               NEW r, r = EffectiveState(Swept.pj)
        PROVE  Sound(r)'
    <3>1. Alike(r, x)  BY <2>1, <2>8 DEF Alike
    <3>2. store'.status = store.status  BY <2>1, <2>8, CommitStatus
    <3>3. started' + tasks' + Owed(x) <= granted' /\ x.push_attempts >= started'
      BY <1>1, <2>5, <2>8 DEF history
    <3>4. ~PushInFlight' /\ ~(tasks' > 0)  BY <1>1, <2>8 DEF PushInFlight
    <3>5. x.push_status = "pushed" => accepted'  BY <1>1, <2>6 DEF history
    <3>6. QED  BY <2>3, <2>7, <3>1, <3>2, <3>3, <3>4, <3>5, NewSound
  <2>9. /\ RecordMoves(RecordOf(EffectiveState(Swept.pj)), RecordOf(x))
        /\ RecordMoves(PushRecord, RecordOf(EffectiveState(Swept.pj)))
        /\ RecordMoves(PushRecord, RecordOf(x))
    <3>1. RecordMoves(PushRecord, RecordOf(x))
      BY <1>2, <2>3 DEF PushRecord, RecordOf, RecordMoves, KeepsPush, Waiting, Retryable
    <3>2. QED  BY <2>1, <3>1 DEF RecordMoves
  <2>10. /\ granted' \in Nat /\ granted' >= granted
         /\ UNCHANGED <<in_flight, wire, accepted, started>>
    BY <1>1 DEF history
  <2>11. \/ /\ store' = Committed(Swept, Decided(x, TRUE))
            /\ Schedule(PushScheduled(x, TRUE))
         \/ /\ store' = CommitRaised(Swept, Decided(x, TRUE))
            /\ UNCHANGED <<tasks, queued>>
    BY <1>5, <2>1
  <2>12. QED
    BY <1>1, <2>1, <2>2, <2>5, <2>6, <2>7, <2>8, <2>9, <2>10, <2>11, DecisionSound
<1>6. \/ UNCHANGED <<store, tasks, queued>>
      \/ /\ store.pj # NoPostJob
         /\ \/ /\ store' = IF Resumes THEN Committed(Swept, Decided(Swept.pj, TRUE)) ELSE Swept
               /\ Schedule(Resumes /\ PushScheduled(Swept.pj, TRUE))
            \/ /\ UNCHANGED <<tasks, queued>>
               /\ \/ store' = CommitRaised(store, Settled)
                  \/ Resumes /\ store' = CommitRaised(Swept, Decided(Swept.pj, TRUE))
  BY RecoverSteps
<1>7. ASSUME store.pj # NoPostJob,
             store' = IF Resumes THEN Committed(Swept, Decided(Swept.pj, TRUE)) ELSE Swept,
             Schedule(Resumes /\ PushScheduled(Swept.pj, TRUE))
      PROVE  PushInv' /\ (Quiet \/ Ledger!Decide)
  <2>1. CASE Resumes  BY <1>5, <1>7, <2>1 DEF Schedule
  <2>2. CASE ~Resumes
    <3>1. UNCHANGED <<tasks, queued>>  BY <1>1, <1>7, <2>2 DEF Schedule
    <3>2. Swept = store \/ Swept = Committed(store, Settled)  BY DEF Swept
    <3>3. QED  BY <1>3, <1>4, <1>7, <2>2, <3>1, <3>2
  <2>3. QED  BY <2>1, <2>2
<1>8. QED  BY <1>3, <1>4, <1>5, <1>6, <1>7

LEMMA RecoverSettles ==
  ASSUME TypeOK, StoreInv, PushInv, Recover, used' = used
  PROVE  LET s == EffectiveState(store'.pj)
         IN /\ s.push_status = "pending" => queued'
            /\ s.push_status # "waiting_for_job" /\ s.review_status # "pending_job"
            /\ store'.status = "failed" => s.push_status \notin {"pending", "waiting_for_review"}
<1> DEFINE Rest(s, status) ==
             /\ s.push_status # "pending"
             /\ s.push_status # "waiting_for_job" /\ s.review_status # "pending_job"
             /\ status = "failed" => s.push_status # "waiting_for_review"
<1>0. /\ store \in Stores /\ LatestFits(store) /\ Current = EffectiveState(store.pj)
      /\ Current \in PostJobStates /\ Sound(Current) /\ Fits(Current, store.status)
  BY HeldTypes DEF TypeOK, StoreInv, PushInv, HeldSound, Current, Sound
<1>1. /\ Settled \in PostJobStates /\ Fits(Settled, store.status)
      /\ SameRevisionAs(Settled, EffectiveState(store.pj))
      /\ Settled.push_status # "pending" /\ store.status \in Terminal
      /\ store.status = "failed" =>
           /\ Settled.review_status # "pending_job"
           /\ Settled.push_status \notin {"waiting_for_job", "waiting_for_review"}
  BY RecoverSteps DEF KeepsPush
<1>2. CASE UNCHANGED store /\ (store.pj = NoPostJob \/ ~NeedsRecovery(Current))
  <2>1. Rest(Current, store.status)
    <3>1. CASE store.pj = NoPostJob
      BY <1>0, <3>1 DEF EffectiveState, LegacyState
    <3>2. CASE ~NeedsRecovery(Current)
      BY <1>0, <3>2 DEF NeedsRecovery, Fits
    <3>3. QED  BY <1>2, <3>1, <3>2
  <2>2. QED  BY <1>0, <1>2, <2>1
<1>3. CASE /\ store.pj # NoPostJob
           /\ store' = IF Resumes THEN Committed(Swept, Decided(Swept.pj, TRUE)) ELSE Swept
           /\ Schedule(Resumes /\ PushScheduled(Swept.pj, TRUE))
  <2>0. PICK x : x = SweptPj  OBVIOUS
  <2>1. /\ Swept \in Stores /\ LatestFits(Swept) /\ Swept.status = store.status
        /\ Swept.pj = x /\ x = EffectiveState(Swept.pj) /\ Alike(x, Settled)
        /\ SameRevisionAs(x, EffectiveState(Swept.pj))
    BY <1>0, <1>1, <1>3, <2>0, SweptFacts DEF SweptPj
  <2>2. CASE ~Resumes
    <3>1. Rest(Settled, store.status)
      BY <1>1, <2>2 DEF Resumes, Fits, Terminal
    <3>2. Rest(x, store.status)  BY <2>1, <3>1 DEF Alike
    <3>3. store' = Swept  BY <1>3, <2>2
    <3>4. QED  BY <2>1, <3>2, <3>3
  <2>3. CASE Resumes
    <3> DEFINE d == Decided(x, TRUE)
    <3>1. x \in PostJobStates  BY <2>1 DEF Alike
    <3>2. /\ d.review_status # "pending_job" /\ d.push_status # "waiting_for_job"
          /\ PushScheduled(x, TRUE) \/ KeepsPush(d, x)
      BY <3>1, DecidedWhenDone
    <3>3. SameRevisionAs(d, EffectiveState(Swept.pj))
      BY <2>1, <3>1, DecidedKeeps DEF SameRevisionAs
    <3>4. store' = Committed(Swept, d) /\ (PushScheduled(x, TRUE) => queued')
      BY <1>3, <2>1, <2>3 DEF Schedule
    <3>5. store.status = "completed"  BY <2>3 DEF Resumes
    <3> HIDE DEF d
    <3>6. store'.status = "completed" /\ Alike(EffectiveState(store'.pj), d)
      BY <2>1, <3>3, <3>4, <3>5, CommitHolds
    <3>7. d.push_status = "pending" => queued'
      <4>1. x.push_status # "pending"  BY <1>1, <2>1 DEF Alike
      <4>2. QED  BY <3>2, <3>4, <4>1 DEF KeepsPush, Waiting
    <3>8. QED  BY <3>2, <3>6, <3>7 DEF Alike
  <2>4. QED  BY <2>2, <2>3
<1>4. ~Raise(1)
  <2>1. used.failures \in Nat /\ used.failures + 1 # used.failures  BY DEF TypeOK
  <2>2. QED  BY <2>1 DEF Raise, TypeOK
<1>5. QED  BY <1>2, <1>3, <1>4, RecoverSteps

LEMMA InitPushInv == Init => PushInv
<1> SUFFICES ASSUME Init PROVE PushInv
  OBVIOUS
<1>1. /\ server = "up" /\ tasks = 0 /\ queued = FALSE /\ in_flight = FALSE /\ wire = {}
      /\ accepted = FALSE /\ started = 0 /\ unsaved = {}
      /\ choice = ChoiceOf(EffectiveState(store.pj)) /\ store.latest = store.pj
  BY DEF Init
<1>2. CASE \E q \in Requests :
             LET s == InitialState(q.review, q.push, q.allowed)
             IN /\ store = [status |-> "pending", pj |-> s, latest |-> s]
                /\ pc = "queued" /\ granted = (IF s.push = "requested" THEN 1 ELSE 0)
  <2>1. PICK q \in Requests :
             LET s == InitialState(q.review, q.push, q.allowed)
             IN /\ store = [status |-> "pending", pj |-> s, latest |-> s]
                /\ pc = "queued" /\ granted = (IF s.push = "requested" THEN 1 ELSE 0)
    BY <1>2
  <2> DEFINE s == InitialState(q.review, q.push, q.allowed)
  <2>2. s \in PostJobStates  BY InitialType DEF Requests
  <2>3. /\ s.review_status = "pending_job" /\ s.push_attempts = 0
        /\ s.push_status = IF s.push = "requested" THEN "waiting_for_job" ELSE "not_requested"
        /\ s.push \in {"requested", "not_requested"}
    BY DEF InitialState
  <2>4. /\ store.status = "pending" /\ store.pj = s /\ store.latest = s /\ pc = "queued"
        /\ granted = (IF s.push = "requested" THEN 1 ELSE 0)
    BY <2>1
  <2> HIDE DEF s
  <2>5. EffectiveState(s) = s  BY <2>2 DEF EffectiveState
  <2>6. Fits(s, store.status)  BY <2>3, <2>4 DEF Fits
  <2>7. Owed(s) = granted  BY <2>3, <2>4 DEF Owed, Waiting
  <2>8. granted \in Nat  BY <2>4
  <2>9. Accounted(s)  BY <1>1, <2>3, <2>7, <2>8 DEF Accounted
  <2>10. InStep(s)  BY <1>1, <2>3 DEF InStep, PushInFlight
  <2>11. Sound(s)  BY <1>1, <2>4, <2>5, <2>6, <2>9, <2>10 DEF Sound
  <2>12. HeldSound  BY <2>4, <2>5, <2>11 DEF HeldSound, Held
  <2>13. LateFits
    BY <2>4, <2>5 DEF LateFits, PushRecord, Current, RecordMoves
  <2>14. PipelineFits /\ SenderFits
    BY <1>1, <2>4 DEF PipelineFits, SenderFits, QueuedIsExact
  <2>15. QED  BY <2>12, <2>13, <2>14 DEF PushInv
<1>3. CASE /\ store = [status |-> "completed", pj |-> NoPostJob, latest |-> NoPostJob]
           /\ pc = "done" /\ granted = 0
  <2>1. Held(store) = {LegacyState}  BY <1>3 DEF Held, EffectiveState
  <2>2. /\ Owed(LegacyState) = 0 /\ LegacyState.push_attempts = 0
        /\ LegacyState.push_status = "not_requested"
        /\ LegacyState.review_status = "not_required"
    BY DEF Owed, LegacyState
  <2>3. Accounted(LegacyState)  BY <1>1, <1>3, <2>2 DEF Accounted
  <2>4. InStep(LegacyState)  BY <1>1, <2>2 DEF InStep, PushInFlight
  <2>5. Fits(LegacyState, store.status)  BY <2>2 DEF Fits
  <2>6. Sound(LegacyState)  BY <1>1, <1>3, <2>3, <2>4, <2>5 DEF Sound, EffectiveState
  <2>7. HeldSound  BY <2>1, <2>6 DEF HeldSound
  <2>8. LateFits  BY <1>3 DEF LateFits
  <2>9. PipelineFits /\ SenderFits
    BY <1>1, <1>3 DEF PipelineFits, SenderFits, QueuedIsExact
  <2>10. QED  BY <2>7, <2>8, <2>9 DEF PushInv
<1>4. QED  BY <1>2, <1>3 DEF Init, Submitted

LEMMA StepSound ==
  ASSUME OneFailure, TypeOK, TypeOK', StoreInv, OneOnWire, PushInv, [Next]_vars
  PROVE  /\ PushInv'
         /\ \/ Quiet \/ Ledger!Decide \/ Ledger!Call \/ Ledger!GiveUp \/ Ledger!Retry
            \/ Ledger!Ingest \/ Ledger!Settle \/ Ledger!Die
<1>1. CASE Pipeline
  BY <1>1, StagesSound, HooksSound DEF Pipeline
<1>2. CASE User  BY <1>2, UserSound
<1>3. CASE StartScheduledPush  BY <1>3, StartSound
<1>4. CASE InsightsIngests  BY <1>4, IngestSound
<1>5. CASE PushAnswered  BY <1>5, AnswerSound
<1>6. ~StaleRead /\ ~StaleWrite
  BY DEF OneFailure, StaleRead, StaleWrite, StoreInv
<1>7. CASE Crash \/ FailOrphan  BY <1>7, CrashSound
<1>8. CASE Recover  BY <1>8, RecoverSound
<1>9. CASE UNCHANGED vars
  <2>1. Eases  BY <1>9 DEF Eases, TypeOK, PushInFlight, vars, system, history
  <2>2. HeldSound' /\ LateFits'  BY <1>9, <2>1, StoreStays DEF vars, system
  <2>3. PipelineFits' /\ SenderFits'
    BY <1>9 DEF PushInv, PipelineFits, SenderFits, QueuedIsExact, vars, system, history
  <2>4. Quiet
    BY <1>9 DEF Quiet, RecordMoves, PushRecord, Current, vars, system, history
  <2>5. QED  BY <2>2, <2>3, <2>4 DEF PushInv
<1>10. QED
  BY <1>1, <1>2, <1>3, <1>4, <1>5, <1>6, <1>7, <1>8, <1>9 DEF Next

LEMMA PushInvHolds ==
  ASSUME OneFailure
  PROVE  Spec => [](TypeOK /\ StoreInv /\ OneOnWire /\ PushInv)
<1>1. Init => OneOnWire  BY DEF Init, OneOnWire, AtMostOne
<1>2. TypeOK /\ TypeOK' /\ StoreInv /\ OneOnWire /\ PushInv /\ [Next]_vars =>
        StoreInv' /\ OneOnWire' /\ PushInv'
  BY StepOrdered, StepKeepsOne, StepSound
<1>3. QED
  BY <1>1, <1>2, InitStoreInv, InitPushInv, TypeCorrect, PTL DEF Spec
-----------------------------------------------------------------------------
(* What the queue, the counters and the statuses say of a job's pushes agrees  *)
(* with what has been sent and with the job itself, for any number of requests *)
(* and crashes, if at most one save raises and no thread marks the job as      *)
(* stale: the schedule is exact, nothing is sent that no permitted caller      *)
(* asked for, every push is on record before it is sent.                       *)
THEOREM PushesAreAccounted ==
  ASSUME OneFailure
  PROVE  Spec => []PushesAccounted
<1>1. TypeOK /\ PushInv => PushesAccounted
  <2> SUFFICES ASSUME TypeOK, PushInv PROVE PushesAccounted
    OBVIOUS
  <2>1. Sound(Current)  BY HeldTypes DEF PushInv, HeldSound
  <2>2. QueuedIsExact  BY DEF PushInv, SenderFits
  <2>3. NoPushWithoutGrant /\ EveryPushRecorded
    <3>1. Owed(Current) \in {0, 1}  BY DEF Owed
    <3>2. started \in Nat /\ tasks \in Nat /\ granted \in Nat  BY DEF TypeOK
    <3>3. QED
      BY <2>1, <3>1, <3>2 DEF Sound, Accounted, NoPushWithoutGrant, EveryPushRecorded
  <2>4. StatusesFitTheJob  BY <2>1 DEF Sound, Fits, StatusesFitTheJob
  <2>5. QED  BY <2>2, <2>3, <2>4 DEF PushesAccounted
<1>2. QED  BY <1>1, PushInvHolds, PTL

(* The stored choices are those of the last answered request, or of one that   *)
(* was answered 500 since: no save of an older copy brings earlier ones back.  *)
THEOREM ChoicesStand ==
  ASSUME OneFailure
  PROVE  Spec => []ChoiceStands
<1>1. TypeOK /\ PushInv => ChoiceStands
  BY HeldTypes DEF PushInv, HeldSound, Sound, ChoiceStands
<1>2. QED  BY <1>1, PushInvHolds, PTL

(* A push starts only for a job that is stored as completed and whose review   *)
(* is not outstanding.  Without stale marking, that is: the run                *)
(* stale_job_pushed shows a failed job pushed with it.                         *)
THEOREM OnlyCompletedJobsPushed ==
  ASSUME OneFailure
  PROVE  Spec => PushOnlyForCompletedJob
<1> DEFINE Allowed == /\ store.status = "completed"
                      /\ Current.review_status \in {"not_required", "completed"}
<1>1. TypeOK /\ PushInv /\ [Next]_vars => [started' > started => Allowed]_vars
  <2> SUFFICES ASSUME TypeOK, PushInv, Next, started' > started PROVE Allowed
    OBVIOUS
  <2>0. Current \in PostJobStates /\ Sound(Current) /\ started \in Nat
    BY HeldTypes DEF PushInv, HeldSound, TypeOK
  <2>1. started' # started  BY <2>0
  <2>2. (StartScheduledPush /\ MayStart) \/ RetryPush
    BY <2>1 DEF Next, Pipeline, User, PipelineOnly, SaveWhileQueued, StageSave, BranchSaveRaises,
                FailPipeline, FinishPipeline, SaveRaisesFailsJob, PostCompletionStep,
                HookCompleted, HookFailed, ApplyOverride, CompleteReview, ReadState,
                StartScheduledPush, InsightsIngests, PushAnswered, StaleRead, StaleWrite,
                Crash, FailOrphan, Recover, history
  <2>3. store.status = "completed" /\ Current.review_status \notin {"pending_job", "awaiting_review"}
    <3>1. CASE StartScheduledPush /\ MayStart
      BY <2>0, <3>1 DEF StartScheduledPush, MayStart, PushInv, SenderFits, Sound, InStep, Current
    <3>2. CASE RetryPush  BY <3>2 DEF RetryPush, Current
    <3>3. QED  BY <2>2, <3>1, <3>2
  <2>4. QED  BY <2>0, <2>3 DEF PostJobStates, ReviewStatuses
<1>2. QED  BY <1>1, PushInvHolds, PTL DEF PushOnlyForCompletedJob, Spec

(* A start of the process leaves no status that waits for the one that died:   *)
(* a push that is pending has its task, nothing waits for the job any more.    *)
THEOREM RestartsSettle ==
  ASSUME OneFailure
  PROVE  Spec => RestartSettles
<1> DEFINE Done == server = "booting" /\ server' = "up" /\ used' = used =>
             LET s == EffectiveState(store'.pj)
             IN /\ s.push_status = "pending" => queued'
                /\ s.push_status # "waiting_for_job" /\ s.review_status # "pending_job"
                /\ store'.status = "failed" => s.push_status \notin {"pending", "waiting_for_review"}
<1>1. TypeOK /\ StoreInv /\ PushInv /\ [Next]_vars => [Done]_vars
  <2> SUFFICES ASSUME TypeOK, StoreInv, PushInv, Next,
                      server = "booting", server' = "up", used' = used
               PROVE  Done
    OBVIOUS
  <2>1. Recover
    BY DEF Next, Pipeline, User, PipelineOnly, SaveWhileQueued, StageSave, BranchSaveRaises,
           FailPipeline, FinishPipeline, SaveRaisesFailsJob, PostCompletionStep,
           HookCompleted, HookFailed, ApplyOverride, CompleteReview, ReadState, RetryPush,
           StartScheduledPush, InsightsIngests, PushAnswered, StaleRead, StaleWrite,
           Crash, FailOrphan
  <2>2. QED  BY <2>1, RecoverSettles
<1>2. QED  BY <1>1, PushInvHolds, PTL DEF RestartSettles, Spec
-----------------------------------------------------------------------------
(* The flow and the ledger.  Only the record can move in a step that leaves    *)
(* the sender alone, and only while there is no sender.                        *)
LEMMA QuietKeeps ==
  ASSUME TypeOK, TypeOK', PushInv, PushInv', Quiet
  PROVE  [Ledger!LedgerNext]_(Ledger!ledger)
<1>1. PushSender' = PushSender /\ accepted' = accepted
  BY DEF Quiet, PushSender
<1>2. CASE PushRecord' = PushRecord  BY <1>1, <1>2 DEF Ledger!ledger
<1>3. CASE PushRecord' # PushRecord
  <2>1. ~PushInFlight
    <3>1. SUFFICES ASSUME PushInFlight PROVE FALSE
      OBVIOUS
    <3>2. PushInFlight'  BY <3>1 DEF Quiet, PushInFlight
    <3>3. Current.push_status = "pending" /\ (Current.push_status = "pending")'
      <4>1. Sound(Current)  BY HeldTypes DEF PushInv, HeldSound
      <4>2. Sound(Current)'  BY DEF PushInv, HeldSound, Held, Current
      <4>3. QED  BY <3>1, <3>2, <4>1, <4>2 DEF Sound, InStep
    <3>4. QED  BY <1>3, <3>3 DEF PushRecord, RecordOf, Waiting, Retryable
  <2>2. PushSender = "none"
    <3>1. wire = {} /\ tasks = 0
      BY <2>1 DEF PushInv, SenderFits, QueuedIsExact, PushInFlight, TypeOK
    <3>2. QED  BY <3>1, SenderIs
  <2>3. Ledger!DecideLate \/ Ledger!Forget \/ Ledger!Report
    BY <1>1, <1>3, <2>2
       DEF Quiet, RecordMoves, Ledger!DecideLate, Ledger!Forget, Ledger!Report
  <2>4. QED  BY <2>3 DEF Ledger!LedgerNext
<1>4. QED  BY <1>2, <1>3

LEMMA LedgerStarts == Init => Ledger!LedgerInit
<1> SUFFICES ASSUME Init PROVE Ledger!LedgerInit
  OBVIOUS
<1>1. PushSender = "none" /\ accepted = FALSE  BY SenderIs DEF Init
<1>2. PushRecord = "idle"
  <2>0. \A s : s.push_status \in Waiting => RecordOf(s) = "idle"
    BY DEF RecordOf, Waiting, Retryable
  <2>1. CASE store.pj = NoPostJob
    <3>1. Current.push_status \in Waiting
      BY <2>1 DEF Current, EffectiveState, LegacyState, Waiting
    <3>2. QED  BY <2>0, <3>1 DEF PushRecord
  <2>2. CASE store.pj # NoPostJob
    <3>1. PICK q \in Requests : store.pj = InitialState(q.review, q.push, q.allowed)
      BY <2>2 DEF Init, Submitted
    <3>2. store.pj.push_status \in Waiting  BY <3>1 DEF InitialState, Waiting
    <3>3. QED  BY <2>0, <2>2, <3>2 DEF PushRecord, Current, EffectiveState
  <2>3. QED  BY <2>1, <2>2
<1>3. QED  BY <1>1, <1>2 DEF Ledger!LedgerInit

(* The flow implements the ledger of its push: every step of the pipeline, of  *)
(* users, of the push tasks, of insights and of a restart is one step of the   *)
(* ledger or none.  One sender at most, nothing called that is not on record,  *)
(* success only after ingestion and for good.                                  *)
THEOREM FlowKeepsLedger ==
  ASSUME OneFailure
  PROVE  Spec => KeepsLedger
<1>1. TypeOK /\ TypeOK' /\ StoreInv /\ OneOnWire /\ PushInv /\ [Next]_vars =>
        [Ledger!LedgerNext]_(Ledger!ledger)
  BY StepSound, QuietKeeps DEF Ledger!LedgerNext
<1>2. QED
  BY <1>1, LedgerStarts, PushInvHolds, PTL DEF Spec, KeepsLedger, Ledger!LedgerSpec
=============================================================================
