-------------------------- MODULE AnnotationReview --------------------------
(* The annotations of one job between the pipeline that writes them, the      *)
(* users who review them, the feedback store, the threads that mark a stale   *)
(* job as failed, and a client that follows the event stream.                 *)
(*                                                                            *)
(* The pipeline task keeps its own copy of the job and saves all of it after  *)
(* each stage; a user's route loads the stored job, changes it and saves it   *)
(* without suspending, so each route is one step.  The feedback store is a    *)
(* second set of files, written before the job is.  A thread of count_active  *)
(* reads the file of a job that looks stale and writes it back later, with    *)
(* the status failed; the pipeline of that job goes on.                       *)
(*                                                                            *)
(* Simplifications: a stage is what it may do to the list of annotations (the *)
(* matching itself is in SpanOverlap); the copy of a rating inside the        *)
(* annotation, comments and snapshots are left out; in-progress statuses are  *)
(* one; when a job looks stale is left open, but for MaxMarks; a file that    *)
(* such a thread has half written is not read; the pipeline's saves do not    *)
(* raise (PostJobFlow has those); ids and concept indices that do not exist,  *)
(* which the routes answer with an error, change nothing and are no steps.    *)
(* A definition marked "broken" is a defect that no specification uses.       *)
EXTENDS Integers, Sequences, FiniteSets

CONSTANTS Anns,        \* annotation ids (uuids, never used twice)
          Iris,        \* concept IRIs
          Spotted,     \* those that the rulers and the LLM may find
          Resolutions, \* what resolution may answer: primary first, then backups
          Absent,      \* an annotation that is not in the job
          MaxEdits,    \* bound on users' requests
          MaxRaises,   \* bound on their saves that raise
          MaxMarks     \* bound on how often the job is found stale

ASSUME ReviewAssumption ==
  /\ MaxEdits \in Nat /\ MaxRaises \in Nat /\ MaxMarks \in Nat /\ Spotted \subseteq Iris
  /\ \A r \in Resolutions : /\ r \in Seq(Iris) /\ r # <<>>
                            /\ \A i, j \in DOMAIN r : r[i] = r[j] => i = j

VARIABLES job,      \* the stored job
          entries,  \* the feedback store: the rating in each annotation's entry
          pc, mem,  \* where the pipeline is, and its copy of the job
          marking,  \* what threads are about to write back as failed
          born,     \* ids given out
          follower, \* a client of the event stream
          told,     \* what users were last told, of edits after the run
          edits,    \* edits of each annotation that were answered
          apart,    \* annotations whose feedback was changed without them
          used      \* how much of each bound has been spent

vars == <<job, entries, pc, mem, marking, born, follower, told, edits, apart, used>>

-----------------------------------------------------------------------------
States  == {"preliminary", "confirmed", "rejected"}
Ratings == {"up", "down", "dismissed"}
Phases  == {"extract", "reconcile", "match", "link", "complete", "assess", "ended"}
JobStatuses == {"enriching", "completed", "failed"}

Concepts == [iri : Iris, state : {"preliminary", "backup", "confirmed"}]
Annotations == [state : States, dismissed : BOOLEAN, concepts : Seq(Concepts), events : Nat]
JobAnnotations == [Anns -> Annotations \cup {Absent}]
JobRecords == [status : JobStatuses, anns : JobAnnotations]

ASSUME AbsentAssumption == /\ Absent \notin Annotations
                           /\ Absent \notin [state : States, primary : Iris]
                           /\ "unknown" \notin Iris

In(anns) == {a \in Anns : anns[a] # Absent}

Primary(ann) == ann.concepts[1].iri

\* A concept found by a ruler or the LLM, before reconciliation.
Preliminary(iri) == [state |-> "preliminary", dismissed |-> FALSE, events |-> 0,
                     concepts |-> <<[iri |-> iri, state |-> "preliminary"]>>]

\* The primary concept and its runner-ups, as the string matching stage writes them.
ConceptList(r) ==
  [i \in DOMAIN r |-> [iri |-> r[i], state |-> IF i = 1 THEN "confirmed" ELSE "backup"]]

Matched(r) == [state |-> "confirmed", dismissed |-> FALSE, events |-> 0,
               concepts |-> ConceptList(r)]

\* The concept at i changes places with the primary one.
Promoted(list, i) ==
  [list EXCEPT ![1] = [list[i] EXCEPT !.state = "confirmed"],
               ![i] = [list[1] EXCEPT !.state = "backup"]]

-----------------------------------------------------------------------------
None    == "none"      \* no entry in the feedback store
Unknown == "unknown"

\* f with the value v at every member of S.
Put(f, S, v) == [a \in Anns |-> IF a \in S THEN v ELSE f[a]]

Init ==
  /\ mem = [status |-> "enriching", anns |-> [a \in Anns |-> Absent]]
  /\ job = mem
  /\ entries = [a \in Anns |-> None]
  /\ pc = "extract" /\ marking = {} /\ born = {}
  /\ follower = [phase |-> "following", shown |-> [a \in Anns |-> Absent], fresh |-> FALSE]
  /\ told = [a \in Anns |-> [state |-> Unknown, primary |-> Unknown]]
  /\ edits = [a \in Anns |-> 0]
  /\ apart = {}
  /\ used = [edits |-> 0, raises |-> 0, marks |-> 0, raced |-> FALSE]

users == <<entries, told, edits, apart, used>>

-----------------------------------------------------------------------------
(* The pipeline.  A stage that raises is skipped: what it did to the copy     *)
(* stays there, and the next save stores it.                                  *)
Stage(from, to, new) ==
  /\ pc = from /\ pc' = to
  /\ mem' = [mem EXCEPT !.anns = new]
  /\ born' = born \cup In(new)
  /\ \/ job' = mem'
     \/ job' = job
  /\ UNCHANGED <<marking, follower, users>>

\* Entity ruler (twice: at once, and after its semantic pass has removed overlaps),
\* then the merge of the LLM's concepts.
Extract(to) ==
  \E dropped \in SUBSET In(mem.anns) : \E found \in SUBSET (Anns \ born) :
    \E iri \in [found -> Spotted] :
      Stage("extract", to, [a \in Anns |-> IF a \in found THEN Preliminary(iri[a])
                                          ELSE IF a \in dropped THEN Absent
                                          ELSE mem.anns[a]])

\* Preliminary annotations are confirmed, kept or rejected; a low confidence rejects.
Reconcile ==
  \E states \in [In(mem.anns) -> States] :
    Stage("reconcile", "match", [a \in Anns |->
                                   IF a \in In(mem.anns)
                                   THEN [mem.anns[a] EXCEPT !.state = states[a]]
                                   ELSE Absent])

\* Matched spans get their resolved concepts, whatever their state was, unless
\* another annotation of the same concept absorbs them; of the others only the
\* rejected ones are kept.
MatchSpans ==
  \E matched \in SUBSET (In(mem.anns) \cup (Anns \ born)) :
    \E absorbed \in SUBSET matched : \E r \in [matched \ absorbed -> Resolutions] :
      LET rejected == {a \in In(mem.anns) : mem.anns[a].state = "rejected"}
      IN Stage("match", "link", [a \in Anns |->
                                   IF a \in matched \ absorbed THEN Matched(r[a])
                                   ELSE IF a \in rejected \ matched THEN mem.anns[a]
                                   ELSE Absent])

\* Nothing to match.  (A stage that raises leaves the annotations too; it is
\* taken to save them as they are, which the next stage does anyway.)
MatchNothing == Stage("match", "link", mem.anns)

\* Individuals, properties, triples and metadata read the annotations.
Link(to) == Stage("link", to, mem.anns)

\* The job's new status is saved with the pipeline's copy.
SaveStatus(status, to) ==
  /\ pc' = to
  /\ mem' = [mem EXCEPT !.status = status]
  /\ job' = mem'
  /\ UNCHANGED <<marking, born, follower, users>>

CompleteEarly ==                         \* broken: COMPLETED before the string matching
  pc \in {"match", "complete"} /\ SaveStatus("completed", IF pc = "match" THEN pc ELSE "assess")

Complete == pc = "complete" /\ SaveStatus("completed", "assess")

FailPipeline == pc \in Phases \ {"assess", "ended"} /\ SaveStatus("failed", "ended")

\* Area of law and document type are written into the copy's metadata.
Assess ==
  pc = "assess" /\ job' = mem /\ UNCHANGED <<mem, pc, marking, born, follower, users>>

EndRun ==
  pc = "assess" /\ pc' = "ended" /\ UNCHANGED <<mem, job, marking, born, follower, users>>

\* The process dies, with its threads, and is started again: fail_orphaned_jobs
\* fails a job in progress.
Restart ==
  /\ pc # "ended" /\ pc' = "ended"
  /\ marking' = {}
  /\ job' = [job EXCEPT !.status = IF @ = "enriching" THEN "failed" ELSE @]
  /\ follower' = IF follower.phase = "following"
                 THEN [follower EXCEPT !.phase = "cut off"] ELSE follower
  /\ UNCHANGED <<mem, born, users>>

Run == \/ \E to \in {"extract", "reconcile"} : Extract(to)
       \/ Reconcile \/ MatchSpans \/ MatchNothing
       \/ \E to \in {"link", "complete"} : Link(to)
       \/ Complete \/ FailPipeline \/ Assess \/ EndRun

-----------------------------------------------------------------------------
(* count_active, on a worker thread: a job in progress that has not been      *)
(* saved for long is read, and what was read is written back as failed.       *)
StaleRead ==
  /\ job.status = "enriching" /\ used.marks < MaxMarks
  /\ marking' = marking \cup {[job EXCEPT !.status = "failed"]}
  /\ used' = [used EXCEPT !.marks = @ + 1]
  /\ UNCHANGED <<job, mem, pc, born, follower, entries, told, edits, apart>>

StaleWrite ==
  \E m \in marking :
    /\ job' = m /\ marking' = marking \ {m}
    /\ UNCHANGED <<mem, pc, born, follower, users>>

\* Nobody is left who writes the file from a copy of his own.
Settled == pc = "ended" /\ marking = {}

-----------------------------------------------------------------------------
(* The users' routes.                                                         *)
Present == In(job.anns)

\* The stored job with the annotations in the domain of new changed, saved and answered.
Answered(new) ==
  /\ used.edits < MaxEdits
  /\ job' = [job EXCEPT !.anns = [a \in Anns |->
                IF a \in DOMAIN new THEN [new[a] EXCEPT !.events = @ + 1] ELSE job.anns[a]]]
  /\ edits' = [a \in Anns |-> IF a \in DOMAIN new THEN edits[a] + 1 ELSE edits[a]]
  /\ follower' = [follower EXCEPT !.fresh = FALSE]
  /\ used' = [used EXCEPT !.edits = @ + 1, !.raced = @ \/ ~Settled]
  /\ UNCHANGED <<pc, mem, marking, born>>

\* The save of the job raises: the file is as it was.
Raised(S) ==
  /\ used.edits < MaxEdits /\ used.raises < MaxRaises
  /\ used' = [used EXCEPT !.edits = @ + 1, !.raises = @ + 1]
  /\ apart' = apart \cup S
  /\ UNCHANGED <<job, edits, told, follower, pc, mem, marking, born>>

\* What users are told lasts once nothing but their requests writes the file; a
\* save of the pipeline, or a late marking, may undo an earlier edit.
Tell(S, state, primary) ==
  told' = [a \in Anns |->
             IF a \in S /\ Settled
             THEN [state   |-> IF state # Unknown THEN state ELSE told[a].state,
                   primary |-> IF primary # Unknown THEN primary ELSE told[a].primary]
             ELSE told[a]]

\* An edit that writes both stores brings them together, unless the pipeline or a
\* thread is still to save.
Together(S) == apart' = IF Settled THEN apart \ S ELSE apart \cup S

Dismissed(S) == [a \in S |-> [job.anns[a] EXCEPT !.state = "rejected", !.dismissed = TRUE]]
Restored(S)  == [a \in S |-> [job.anns[a] EXCEPT !.state = "confirmed", !.dismissed = FALSE]]

\* reject and bulk reject: the feedback entries first, then the job.
Dismiss(S) ==
  \/ /\ entries' = Put(entries, S, "dismissed")
     /\ Answered(Dismissed(S)) /\ Tell(S, "rejected", Unknown) /\ Together(S)
  \/ \E first \in SUBSET S : /\ entries' = Put(entries, first, "dismissed")
                             /\ Raised(first)

RejectAnnotation ==
  \E a \in Present : job.anns[a].state # "rejected" /\ Dismiss({a})

BulkRejectAnnotations ==
  \E iri \in Iris :
    LET S == {a \in Present : job.anns[a].state # "rejected" /\ Primary(job.anns[a]) = iri}
    IN S # {} /\ Dismiss(S)

RestoreKeepsEntry ==                     \* broken: the entry is left where it is
  \E a \in Present :
    /\ job.anns[a].state = "rejected"
    /\ Answered(Restored({a})) /\ Tell({a}, "confirmed", Unknown) /\ Together({a})
    /\ UNCHANGED entries

RestoreAnnotation ==
  \E a \in Present :
    /\ job.anns[a].state = "rejected"
    /\ entries' = Put(entries, {a}, None)
    /\ \/ Answered(Restored({a})) /\ Tell({a}, "confirmed", Unknown) /\ Together({a})
       \/ Raised({a})

\* The concept at index[a] of each a in the index's domain; feedback is left alone.
Promotion(index, asked, primary) ==
  /\ \/ /\ Answered([a \in DOMAIN index |->
                      [job.anns[a] EXCEPT !.concepts = Promoted(@, index[a])]])
        /\ Tell(DOMAIN index \cap asked, Unknown, primary)
        /\ UNCHANGED apart
     \/ Raised({})
  /\ UNCHANGED entries

PromoteConcept ==
  \E a \in Present : \E n \in DOMAIN job.anns[a].concepts :
    n > 1 /\ Promotion([b \in {a} |-> n], {a}, job.anns[a].concepts[n].iri)

Backups(ann, iri) == {n \in DOMAIN ann.concepts : n > 1 /\ ann.concepts[n].iri = iri}

CascadedInAll(old, new, ids) ==          \* broken: the selection is not applied
  {a \in Present : Primary(job.anns[a]) = old /\ Backups(job.anns[a], new) # {}}

Cascaded(old, new, ids) ==
  {a \in Present \cap ids : /\ Primary(job.anns[a]) = old
                            /\ Backups(job.anns[a], new) # {}}

CascadePromote ==
  \E old, new \in Iris : \E ids \in SUBSET Anns :
    LET S == Cascaded(old, new, ids)
        first(B) == CHOOSE n \in B : \A k \in B : n <= k
    IN S # {} /\ Promotion([a \in S |-> first(Backups(job.anns[a], new))], ids, new)

\* POST /feedback: rates an annotation, as dismissed too, and saves the job as it was.
SubmitFeedback ==
  \E a \in Present : \E rating \in Ratings :
    /\ used.edits < MaxEdits
    /\ entries' = Put(entries, {a}, rating)
    /\ apart' = IF (rating = "dismissed") # job.anns[a].dismissed THEN apart \cup {a} ELSE apart
    /\ used' = [used EXCEPT !.edits = @ + 1]
    /\ UNCHANGED <<job, edits, told, follower, pc, mem, marking, born>>

Rated == {a \in Anns : entries[a] # None}

\* DELETE /feedback, of one entry or of all.
DeleteFeedback ==
  \E S \in {{a} : a \in Rated} \cup {Rated} :
    /\ used.edits < MaxEdits /\ S # {}
    /\ entries' = Put(entries, S, None)
    /\ apart' = apart \cup S
    /\ used' = [used EXCEPT !.edits = @ + 1]
    /\ UNCHANGED <<job, edits, told, follower, pc, mem, marking, born>>

User == \/ RejectAnnotation \/ BulkRejectAnnotations \/ RestoreAnnotation
        \/ PromoteConcept \/ CascadePromote
        \/ SubmitFeedback \/ DeleteFeedback

-----------------------------------------------------------------------------
(* The event stream: new ids and changed states are sent, and the ids that    *)
(* are gone.  It ends when the job is done.                                   *)
Events(shown) ==
  [a \in Anns |-> IF a \notin Present THEN Absent
                  ELSE IF shown[a] # Absent /\ shown[a].state = job.anns[a].state THEN shown[a]
                  ELSE [state |-> job.anns[a].state, primary |-> Primary(job.anns[a])]]

Poll ==
  /\ follower.phase = "following"
  /\ follower' = [phase |-> IF job.status = "enriching" THEN "following" ELSE "complete",
                  shown |-> Events(follower.shown), fresh |-> TRUE]
  /\ UNCHANGED <<job, mem, pc, marking, born, users>>

-----------------------------------------------------------------------------
Next == Run \/ Restart \/ StaleRead \/ StaleWrite \/ User \/ Poll

Spec == Init /\ [][Next]_vars
-----------------------------------------------------------------------------
Sound(anns) == /\ anns \in JobAnnotations
               /\ \A a \in In(anns) : anns[a].concepts # <<>>

TypeOK ==
  /\ job \in JobRecords /\ Sound(job.anns)
  /\ mem \in JobRecords /\ Sound(mem.anns)
  /\ marking \subseteq {m \in JobRecords : Sound(m.anns) /\ In(m.anns) \subseteq born}
  /\ In(job.anns) \cup In(mem.anns) \subseteq born /\ born \subseteq Anns
  /\ pc \in Phases
  /\ entries \in [Anns -> Ratings \cup {None}]
  /\ follower \in [phase : {"following", "complete", "cut off"}, fresh : BOOLEAN,
                   shown : [Anns -> [state : States, primary : Iris] \cup {Absent}]]
  /\ told \in [Anns -> [state : {"rejected", "confirmed", Unknown}, primary : Iris \cup {Unknown}]]
  /\ used \in [edits : 0..MaxEdits, raises : 0..MaxRaises, marks : 0..MaxMarks, raced : BOOLEAN]
  /\ edits \in [Anns -> Nat] /\ \A a \in Anns : edits[a] <= used.edits
  /\ apart \subseteq Anns

(* What a user was told after the run stands, unless a thread that found the  *)
(* job stale during the run is still to write: nothing but a later answered   *)
(* edit of the same annotation changes its state or its primary concept,      *)
(* whatever other users, failing saves and the rest of a bulk request do.     *)
AnswersStand ==
  \A a \in Anns :
    /\ told[a].state # Unknown => a \in Present /\ job.anns[a].state = told[a].state
    /\ told[a].primary # Unknown => a \in Present /\ Primary(job.anns[a]) = told[a].primary

(* The feedback store and the job agree on what users dismissed, of all       *)
(* annotations whose feedback was not changed alone: by a raising save, by an *)
(* edit that the pipeline or a marking may undo, by a rating that does not    *)
(* fit the annotation, or by a deletion.                                      *)
InsightsMatchJob ==
  \A a \in Anns \ apart :
    entries[a] = "dismissed"
      <=> (a \in Present /\ job.anns[a].dismissed)

(* `complete` is final: with no user's edit during the run or since, and if   *)
(* the job was never found stale, a client whose stream has ended shows the   *)
(* annotations that are stored, in their stored states, although the pipeline *)
(* goes on.                                                                   *)
CompleteIsFinal ==
  follower.phase = "complete" /\ follower.fresh /\ ~used.raced /\ used.marks = 0 =>
    /\ In(follower.shown) = Present
    /\ \A a \in Present : follower.shown[a].state = job.anns[a].state

(* Every answered edit of an annotation that is still there is in its         *)
(* lineage.  It fails: the pipeline saves its own copy over it.               *)
EditsTracked == \A a \in Present : job.anns[a].events >= edits[a]

=============================================================================
