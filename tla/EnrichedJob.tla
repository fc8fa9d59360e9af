----------------------------- MODULE EnrichedJob -----------------------------
(* The enrichment of a document seen as AnnotationReview sees a pipeline: a   *)
(* list of annotations by id, where a step finds, confirms, rejects or        *)
(* absorbs some.  AnnotationReview leaves open which ones; Enrichment says    *)
(* which, and every step of it is one of those.                               *)
(*                                                                            *)
(* The ids given out are a history: uuids are not used twice.  The pipeline's *)
(* copy is saved after each step, no user acts and no thread finds the job    *)
(* stale: what those may do does not depend on which annotations the stages   *)
(* make.                                                                      *)
EXTENDS Enrichment

\* IRIs are URLs; "unknown" is what users have not been told.
ASSUME UnknownAssumption == "unknown" \notin Iris \cup {NoIri}

VARIABLE born   \* ids that annotations were given

job_vars == <<vars, born>>

JobInit == Init /\ born = {}

JobNext == Next /\ born' = born \cup Ids(anns')

JobSpec == JobInit /\ [][JobNext]_job_vars

-----------------------------------------------------------------------------
(* The state of AnnotationReview.                                             *)
AnnIds == {"ruler", "semantic", "llm", "match"} \X (UNION {d.text : d \in Docs})
            \X (Iris \cup {NoIri})

Missing == [state |-> "missing"]

\* An annotation and its one concept, which only the string matching confirms.
Seen(a, matched) ==
  [state |-> a.state, dismissed |-> FALSE, events |-> 0,
   concepts |-> <<[iri   |-> a.iri,
                   state |-> IF matched /\ a.state = "confirmed" THEN "confirmed"
                             ELSE "preliminary"]>>]

ListOf(set, matched) ==
  LET ids == Ids(set)
  IN [i \in AnnIds |-> IF i \in ids THEN Seen(CHOOSE a \in set : a.id = i, matched) ELSE Missing]

ById == ListOf(anns, Matched)

Copy == [status |-> "enriching", anns |-> ById]

Phase == CASE pc \in {"extract", "reconcile", "complete"}   -> pc
           [] pc \in {"resolve", "judge", "match"}    -> "match"
           [] pc \in {"link", "relate", "connect"}    -> "link"

\* The users have done nothing.
NoEntries == [i \in AnnIds |-> "none"]
NoEdits   == [i \in AnnIds |-> 0]
NotTold   == [i \in AnnIds |-> [state |-> "unknown", primary |-> "unknown"]]
NotShown  == [i \in AnnIds |-> Missing]

Review == INSTANCE AnnotationReview WITH
  Anns <- AnnIds, Iris <- Iris \cup {NoIri}, Spotted <- Iris \cup {NoIri},
  Resolutions <- {<<c>> : c \in Iris}, Absent <- Missing, MaxEdits <- 0, MaxRaises <- 0,
  MaxMarks <- 0, marking <- {},
  job <- Copy, mem <- Copy, pc <- Phase,
  entries <- NoEntries, edits <- NoEdits, told <- NotTold, apart <- {},
  follower <- [phase |-> "following", shown |-> NotShown, fresh |-> FALSE],
  used <- [edits |-> 0, raises |-> 0, marks |-> 0, raced |-> FALSE]

-----------------------------------------------------------------------------
(* What the stages of AnnotationReview do, with their choices read off the    *)
(* outcome.                                                                   *)
Finds ==
  \E to \in {"extract", "reconcile"} :
    /\ Review!Stage("extract", to, ById')
    /\ \A i \in Review!In(ById') :
         \/ ById'[i] = ById[i]
         \/ i \notin born /\ \E c \in Iris \cup {NoIri} : ById'[i] = Review!Preliminary(c)

Settles ==
  /\ Review!Stage("reconcile", "match", ById')
  /\ Review!In(ById') = Review!In(ById)
  /\ \A i \in Review!In(ById) :
       \E state \in Review!States : ById'[i] = [ById[i] EXCEPT !.state = state]

Replaces ==
  /\ Review!Stage("match", "link", ById')
  /\ \A i \in Review!In(ById') :
       \/ /\ i \in Review!In(ById) \/ i \notin born
          /\ \E c \in Iris : ById'[i] = Review!Matched(<<c>>)
       \/ /\ i \in Review!In(ById) /\ ById[i].state = "rejected"
          /\ ById'[i] = ById[i]

\* Any stage may leave the annotations alone.
Leaves ==
  /\ UNCHANGED <<anns, born>> /\ Matched' = Matched
  /\ \/ Phase' = Phase
     \/ <<Phase, Phase'>> \in {<<"extract", "reconcile">>, <<"reconcile", "match">>,
                              <<"match", "link">>, <<"link", "complete">>}

StageAsReviewed == Leaves \/ Finds \/ Settles \/ Replaces

(* Every step of the stages does to the annotations what AnnotationReview     *)
(* lets a stage do: the branches add preliminary ones under ids not seen      *)
(* before; reconciliation changes states only; string matching leaves         *)
(* confirmed ones with a concept and rejected ones as they were, or all as    *)
(* they were; the stages between and after leave the annotations alone.       *)
StagesAsReviewed == [][StageAsReviewed]_job_vars
=============================================================================
