---------------------- MODULE AnnotationReviewProofs ----------------------
(* Type correctness of AnnotationReview; answered edits stand after the run;  *)
(* the feedback store and the job agree; what the stream's last event shows   *)
(* is stored.  For every set of annotations, concepts and resolutions, and    *)
(* every number of edits, raising saves and stale markings.                   *)
EXTENDS AnnotationReview, WellFoundedInduction, TLAPS

USE ReviewAssumption, AbsentAssumption

-----------------------------------------------------------------------------
(* What the operators build.                                                  *)

\* The annotations of f that can be in a job: typed and with a concept.
LEMMA PreliminarySound ==
  ASSUME NEW iri \in Iris
  PROVE  /\ Preliminary(iri) \in Annotations /\ Preliminary(iri).concepts # <<>>
         /\ ~Preliminary(iri).dismissed
<1>1. <<[iri |-> iri, state |-> "preliminary"]>> \in Seq(Concepts)
  BY DEF Concepts
<1>2. QED  BY <1>1 DEF Preliminary, Annotations, States

LEMMA MatchedSound ==
  ASSUME NEW r \in Resolutions
  PROVE  /\ Matched(r) \in Annotations /\ Matched(r).concepts # <<>>
         /\ ~Matched(r).dismissed
<1>1. r \in Seq(Iris) /\ r # <<>>  OBVIOUS
<1>2. Len(r) \in Nat /\ DOMAIN r = 1..Len(r) /\ \A i \in DOMAIN r : r[i] \in Iris
  BY <1>1
<1>3. ConceptList(r) \in [1..Len(r) -> Concepts]
  BY <1>2 DEF ConceptList, Concepts
<1>4. ConceptList(r) \in Seq(Concepts)  BY <1>2, <1>3
<1>5. Len(ConceptList(r)) = Len(r) /\ Len(r) # 0
  BY <1>1, <1>2, <1>3, <1>4
<1>6. ConceptList(r) # <<>>  BY <1>5
<1>7. QED  BY <1>4, <1>6 DEF Matched, Annotations, States

LEMMA PromotedSound ==
  ASSUME NEW list \in Seq(Concepts), list # <<>>, NEW i \in DOMAIN list
  PROVE  /\ Promoted(list, i) \in Seq(Concepts) /\ Promoted(list, i) # <<>>
         /\ i # 1 => Promoted(list, i)[1].iri = list[i].iri
<1>1. 1 \in DOMAIN list /\ Len(list) \in Nat \ {0} /\ DOMAIN list = 1..Len(list)
  OBVIOUS
<1>2. list[1] \in Concepts /\ list[i] \in Concepts  BY <1>1
<1>3. /\ [list[i] EXCEPT !.state = "confirmed"] \in Concepts
      /\ [list[1] EXCEPT !.state = "backup"] \in Concepts
      /\ [list[i] EXCEPT !.state = "confirmed"].iri = list[i].iri
  BY <1>2 DEF Concepts
<1> DEFINE up == [list[i] EXCEPT !.state = "confirmed"]
           down == [list[1] EXCEPT !.state = "backup"]
<1>4. Promoted(list, i) = [list EXCEPT ![1] = up, ![i] = down]  BY DEF Promoted
<1>5. up \in Concepts /\ down \in Concepts /\ up.iri = list[i].iri  BY <1>3
<1> HIDE DEF up, down
<1>6. Promoted(list, i) \in [1..Len(list) -> Concepts]  BY <1>1, <1>4, <1>5
<1>7. Promoted(list, i) \in Seq(Concepts) /\ Promoted(list, i) # <<>>  BY <1>1, <1>6
<1>8. i # 1 => Promoted(list, i)[1] = up  BY <1>1, <1>4
<1>9. QED  BY <1>5, <1>7, <1>8

LEMMA PrimaryType ==
  ASSUME NEW ann \in Annotations, ann.concepts # <<>>
  PROVE  Primary(ann) \in Iris
<1>1. ann.concepts \in Seq(Concepts)  BY DEF Annotations
<1>2. ann.concepts[1] \in Concepts  BY <1>1
<1>3. QED  BY <1>2 DEF Primary, Concepts

-----------------------------------------------------------------------------
(* Type correctness: the pipeline.                                            *)

LEMMA SoundList ==
  ASSUME NEW anns, Sound(anns), NEW a \in In(anns)
  PROVE  a \in Anns /\ anns[a] \in Annotations /\ anns[a].concepts # <<>>
BY DEF Sound, In, JobAnnotations

LEMMA StageType ==
  ASSUME TypeOK, NEW from, NEW to \in Phases, NEW new, Sound(new), Stage(from, to, new)
  PROVE  TypeOK'
<1>1. In(new) \subseteq Anns  BY DEF In
<1>2. mem' = [mem EXCEPT !.anns = new] /\ (job' = mem' \/ job' = job) /\ pc' = to
      /\ born' = born \cup In(new) /\ follower' = follower /\ entries' = entries
      /\ told' = told /\ edits' = edits /\ apart' = apart /\ used' = used
      /\ marking' = marking
  BY DEF Stage, users
<1>3. mem' \in JobRecords /\ mem'.anns = new  BY <1>2 DEF TypeOK, JobRecords, Sound
<1>4. job' \in JobRecords /\ Sound(job'.anns)
  <2>1. job \in JobRecords /\ Sound(job.anns)  BY DEF TypeOK
  <2>2. QED  BY <1>2, <1>3, <2>1
<1>5. In(job'.anns) \cup In(mem'.anns) \subseteq born' /\ born' \subseteq Anns
  BY <1>1, <1>2, <1>3 DEF TypeOK
<1>6. Sound(mem'.anns)  BY <1>3
<1>7. marking' \subseteq {m \in JobRecords : Sound(m.anns) /\ In(m.anns) \subseteq born'}
  BY <1>2 DEF TypeOK
<1>8. QED  BY <1>2, <1>3, <1>4, <1>5, <1>6, <1>7 DEF TypeOK

LEMMA ExtractType ==
  ASSUME TypeOK, NEW to \in {"extract", "reconcile"}, Extract(to)
  PROVE  TypeOK'
<1>1. PICK dropped \in SUBSET In(mem.anns), found \in SUBSET (Anns \ born) :
        \E iri \in [found -> Spotted] :
          Stage("extract", to, [a \in Anns |-> IF a \in found THEN Preliminary(iri[a])
                                              ELSE IF a \in dropped THEN Absent
                                              ELSE mem.anns[a]])
  BY DEF Extract
<1>2. PICK iri \in [found -> Spotted] :
        Stage("extract", to, [a \in Anns |-> IF a \in found THEN Preliminary(iri[a])
                                            ELSE IF a \in dropped THEN Absent
                                            ELSE mem.anns[a]])
  BY <1>1
<1> DEFINE new == [a \in Anns |-> IF a \in found THEN Preliminary(iri[a])
                                  ELSE IF a \in dropped THEN Absent ELSE mem.anns[a]]
<1>3. \A a \in found : iri[a] \in Iris  BY <1>2
<1>4. \A a \in found : new[a] \in Annotations /\ new[a].concepts # <<>>
  BY <1>1, <1>3, PreliminarySound
<1>5. \A a \in Anns \ found : new[a] = Absent \/ new[a] = mem.anns[a]  OBVIOUS
<1>6. Sound(mem.anns)  BY DEF TypeOK
<1>7. Sound(new)
  <2>1. \A a \in Anns : new[a] \in Annotations \cup {Absent}
    BY <1>4, <1>5, <1>6 DEF Sound, JobAnnotations
  <2>2. \A a \in Anns : new[a] # Absent => new[a].concepts # <<>>
    BY <1>4, <1>5, <1>6 DEF Sound, In
  <2>3. new \in JobAnnotations
    <3>1. new = [a \in Anns |-> new[a]]  OBVIOUS
    <3> HIDE DEF new
    <3>2. QED  BY <2>1, <3>1 DEF JobAnnotations
  <2> HIDE DEF new
  <2>4. QED  BY <2>2, <2>3 DEF Sound, In
<1>8. Stage("extract", to, new) /\ to \in Phases  BY <1>2 DEF Phases
<1> HIDE DEF new
<1>9. QED  BY <1>7, <1>8, StageType

LEMMA ReconcileType ==
  ASSUME TypeOK, Reconcile
  PROVE  TypeOK'
<1>1. PICK states \in [In(mem.anns) -> States] :
        Stage("reconcile", "match", [a \in Anns |->
                IF a \in In(mem.anns) THEN [mem.anns[a] EXCEPT !.state = states[a]] ELSE Absent])
  BY DEF Reconcile
<1> DEFINE new == [a \in Anns |->
                IF a \in In(mem.anns) THEN [mem.anns[a] EXCEPT !.state = states[a]] ELSE Absent]
<1>2. \A a \in In(mem.anns) : /\ a \in Anns /\ states[a] \in States
                              /\ mem.anns[a] \in Annotations /\ mem.anns[a].concepts # <<>>
  BY <1>1, SoundList DEF TypeOK
<1>3. \A a \in In(mem.anns) : /\ new[a] \in Annotations
                              /\ new[a].concepts = mem.anns[a].concepts
  BY <1>2 DEF Annotations
<1>4. \A a \in Anns \ In(mem.anns) : new[a] = Absent  OBVIOUS
<1>5. new = [a \in Anns |-> new[a]] /\ Stage("reconcile", "match", new)  BY <1>1
<1> HIDE DEF new
<1>6. Sound(new)
  <2>1. new \in JobAnnotations  BY <1>3, <1>4, <1>5 DEF JobAnnotations
  <2>2. QED  BY <1>2, <1>3, <1>4, <2>1 DEF Sound, In
<1>7. QED  BY <1>5, <1>6, StageType DEF Phases

LEMMA MatchType ==
  ASSUME TypeOK, MatchSpans
  PROVE  TypeOK'
<1> DEFINE rejected == {a \in In(mem.anns) : mem.anns[a].state = "rejected"}
           new(S, r, m) == [a \in Anns |-> IF a \in S THEN Matched(r[a])
                                           ELSE IF a \in rejected \ m THEN mem.anns[a]
                                           ELSE Absent]
<1>1. PICK matched \in SUBSET (In(mem.anns) \cup (Anns \ born)) :
        \E absorbed \in SUBSET matched : \E r \in [matched \ absorbed -> Resolutions] :
          Stage("match", "link", new(matched \ absorbed, r, matched))
  BY DEF MatchSpans
<1>2. PICK absorbed \in SUBSET matched : \E r \in [matched \ absorbed -> Resolutions] :
          Stage("match", "link", new(matched \ absorbed, r, matched))
  BY <1>1
<1>3. PICK r \in [matched \ absorbed -> Resolutions] :
          Stage("match", "link", new(matched \ absorbed, r, matched))
  BY <1>2
<1> DEFINE S == matched \ absorbed
           list == new(S, r, matched)
<1>4. \A a \in S : Matched(r[a]) \in Annotations /\ Matched(r[a]).concepts # <<>>
  BY <1>3, MatchedSound
<1>5. \A a \in rejected : mem.anns[a] \in Annotations /\ mem.anns[a].concepts # <<>>
  BY SoundList DEF TypeOK
<1>6. \A a \in Anns : list[a] = Absent \/ (list[a] \in Annotations /\ list[a].concepts # <<>>)
  BY <1>4, <1>5
<1>7. list = [a \in Anns |-> list[a]] /\ Stage("match", "link", list)  BY <1>3
<1> HIDE DEF list
<1>8. Sound(list)  BY <1>6, <1>7 DEF Sound, In, JobAnnotations
<1>9. QED  BY <1>7, <1>8, StageType DEF Phases

LEMMA LinkType ==
  ASSUME TypeOK, NEW to \in {"link", "complete"}, Link(to)
  PROVE  TypeOK'
<1>1. Stage("link", to, mem.anns) /\ to \in Phases  BY DEF Link, Phases
<1>2. Sound(mem.anns)  BY DEF TypeOK
<1>3. QED  BY <1>1, <1>2, StageType

LEMMA MatchNothingType ==
  ASSUME TypeOK, MatchNothing
  PROVE  TypeOK'
<1>1. Stage("match", "link", mem.anns) /\ "link" \in Phases  BY DEF MatchNothing, Phases
<1>2. Sound(mem.anns)  BY DEF TypeOK
<1>3. QED  BY <1>1, <1>2, StageType

LEMMA StatusType ==
  ASSUME TypeOK, Complete \/ FailPipeline
  PROVE  TypeOK'
<1>1. PICK status \in JobStatuses, to \in Phases : SaveStatus(status, to)
  BY DEF Complete, FailPipeline, JobStatuses, Phases
<1>2. /\ pc' = to /\ job' = mem' /\ born' = born /\ follower' = follower
      /\ entries' = entries /\ told' = told /\ edits' = edits /\ apart' = apart
      /\ used' = used /\ mem' = [mem EXCEPT !.status = status] /\ marking' = marking
  BY <1>1 DEF SaveStatus, users
<1>3. mem' \in JobRecords /\ mem'.anns = mem.anns  BY <1>2 DEF TypeOK, JobRecords
<1>4. Sound(mem'.anns) /\ In(mem'.anns) \subseteq born'  BY <1>2, <1>3 DEF TypeOK
<1>5. QED  BY <1>2, <1>3, <1>4 DEF TypeOK

LEMMA RunType ==
  ASSUME TypeOK, Run
  PROVE  TypeOK'
<1>1. CASE \E to \in {"extract", "reconcile"} : Extract(to)  BY <1>1, ExtractType
<1>2. CASE \E to \in {"link", "complete"} : Link(to)  BY <1>2, LinkType
<1>3. CASE Assess  BY <1>3 DEF Assess, users, TypeOK
<1>4. CASE EndRun  BY <1>4 DEF EndRun, users, TypeOK, Phases
<1>5. QED
  BY <1>1, <1>2, <1>3, <1>4, ReconcileType, MatchType, MatchNothingType, StatusType DEF Run

LEMMA RestartType ==
  ASSUME TypeOK, Restart
  PROVE  TypeOK' /\ job'.anns = job.anns
<1>1. job' = [job EXCEPT !.status = IF @ = "enriching" THEN "failed" ELSE @]
  BY DEF Restart
<1>2. job' \in JobRecords /\ job'.anns = job.anns  BY <1>1 DEF TypeOK, JobRecords, JobStatuses
<1>3. Sound(job'.anns) /\ In(job'.anns) \cup In(mem.anns) \subseteq born
  BY <1>2 DEF TypeOK
<1>4. follower' \in [phase : {"following", "complete", "cut off"}, fresh : BOOLEAN,
                     shown : [Anns -> [state : States, primary : Iris] \cup {Absent}]]
  <2>1. follower' = IF follower.phase = "following"
                    THEN [follower EXCEPT !.phase = "cut off"] ELSE follower
    BY DEF Restart
  <2>2. QED  BY <2>1 DEF TypeOK
<1>5. QED  BY <1>2, <1>3, <1>4 DEF Restart, TypeOK, users, Phases

LEMMA StaleReadType ==
  ASSUME TypeOK, StaleRead
  PROVE  TypeOK' /\ UNCHANGED <<job, entries, told, apart, pc>>
<1> DEFINE m == [job EXCEPT !.status = "failed"]
<1>1. m \in JobRecords /\ m.anns = job.anns  BY DEF TypeOK, JobRecords, JobStatuses
<1>2. marking' = marking \cup {m} /\ UNCHANGED <<job, mem, pc, born, follower, entries>>
      /\ UNCHANGED <<told, edits, apart>>
  BY DEF StaleRead
<1> HIDE DEF m
<1>3. marking' \subseteq {n \in JobRecords : Sound(n.anns) /\ In(n.anns) \subseteq born'}
  BY <1>1, <1>2 DEF TypeOK
<1>4. /\ used' \in [edits : 0..MaxEdits, raises : 0..MaxRaises, marks : 0..MaxMarks, raced : BOOLEAN]
      /\ used'.edits = used.edits
  <2> DEFINE n == used.marks + 1
  <2>1. used' = [used EXCEPT !.marks = n] /\ used.marks < MaxMarks  BY DEF StaleRead
  <2>2. n \in 0..MaxMarks
    <3>1. used.marks \in 0..MaxMarks  BY DEF TypeOK
    <3>2. QED  BY <2>1, <3>1
  <2> HIDE DEF n
  <2>3. QED  BY <2>1, <2>2 DEF TypeOK
<1>5. QED  BY <1>2, <1>3, <1>4 DEF TypeOK

LEMMA StaleWriteType ==
  ASSUME TypeOK, StaleWrite
  PROVE  TypeOK' /\ UNCHANGED <<entries, told, apart, mem, pc>>
<1>1. PICK m \in marking : job' = m /\ marking' = marking \ {m}
  BY DEF StaleWrite
<1>2. UNCHANGED <<mem, pc, born, follower, users>>  BY DEF StaleWrite
<1>3. job' \in JobRecords /\ Sound(job'.anns) /\ In(job'.anns) \subseteq born
  BY <1>1 DEF TypeOK
<1>4. QED  BY <1>1, <1>2, <1>3 DEF TypeOK, users

LEMMA PollType ==
  ASSUME TypeOK, Poll
  PROVE  TypeOK'
<1>1. \A a \in Present : /\ [state |-> job.anns[a].state, primary |-> Primary(job.anns[a])]
                              \in [state : States, primary : Iris]
  BY SoundList, PrimaryType DEF TypeOK, Present, Annotations
<1>2. Events(follower.shown) \in [Anns -> [state : States, primary : Iris] \cup {Absent}]
  BY <1>1 DEF Events, TypeOK
<1>3. follower' \in [phase : {"following", "complete", "cut off"}, fresh : BOOLEAN,
                     shown : [Anns -> [state : States, primary : Iris] \cup {Absent}]]
  BY <1>2 DEF Poll
<1>4. QED  BY <1>3 DEF Poll, TypeOK, users

-----------------------------------------------------------------------------
(* Type correctness: the users' routes.                                       *)

\* What an answered edit does to the job, and the types it keeps.
LEMMA AnsweredEffect ==
  ASSUME TypeOK, NEW new, DOMAIN new \subseteq Present, Answered(new),
         \A a \in DOMAIN new : new[a] \in Annotations /\ new[a].concepts # <<>>
  PROVE  /\ Present' = Present
         /\ \A a \in DOMAIN new : /\ job'.anns[a].state = new[a].state
                                  /\ job'.anns[a].dismissed = new[a].dismissed
                                  /\ job'.anns[a].concepts = new[a].concepts
         /\ \A a \in Anns \ DOMAIN new : job'.anns[a] = job.anns[a]
         /\ pc' = pc /\ mem' = mem
         /\ told' \in [Anns -> [state : {"rejected", "confirmed", Unknown},
                                primary : Iris \cup {Unknown}]]
            /\ apart' \subseteq Anns /\ entries' \in [Anns -> Ratings \cup {None}]
            => TypeOK'
<1> DEFINE anns == [a \in Anns |->
              IF a \in DOMAIN new THEN [new[a] EXCEPT !.events = @ + 1] ELSE job.anns[a]]
<1>1. job' = [job EXCEPT !.anns = anns]  BY DEF Answered
<1>2. \A a \in DOMAIN new : a \in Anns /\ job.anns[a] # Absent  BY DEF Present, In
<1>3. \A a \in DOMAIN new : /\ anns[a] \in Annotations
                            /\ anns[a].state = new[a].state
                            /\ anns[a].dismissed = new[a].dismissed
                            /\ anns[a].concepts = new[a].concepts
  <2> TAKE a \in DOMAIN new
  <2>1. anns[a] = [new[a] EXCEPT !.events = new[a].events + 1] /\ new[a] \in Annotations
    BY <1>2
  <2> DEFINE n == new[a].events + 1
  <2>2. n \in Nat /\ anns[a] = [new[a] EXCEPT !.events = n]  BY <2>1 DEF Annotations
  <2> HIDE DEF n, anns
  <2>3. QED  BY <2>1, <2>2 DEF Annotations
<1>4. \A a \in Anns \ DOMAIN new : anns[a] = job.anns[a]  OBVIOUS
<1>5. anns = [a \in Anns |-> anns[a]]  OBVIOUS
<1> HIDE DEF anns
<1>6. \A a \in Anns : anns[a] = Absent \/ (anns[a] \in Annotations /\ anns[a].concepts # <<>>)
  <2>1. Sound(job.anns)  BY DEF TypeOK
  <2>2. \A a \in Anns : job.anns[a] = Absent \/ (job.anns[a] \in Annotations
                                              /\ job.anns[a].concepts # <<>>)
    BY <2>1 DEF Sound, In, JobAnnotations
  <2>3. QED  BY <1>3, <1>4, <2>2
<1>7. Sound(anns)  BY <1>5, <1>6 DEF Sound, In, JobAnnotations
<1>8. job' \in JobRecords /\ job'.anns = anns  BY <1>1, <1>7 DEF TypeOK, JobRecords, Sound
<1>9. In(anns) = Present
  <2>1. \A a \in DOMAIN new : anns[a] # Absent  BY <1>3
  <2>2. QED  BY <1>2, <1>4, <2>1 DEF In, Present
<1>10. Present' = Present  BY <1>8, <1>9 DEF Present
<1>11. /\ pc' = pc /\ mem' = mem /\ born' = born /\ marking' = marking
       /\ used' = [used EXCEPT !.edits = @ + 1, !.raced = @ \/ ~Settled]
       /\ used.edits < MaxEdits
       /\ follower' = [follower EXCEPT !.fresh = FALSE]
       /\ edits' = [a \in Anns |-> IF a \in DOMAIN new THEN edits[a] + 1 ELSE edits[a]]
  BY DEF Answered
<1>12. used' \in [edits : 0..MaxEdits, raises : 0..MaxRaises, marks : 0..MaxMarks, raced : BOOLEAN]
       /\ used'.edits = used.edits + 1 /\ used.edits \in Nat
  <2> DEFINE e == used.edits + 1
             b == used.raced \/ ~Settled
  <2>1. used' = [used EXCEPT !.edits = e, !.raced = b]  BY <1>11
  <2>2. used.edits \in Nat /\ e \in 0..MaxEdits
    <3>1. used.edits \in 0..MaxEdits  BY DEF TypeOK
    <3>2. QED  BY <1>11, <3>1
  <2>3. e = used.edits + 1 /\ b \in BOOLEAN  OBVIOUS
  <2> HIDE DEF e, b
  <2>4. QED  BY <2>1, <2>2, <2>3 DEF TypeOK
<1>13. edits' \in [Anns -> Nat] /\ \A a \in Anns : edits'[a] <= used'.edits
  <2>1. edits \in [Anns -> Nat] /\ \A a \in Anns : edits[a] <= used.edits  BY DEF TypeOK
  <2>2. QED  BY <1>11, <1>12, <2>1
<1>14. follower' \in [phase : {"following", "complete", "cut off"}, fresh : BOOLEAN,
                      shown : [Anns -> [state : States, primary : Iris] \cup {Absent}]]
  BY <1>11 DEF TypeOK
<1>15. In(job'.anns) \cup In(mem'.anns) \subseteq born' /\ born' \subseteq Anns
  BY <1>8, <1>9, <1>11 DEF TypeOK, Present
<1>16. /\ Sound(job'.anns) /\ mem' \in JobRecords /\ Sound(mem'.anns) /\ pc' \in Phases
       /\ marking' \subseteq {m \in JobRecords : Sound(m.anns) /\ In(m.anns) \subseteq born'}
  BY <1>7, <1>8, <1>11 DEF TypeOK
<1>17. ASSUME told' \in [Anns -> [state : {"rejected", "confirmed", Unknown},
                                 primary : Iris \cup {Unknown}]],
              apart' \subseteq Anns, entries' \in [Anns -> Ratings \cup {None}]
       PROVE  TypeOK'
  BY <1>8, <1>12, <1>13, <1>14, <1>15, <1>16, <1>17 DEF TypeOK
<1>18. QED  BY <1>3, <1>4, <1>8, <1>10, <1>11, <1>17

LEMMA RaisedType ==
  ASSUME TypeOK, NEW S \in SUBSET Anns, Raised(S), entries' \in [Anns -> Ratings \cup {None}]
  PROVE  TypeOK'
<1>1. used' = [used EXCEPT !.edits = @ + 1, !.raises = @ + 1]
      /\ used.edits < MaxEdits /\ used.raises < MaxRaises
  BY DEF Raised
<1>2. used' \in [edits : 0..MaxEdits, raises : 0..MaxRaises, marks : 0..MaxMarks, raced : BOOLEAN]
      /\ used'.edits = used.edits + 1 /\ used.edits \in Nat
  <2> DEFINE e == used.edits + 1
             n == used.raises + 1
  <2>1. used' = [used EXCEPT !.edits = e, !.raises = n]  BY <1>1
  <2>2. used.edits \in Nat /\ e \in 0..MaxEdits /\ n \in 0..MaxRaises
    <3>1. used.edits \in 0..MaxEdits /\ used.raises \in 0..MaxRaises  BY DEF TypeOK
    <3>2. QED  BY <1>1, <3>1
  <2>3. e = used.edits + 1  OBVIOUS
  <2> HIDE DEF e, n
  <2>4. QED  BY <2>1, <2>2, <2>3 DEF TypeOK
<1>3. edits' = edits /\ \A a \in Anns : edits'[a] <= used'.edits
  <2>1. edits \in [Anns -> Nat] /\ \A a \in Anns : edits[a] <= used.edits  BY DEF TypeOK
  <2>2. QED  BY <1>2, <2>1 DEF Raised
<1>4. QED  BY <1>2, <1>3 DEF Raised, TypeOK

LEMMA TellType ==
  ASSUME TypeOK, NEW S, NEW state \in {"rejected", "confirmed", Unknown},
         NEW primary \in Iris \cup {Unknown}, Tell(S, state, primary)
  PROVE  told' \in [Anns -> [state : {"rejected", "confirmed", Unknown},
                            primary : Iris \cup {Unknown}]]
BY DEF Tell, TypeOK

LEMMA PutType ==
  ASSUME TypeOK, NEW S, NEW v \in Ratings \cup {None}, entries' = Put(entries, S, v)
  PROVE  entries' \in [Anns -> Ratings \cup {None}]
BY DEF Put, TypeOK

LEMMA PresentSound ==
  ASSUME TypeOK, NEW a \in Present
  PROVE  /\ a \in Anns /\ job.anns[a] \in Annotations /\ job.anns[a].concepts # <<>>
         /\ job.anns[a].concepts \in Seq(Concepts)
<1>1. Sound(job.anns) /\ a \in In(job.anns)  BY DEF TypeOK, Present
<1>2. a \in Anns /\ job.anns[a] \in Annotations /\ job.anns[a].concepts # <<>>
  BY <1>1, SoundList
<1>3. QED  BY <1>2 DEF Annotations

\* Dismissing and restoring change the state and the dismissal of S, and nothing else.
LEMMA DecidedSound ==
  ASSUME TypeOK, NEW S \in SUBSET Present
  PROVE  /\ DOMAIN Dismissed(S) = S /\ DOMAIN Restored(S) = S
         /\ \A a \in S : /\ Dismissed(S)[a] \in Annotations /\ Restored(S)[a] \in Annotations
                         /\ Dismissed(S)[a].concepts = job.anns[a].concepts
                         /\ Restored(S)[a].concepts = job.anns[a].concepts
                         /\ Dismissed(S)[a].concepts # <<>> /\ Restored(S)[a].concepts # <<>>
                         /\ Dismissed(S)[a].state = "rejected" /\ Dismissed(S)[a].dismissed
                         /\ Restored(S)[a].state = "confirmed" /\ ~Restored(S)[a].dismissed
<1>1. \A a \in S : job.anns[a] \in Annotations /\ job.anns[a].concepts # <<>>
  BY PresentSound
<1>2. QED  BY <1>1 DEF Dismissed, Restored, Annotations, States

LEMMA DismissType ==
  ASSUME TypeOK, NEW S \in SUBSET Present, Dismiss(S)
  PROVE  TypeOK'
<1>0. S \subseteq Anns  BY PresentSound
<1>1. CASE /\ entries' = Put(entries, S, "dismissed")
           /\ Answered(Dismissed(S)) /\ Tell(S, "rejected", Unknown) /\ Together(S)
  <2>1. apart' \subseteq Anns  BY <1>0, <1>1 DEF Together, TypeOK
  <2>2. entries' \in [Anns -> Ratings \cup {None}]  BY <1>1, PutType DEF Ratings
  <2>3. told' \in [Anns -> [state : {"rejected", "confirmed", Unknown},
                           primary : Iris \cup {Unknown}]]
    BY <1>1, TellType
  <2>4. QED  BY <1>1, <2>1, <2>2, <2>3, DecidedSound, AnsweredEffect
<1>2. CASE \E first \in SUBSET S : entries' = Put(entries, first, "dismissed") /\ Raised(first)
  <2>1. PICK first \in SUBSET S : entries' = Put(entries, first, "dismissed") /\ Raised(first)
    BY <1>2
  <2>2. entries' \in [Anns -> Ratings \cup {None}]  BY <2>1, PutType DEF Ratings
  <2>3. QED  BY <1>0, <2>1, <2>2, RaisedType
<1>3. QED  BY <1>1, <1>2 DEF Dismiss

\* Both rejections are a dismissal of some annotations of the job.
LEMMA RejectionDismisses ==
  ASSUME RejectAnnotation \/ BulkRejectAnnotations
  PROVE  \E S \in SUBSET Present : Dismiss(S)
<1>1. CASE RejectAnnotation  BY <1>1 DEF RejectAnnotation
<1>2. CASE BulkRejectAnnotations  BY <1>2 DEF BulkRejectAnnotations
<1>3. QED  BY <1>1, <1>2

LEMMA RestoreType ==
  ASSUME TypeOK, RestoreAnnotation
  PROVE  TypeOK'
<1>1. PICK a \in Present :
        /\ entries' = Put(entries, {a}, None)
        /\ \/ Answered(Restored({a})) /\ Tell({a}, "confirmed", Unknown) /\ Together({a})
           \/ Raised({a})
  BY DEF RestoreAnnotation
<1>2. entries' \in [Anns -> Ratings \cup {None}] /\ {a} \in SUBSET Anns
  BY <1>1, PutType, PresentSound
<1>3. CASE Raised({a})  BY <1>2, <1>3, RaisedType
<1>4. CASE Answered(Restored({a})) /\ Tell({a}, "confirmed", Unknown) /\ Together({a})
  <2>1. apart' \subseteq Anns  BY <1>2, <1>4 DEF Together, TypeOK
  <2>2. told' \in [Anns -> [state : {"rejected", "confirmed", Unknown},
                           primary : Iris \cup {Unknown}]]
    BY <1>4, TellType
  <2>3. QED  BY <1>2, <1>4, <2>1, <2>2, DecidedSound, AnsweredEffect
<1>5. QED  BY <1>1, <1>3, <1>4

\* A promotion, of one annotation or of several, moves a backup of each.
PromotionOf(index, asked, primary) ==
  /\ DOMAIN index \subseteq Present \cap asked
  /\ primary \in Iris
  /\ \A a \in DOMAIN index : /\ index[a] \in DOMAIN job.anns[a].concepts /\ index[a] # 1
                             /\ job.anns[a].concepts[index[a]].iri = primary
  /\ Promotion(index, asked, primary)

LEMMA PromoteIsPromotion ==
  ASSUME TypeOK, PromoteConcept
  PROVE  \E index, asked, primary : PromotionOf(index, asked, primary)
<1>1. PICK a \in Present : \E n \in DOMAIN job.anns[a].concepts :
        n > 1 /\ Promotion([b \in {a} |-> n], {a}, job.anns[a].concepts[n].iri)
  BY DEF PromoteConcept
<1>2. PICK n \in DOMAIN job.anns[a].concepts :
        n > 1 /\ Promotion([b \in {a} |-> n], {a}, job.anns[a].concepts[n].iri)
  BY <1>1
<1>3. job.anns[a].concepts \in Seq(Concepts)  BY PresentSound
<1>4. job.anns[a].concepts[n] \in Concepts /\ n # 1  BY <1>2, <1>3
<1>5. job.anns[a].concepts[n].iri \in Iris  BY <1>4 DEF Concepts
<1>6. PromotionOf([b \in {a} |-> n], {a}, job.anns[a].concepts[n].iri)
  BY <1>2, <1>4, <1>5 DEF PromotionOf
<1>7. QED  BY <1>6

LEMMA LeastOf ==
  ASSUME NEW B \in SUBSET Nat, B # {}
  PROVE  \E n \in B : \A k \in B : n <= k
<1>1. IsWellFoundedOn(OpToRel(<, Nat), Nat)  BY NatLessThanWellFounded, Zenon
<1>2. PICK n \in B : \A k \in B : ~ (<<k, n>> \in OpToRel(<, Nat))
  BY <1>1, WFMin, Zenon
<1>3. \A k \in B : ~ (k < n)  BY <1>2, Zenon DEF OpToRel
<1>4. QED  BY <1>3

LEMMA CascadeIsPromotion ==
  ASSUME TypeOK, CascadePromote
  PROVE  \E index, asked, primary : PromotionOf(index, asked, primary)
<1> DEFINE first(B) == CHOOSE n \in B : \A k \in B : n <= k
<1>1. PICK old \in Iris, new \in Iris, ids \in SUBSET Anns :
        Promotion([a \in Cascaded(old, new, ids) |-> first(Backups(job.anns[a], new))], ids, new)
  BY DEF CascadePromote
<1> DEFINE S == Cascaded(old, new, ids)
           index == [a \in S |-> first(Backups(job.anns[a], new))]
<1>2. S \subseteq Present \cap ids /\ \A a \in S : Backups(job.anns[a], new) # {}
  BY DEF Cascaded
<1>3. ASSUME NEW a \in S
      PROVE  index[a] \in Backups(job.anns[a], new)
  <2>1. job.anns[a].concepts \in Seq(Concepts)  BY <1>2, PresentSound
  <2>2. Backups(job.anns[a], new) \in SUBSET Nat  BY <2>1 DEF Backups
  <2>3. \E n \in Backups(job.anns[a], new) : \A k \in Backups(job.anns[a], new) : n <= k
    BY <1>2, <2>2, LeastOf
  <2>4. first(Backups(job.anns[a], new)) \in Backups(job.anns[a], new)  BY <2>3
  <2>5. QED  BY <2>4
<1>4. DOMAIN index = S /\ Promotion(index, ids, new)  BY <1>1
<1> HIDE DEF index, S
<1>5. \A a \in DOMAIN index : /\ index[a] \in DOMAIN job.anns[a].concepts /\ index[a] # 1
                              /\ job.anns[a].concepts[index[a]].iri = new
  <2>1. \A a \in S : DOMAIN job.anns[a].concepts \subseteq Nat  BY <1>2, PresentSound
  <2>2. QED  BY <1>3, <1>4, <2>1 DEF Backups
<1>6. PromotionOf(index, ids, new)  BY <1>1, <1>2, <1>4, <1>5 DEF PromotionOf
<1>7. QED  BY <1>6

PromotedAnns(index) ==
  [a \in DOMAIN index |-> [job.anns[a] EXCEPT !.concepts = Promoted(@, index[a])]]

LEMMA PromotionSound ==
  ASSUME TypeOK, NEW index, NEW asked, NEW primary, PromotionOf(index, asked, primary)
  PROVE  /\ DOMAIN PromotedAnns(index) = DOMAIN index
         /\ \A a \in DOMAIN index : /\ PromotedAnns(index)[a] \in Annotations
                                    /\ PromotedAnns(index)[a].concepts # <<>>
                                    /\ PromotedAnns(index)[a].state = job.anns[a].state
                                    /\ PromotedAnns(index)[a].dismissed = job.anns[a].dismissed
                                    /\ Primary(PromotedAnns(index)[a]) = primary
<1>0. DOMAIN PromotedAnns(index) = DOMAIN index  BY DEF PromotedAnns
<1> SUFFICES \A a \in DOMAIN index :
                                    /\ PromotedAnns(index)[a] \in Annotations
                                    /\ PromotedAnns(index)[a].concepts # <<>>
                                    /\ PromotedAnns(index)[a].state = job.anns[a].state
                                    /\ PromotedAnns(index)[a].dismissed = job.anns[a].dismissed
                                    /\ Primary(PromotedAnns(index)[a]) = primary
  BY <1>0
<1> TAKE a \in DOMAIN index
<1>1. /\ job.anns[a] \in Annotations /\ job.anns[a].concepts # <<>>
      /\ job.anns[a].concepts \in Seq(Concepts)
  BY PresentSound DEF PromotionOf
<1>2. /\ index[a] \in DOMAIN job.anns[a].concepts /\ index[a] # 1
      /\ job.anns[a].concepts[index[a]].iri = primary
  BY DEF PromotionOf
<1> DEFINE list == Promoted(job.anns[a].concepts, index[a])
<1>3. list \in Seq(Concepts) /\ list # <<>> /\ list[1].iri = primary
  BY <1>1, <1>2, PromotedSound
<1>4. PromotedAnns(index)[a] = [job.anns[a] EXCEPT !.concepts = list]
  BY DEF PromotedAnns
<1> HIDE DEF list
<1>5. QED  BY <1>1, <1>3, <1>4 DEF Annotations, Primary

LEMMA PromotionType ==
  ASSUME TypeOK, NEW index, NEW asked, NEW primary, PromotionOf(index, asked, primary)
  PROVE  TypeOK'
<1> DEFINE new == PromotedAnns(index)
<1>1. \A a \in DOMAIN index : new[a] \in Annotations /\ new[a].concepts # <<>>
  BY PromotionSound
<1>2. DOMAIN new = DOMAIN index /\ DOMAIN index \subseteq Present /\ primary \in Iris
  BY PromotionSound DEF PromotionOf
<1>3. \/ Answered(new) /\ Tell(DOMAIN index \cap asked, Unknown, primary) /\ UNCHANGED apart
      \/ Raised({})
  BY Zenon DEF PromotionOf, Promotion, PromotedAnns
<1>4. entries' = entries /\ entries' \in [Anns -> Ratings \cup {None}]
  BY DEF PromotionOf, Promotion, TypeOK
<1> HIDE DEF new
<1>5. CASE Raised({})  BY <1>4, <1>5, RaisedType
<1>6. CASE Answered(new) /\ Tell(DOMAIN index \cap asked, Unknown, primary) /\ UNCHANGED apart
  <2>1. told' \in [Anns -> [state : {"rejected", "confirmed", Unknown},
                           primary : Iris \cup {Unknown}]]
    BY <1>2, <1>6, TellType
  <2>2. apart' \subseteq Anns  BY <1>6 DEF TypeOK
  <2>3. QED  BY <1>1, <1>2, <1>4, <1>6, <2>1, <2>2, AnsweredEffect
<1>7. QED  BY <1>3, <1>5, <1>6

\* Ratings and deletions touch the feedback store alone.
LEMMA FeedbackType ==
  ASSUME TypeOK, SubmitFeedback \/ DeleteFeedback
  PROVE  TypeOK' /\ UNCHANGED <<job, edits, told, follower, pc, mem, marking, born>>
<1>1. /\ used.edits < MaxEdits /\ used' = [used EXCEPT !.edits = @ + 1]
      /\ UNCHANGED <<job, edits, told, follower, pc, mem, marking, born>>
  BY DEF SubmitFeedback, DeleteFeedback
<1>2. entries' \in [Anns -> Ratings \cup {None}] /\ apart' \subseteq Anns
  <2>1. CASE SubmitFeedback
    <3>1. PICK a \in Present, rating \in Ratings :
            /\ entries' = Put(entries, {a}, rating)
            /\ apart' = IF (rating = "dismissed") # job.anns[a].dismissed
                        THEN apart \cup {a} ELSE apart
      BY <2>1 DEF SubmitFeedback
    <3>2. a \in Anns /\ rating \in Ratings  BY PresentSound DEF Ratings
    <3>3. QED  BY <3>1, <3>2, PutType DEF TypeOK
  <2>2. CASE DeleteFeedback
    <3>1. PICK S \in {{a} : a \in Rated} \cup {Rated} :
            entries' = Put(entries, S, None) /\ apart' = apart \cup S
      BY <2>2 DEF DeleteFeedback
    <3>2. S \subseteq Anns  BY DEF Rated
    <3>3. QED  BY <3>1, <3>2, PutType DEF TypeOK
  <2>3. QED  BY <2>1, <2>2
<1>3. used' \in [edits : 0..MaxEdits, raises : 0..MaxRaises, marks : 0..MaxMarks, raced : BOOLEAN]
      /\ used'.edits = used.edits + 1 /\ used.edits \in Nat
  <2> DEFINE e == used.edits + 1
  <2>1. used.edits \in 0..MaxEdits  BY DEF TypeOK
  <2>2. used.edits \in Nat /\ e \in 0..MaxEdits /\ e = used.edits + 1  BY <1>1, <2>1
  <2>3. used' = [used EXCEPT !.edits = e]  BY <1>1
  <2> HIDE DEF e
  <2>4. QED  BY <2>2, <2>3 DEF TypeOK
<1>4. \A a \in Anns : edits'[a] <= used'.edits
  <2>1. edits \in [Anns -> Nat] /\ \A a \in Anns : edits[a] <= used.edits  BY DEF TypeOK
  <2>2. QED  BY <1>1, <1>3, <2>1
<1>5. QED  BY <1>1, <1>2, <1>3, <1>4 DEF TypeOK

\* The three kinds of edit that write the job, and the two that do not.
LEMMA UserCases ==
  ASSUME TypeOK, User
  PROVE  \/ \E S \in SUBSET Present : Dismiss(S)
         \/ RestoreAnnotation
         \/ \E index, asked, primary : PromotionOf(index, asked, primary)
         \/ SubmitFeedback \/ DeleteFeedback
BY RejectionDismisses, PromoteIsPromotion, CascadeIsPromotion DEF User

LEMMA UserType ==
  ASSUME TypeOK, User
  PROVE  TypeOK'
BY UserCases, DismissType, RestoreType, PromotionType, FeedbackType

\* An edit starts a new state that the follower has not seen, or leaves the job alone.
LEMMA UserLeaves ==
  ASSUME TypeOK, User
  PROVE  /\ UNCHANGED <<pc, mem, marking>> /\ used'.marks = used.marks
         /\ \/ UNCHANGED <<job, follower>> /\ used'.raced = used.raced
            \/ /\ job'.status = job.status /\ follower'.phase = follower.phase
               /\ follower'.fresh = FALSE /\ (~Settled => used'.raced)
<1>1. ASSUME NEW new, Answered(new)
      PROVE  /\ UNCHANGED <<pc, mem, marking>> /\ used'.marks = used.marks
             /\ job'.status = job.status /\ follower'.phase = follower.phase
             /\ follower'.fresh = FALSE /\ (~Settled => used'.raced)
  <2>1. UNCHANGED <<pc, mem, marking>>  BY <1>1 DEF Answered
  <2>2. job'.status = job.status
    <3> DEFINE anns == [a \in Anns |->
                 IF a \in DOMAIN new THEN [new[a] EXCEPT !.events = @ + 1] ELSE job.anns[a]]
    <3>1. job' = [job EXCEPT !.anns = anns]  BY <1>1 DEF Answered
    <3> HIDE DEF anns
    <3>2. QED  BY <3>1 DEF TypeOK, JobRecords
  <2>3. follower'.phase = follower.phase /\ follower'.fresh = FALSE
    BY <1>1 DEF Answered, TypeOK
  <2>4. (~Settled => used'.raced) /\ used'.marks = used.marks
    <3> DEFINE e == used.edits + 1
               b == used.raced \/ ~Settled
    <3>1. used' = [used EXCEPT !.edits = e, !.raced = b]  BY <1>1 DEF Answered
    <3>2. ~Settled => b  OBVIOUS
    <3> HIDE DEF e, b
    <3>3. used'.raced = b /\ used'.marks = used.marks  BY <3>1 DEF TypeOK
    <3>4. QED  BY <3>2, <3>3, Zenon
  <2>5. QED  BY <2>1, <2>2, <2>3, <2>4
<1>2. ASSUME NEW S, Raised(S)
      PROVE  /\ UNCHANGED <<pc, mem, marking, job, follower>>
             /\ used'.raced = used.raced /\ used'.marks = used.marks
  <2>1. used' = [used EXCEPT !.edits = @ + 1, !.raises = @ + 1]
        /\ UNCHANGED <<job, follower, pc, mem, marking>>
    BY <1>2 DEF Raised
  <2>2. used'.raced = used.raced /\ used'.marks = used.marks  BY <2>1 DEF TypeOK
  <2>3. QED  BY <2>1, <2>2
<1>3. CASE SubmitFeedback \/ DeleteFeedback
  <2>1. UNCHANGED <<job, follower, pc, mem, marking>>  BY <1>3, FeedbackType
  <2>2. used' = [used EXCEPT !.edits = @ + 1]
    BY <1>3 DEF SubmitFeedback, DeleteFeedback
  <2>3. used'.raced = used.raced /\ used'.marks = used.marks  BY <2>2 DEF TypeOK
  <2>4. QED  BY <2>1, <2>3
<1>4. (\E new : Answered(new)) \/ (\E S : Raised(S)) \/ SubmitFeedback \/ DeleteFeedback
  BY UserCases DEF Dismiss, RestoreAnnotation, PromotionOf, Promotion
<1>5. QED  BY <1>1, <1>2, <1>3, <1>4

-----------------------------------------------------------------------------
(* The job, the pipeline's copy, the feedback store and the follower are what *)
(* the types say, whatever the pipeline, the users and the restarts do; what  *)
(* is in the job has a concept, and its id was given out once.                *)
THEOREM ReviewTypeCorrect == Spec => []TypeOK
<1>1. Init => TypeOK
  <2> SUFFICES ASSUME Init PROVE TypeOK  OBVIOUS
  <2>1. mem = [status |-> "enriching", anns |-> [a \in Anns |-> Absent]] /\ job = mem
    BY DEF Init
  <2>2. mem \in JobRecords /\ In(mem.anns) = {} /\ Sound(mem.anns)
    BY <2>1 DEF JobRecords, JobStatuses, JobAnnotations, In, Sound
  <2>3. follower \in [phase : {"following", "complete", "cut off"}, fresh : BOOLEAN,
                      shown : [Anns -> [state : States, primary : Iris] \cup {Absent}]]
    BY DEF Init
  <2>4. used \in [edits : 0..MaxEdits, raises : 0..MaxRaises, marks : 0..MaxMarks, raced : BOOLEAN]
    BY DEF Init
  <2>5. edits \in [Anns -> Nat] /\ \A a \in Anns : edits[a] <= used.edits  BY DEF Init
  <2>6. told \in [Anns -> [state : {"rejected", "confirmed", Unknown},
                          primary : Iris \cup {Unknown}]]
    BY DEF Init
  <2>7. /\ entries \in [Anns -> Ratings \cup {None}] /\ pc \in Phases /\ born = {}
        /\ apart = {} /\ marking = {}
    BY DEF Init, Phases
  <2>8. QED  BY <2>1, <2>2, <2>3, <2>4, <2>5, <2>6, <2>7 DEF TypeOK
<1>2. TypeOK /\ [Next]_vars => TypeOK'
  <2> SUFFICES ASSUME TypeOK, [Next]_vars PROVE TypeOK'  OBVIOUS
  <2>1. CASE UNCHANGED vars  BY <2>1 DEF vars, TypeOK
  <2>2. QED  BY <2>1, RunType, RestartType, StaleReadType, StaleWriteType, PollType, UserType DEF Next
<1>3. QED  BY <1>1, <1>2, PTL DEF Spec

-----------------------------------------------------------------------------
(* The status of the file.  After the run it is never one in progress, so no  *)
(* thread finds the job stale then, and what is settled stays so.             *)
StatusInv ==
  /\ \A m \in marking : m.status = "failed"
  /\ pc \in {"assess", "ended"} => job.status # "enriching"
  /\ pc = "assess" => mem.status # "enriching"

LEMMA StatusKept ==
  ASSUME TypeOK, StatusInv, [Next]_vars
  PROVE  StatusInv'
<1>1. ASSUME NEW from, NEW to \in Phases \ {"assess", "ended"}, NEW new, Stage(from, to, new)
      PROVE  StatusInv'
  BY <1>1 DEF Stage, StatusInv
<1>2. CASE \E to \in {"extract", "reconcile"} : Extract(to)
  BY <1>1, <1>2 DEF Extract, Phases
<1>3. CASE Reconcile  BY <1>1, <1>3 DEF Reconcile, Phases
<1>4. CASE MatchSpans  BY <1>1, <1>4 DEF MatchSpans, Phases
<1>5. CASE \E to \in {"link", "complete"} : Link(to)  BY <1>1, <1>5 DEF Link, Phases
<1>6. CASE MatchNothing  BY <1>1, <1>6 DEF MatchNothing, Phases
<1>7. CASE Complete \/ FailPipeline
  <2>1. PICK status \in {"completed", "failed"} :
          mem' = [mem EXCEPT !.status = status] /\ job' = mem' /\ marking' = marking
    BY <1>7 DEF Complete, FailPipeline, SaveStatus
  <2>2. mem'.status = status  BY <2>1 DEF TypeOK, JobRecords
  <2>3. QED  BY <2>1, <2>2 DEF StatusInv
<1>8. CASE Assess \/ EndRun  BY <1>8 DEF Assess, EndRun, StatusInv
<1>9. CASE Restart
  <2>1. job' = [job EXCEPT !.status = IF @ = "enriching" THEN "failed" ELSE @]
        /\ marking' = {} /\ pc' = "ended"
    BY <1>9 DEF Restart
  <2>2. job'.status # "enriching"  BY <2>1 DEF TypeOK, JobRecords
  <2>3. QED  BY <2>1, <2>2 DEF StatusInv
<1>10. CASE StaleRead
  <2>1. marking' = marking \cup {[job EXCEPT !.status = "failed"]} /\ UNCHANGED <<job, mem, pc>>
    BY <1>10 DEF StaleRead
  <2>2. [job EXCEPT !.status = "failed"].status = "failed"  BY DEF TypeOK, JobRecords
  <2>3. QED  BY <2>1, <2>2 DEF StatusInv
<1>11. CASE StaleWrite
  <2>1. PICK m \in marking : job' = m /\ marking' = marking \ {m} /\ UNCHANGED <<mem, pc>>
    BY <1>11 DEF StaleWrite
  <2>2. QED  BY <2>1 DEF StatusInv
<1>12. CASE User
  <2>1. UNCHANGED <<marking, pc, mem>> /\ job'.status = job.status
    BY <1>12, UserLeaves
  <2>2. QED  BY <2>1 DEF StatusInv
<1>13. CASE Poll \/ UNCHANGED vars  BY <1>13 DEF Poll, users, vars, StatusInv
<1>14. QED
  BY <1>2, <1>3, <1>4, <1>5, <1>6, <1>7, <1>8, <1>9, <1>10, <1>11, <1>12, <1>13 DEF Next, Run

LEMMA Statuses == Spec => []StatusInv
<1>1. Init => StatusInv  BY DEF Init, StatusInv
<1>2. QED  BY <1>1, StatusKept, ReviewTypeCorrect, PTL DEF Spec

-----------------------------------------------------------------------------
(* Answered edits.  Only edits of a settled job are told, so nothing the      *)
(* pipeline or a late marking does can undo them; an edit changes what it     *)
(* tells, and no more.                                                        *)
NothingTold == \A a \in Anns : told[a].state = Unknown /\ told[a].primary = Unknown

AnswersInv == TypeOK /\ AnswersStand /\ (~Settled => NothingTold)

LEMMA DuringRun ==
  ASSUME Run \/ Restart
  PROVE  pc # "ended" /\ entries' = entries /\ told' = told /\ apart' = apart
<1>1. ASSUME NEW from \in Phases \ {"ended"}, NEW to, NEW new, Stage(from, to, new)
      PROVE  pc # "ended" /\ entries' = entries /\ told' = told /\ apart' = apart
  BY <1>1 DEF Stage, users
<1>2. CASE \E to \in {"extract", "reconcile"} : Extract(to)
  BY <1>1, <1>2 DEF Extract, Phases
<1>3. CASE Reconcile  BY <1>1, <1>3 DEF Reconcile, Phases
<1>4. CASE MatchSpans  BY <1>1, <1>4 DEF MatchSpans, Phases
<1>5. CASE \E to \in {"link", "complete"} : Link(to)  BY <1>1, <1>5 DEF Link, Phases
<1>6. CASE Complete \/ FailPipeline \/ Assess \/ EndRun \/ Restart
  BY <1>6 DEF Complete, FailPipeline, Assess, EndRun, Restart, SaveStatus, users
<1>7. CASE MatchNothing  BY <1>1, <1>7 DEF MatchNothing, Phases
<1>8. QED  BY <1>2, <1>3, <1>4, <1>5, <1>6, <1>7 DEF Run

LEMMA RunMarking ==
  ASSUME Run \/ Restart
  PROVE  marking' = marking \/ marking' = {}
BY DEF Run, Restart, Extract, Reconcile, MatchSpans, MatchNothing, Link, Stage, Complete,
       FailPipeline, SaveStatus, Assess, EndRun

\* Whoever else writes the file does so before it is settled.
LEMMA Unsettled ==
  ASSUME TypeOK, StatusInv, Run \/ Restart \/ StaleRead \/ StaleWrite
  PROVE  ~Settled /\ entries' = entries /\ told' = told /\ apart' = apart
<1>1. CASE Run \/ Restart  BY <1>1, DuringRun DEF Settled
<1>2. CASE StaleRead  BY <1>2 DEF StaleRead, StatusInv, Settled
<1>3. CASE StaleWrite  BY <1>3 DEF StaleWrite, Settled, users
<1>4. QED  BY <1>1, <1>2, <1>3

LEMMA ToldNothing ==
  ASSUME NothingTold, told' = told
  PROVE  AnswersStand' /\ NothingTold'
BY DEF NothingTold, AnswersStand

\* An answered edit whose annotations are in the state and have the primary
\* concept that it tells, and keep the one that it does not tell.
LEMMA AnsweredStands ==
  ASSUME AnswersInv, NEW new, DOMAIN new \subseteq Present, Answered(new),
         \A a \in DOMAIN new : new[a] \in Annotations /\ new[a].concepts # <<>>,
         NEW state, NEW primary, Tell(DOMAIN new, state, primary),
         \A a \in DOMAIN new :
            /\ new[a].state = IF state = Unknown THEN job.anns[a].state ELSE state
            /\ Primary(new[a]) = IF primary = Unknown THEN Primary(job.anns[a]) ELSE primary
  PROVE  AnswersStand' /\ (~Settled' => NothingTold')
<1>0. Settled' = Settled  BY DEF Answered, Settled
<1>1. /\ Present' = Present /\ Settled' = Settled
      /\ \A a \in DOMAIN new : /\ job'.anns[a].state = new[a].state
                               /\ job'.anns[a].concepts = new[a].concepts
      /\ \A a \in Anns \ DOMAIN new : job'.anns[a] = job.anns[a]
  BY <1>0, AnsweredEffect DEF AnswersInv
<1>2. CASE ~Settled
  <2>1. told' = [a \in Anns |-> told[a]]  BY <1>2 DEF Tell
  <2>2. told' = told  BY <2>1 DEF AnswersInv, TypeOK
  <2>3. QED  BY <1>1, <1>2, <2>2, ToldNothing DEF AnswersInv
<1>3. CASE Settled
  <2>1. \A a \in Anns : told'[a] = IF a \in DOMAIN new
          THEN [state   |-> IF state # Unknown THEN state ELSE told[a].state,
                primary |-> IF primary # Unknown THEN primary ELSE told[a].primary]
          ELSE told[a]
    BY <1>3 DEF Tell
  <2>2. \A a \in Anns :
          /\ told[a].state # Unknown => a \in Present /\ job.anns[a].state = told[a].state
          /\ told[a].primary # Unknown => a \in Present /\ Primary(job.anns[a]) = told[a].primary
    BY DEF AnswersInv, AnswersStand
  <2>3. ASSUME NEW a \in DOMAIN new
        PROVE  /\ a \in Present'
               /\ told'[a].state # Unknown => job'.anns[a].state = told'[a].state
               /\ told'[a].primary # Unknown => Primary(job'.anns[a]) = told'[a].primary
    <3>1. a \in Present /\ a \in Anns  BY DEF Present, In
    <3>2. /\ told'[a].state = IF state # Unknown THEN state ELSE told[a].state
          /\ told'[a].primary = IF primary # Unknown THEN primary ELSE told[a].primary
      <4> DEFINE sn == IF state # Unknown THEN state ELSE told[a].state
                 pn == IF primary # Unknown THEN primary ELSE told[a].primary
      <4>1. told'[a] = [state |-> sn, primary |-> pn]  BY <2>1, <3>1
      <4> HIDE DEF sn, pn
      <4>2. told'[a].state = sn /\ told'[a].primary = pn  BY <4>1
      <4>3. QED  BY <4>2 DEF sn, pn
    <3>3. /\ job'.anns[a].state = IF state = Unknown THEN job.anns[a].state ELSE state
          /\ Primary(job'.anns[a]) = IF primary = Unknown THEN Primary(job.anns[a]) ELSE primary
      BY <1>1 DEF Primary
    <3>4. QED  BY <1>1, <2>2, <3>1, <3>2, <3>3
  <2>4. \A a \in Anns \ DOMAIN new : told'[a] = told[a] /\ job'.anns[a] = job.anns[a]
    BY <1>1, <2>1
  <2>5. ASSUME NEW a \in Anns \ DOMAIN new
        PROVE  /\ told'[a].state # Unknown => a \in Present' /\ job'.anns[a].state = told'[a].state
               /\ told'[a].primary # Unknown => a \in Present'
                                              /\ Primary(job'.anns[a]) = told'[a].primary
    BY <1>1, <2>2, <2>4
  <2>6. AnswersStand'  BY <2>3, <2>5 DEF AnswersStand
  <2>7. QED  BY <1>1, <1>3, <2>6
<1>4. QED  BY <1>2, <1>3

LEMMA RaisedStands ==
  ASSUME AnswersInv, NEW S, Raised(S)
  PROVE  AnswersStand' /\ (~Settled' => NothingTold')
BY DEF AnswersInv, Raised, AnswersStand, NothingTold, Present, Settled

LEMMA UserStands ==
  ASSUME AnswersInv, User
  PROVE  AnswersStand' /\ (~Settled' => NothingTold')
<1>0. TypeOK  BY DEF AnswersInv
<1>1. ASSUME NEW S \in SUBSET Present, Dismiss(S)
      PROVE  AnswersStand' /\ (~Settled' => NothingTold')
  <2>1. CASE Answered(Dismissed(S)) /\ Tell(S, "rejected", Unknown)
    <3>1. \A a \in S : Primary(Dismissed(S)[a]) = Primary(job.anns[a])
      BY <1>0, DecidedSound DEF Primary
    <3>2. QED  BY <1>0, <2>1, <3>1, DecidedSound, AnsweredStands DEF Unknown
  <2>2. QED  BY <1>1, <2>1, RaisedStands DEF Dismiss
<1>2. CASE RestoreAnnotation
  <2>1. PICK a \in Present : \/ Answered(Restored({a})) /\ Tell({a}, "confirmed", Unknown)
                             \/ Raised({a})
    BY <1>2 DEF RestoreAnnotation
  <2>2. CASE Answered(Restored({a})) /\ Tell({a}, "confirmed", Unknown)
    <3>1. \A b \in {a} : Primary(Restored({a})[b]) = Primary(job.anns[b])
      BY <1>0, DecidedSound DEF Primary
    <3>2. QED  BY <1>0, <2>2, <3>1, DecidedSound, AnsweredStands DEF Unknown
  <2>3. QED  BY <2>1, <2>2, RaisedStands
<1>3. ASSUME NEW index, NEW asked, NEW primary, PromotionOf(index, asked, primary)
      PROVE  AnswersStand' /\ (~Settled' => NothingTold')
  <2> DEFINE new == PromotedAnns(index)
  <2>1. \/ Answered(new) /\ Tell(DOMAIN index \cap asked, Unknown, primary)
        \/ Raised({})
    BY <1>3, Zenon DEF PromotionOf, Promotion, PromotedAnns
  <2>2. /\ DOMAIN new = DOMAIN index /\ DOMAIN index \subseteq Present
        /\ DOMAIN index \cap asked = DOMAIN index /\ primary # Unknown
    BY <1>0, <1>3, PromotionSound DEF PromotionOf, Unknown
  <2>3. \A a \in DOMAIN new : /\ new[a] \in Annotations /\ new[a].concepts # <<>>
                              /\ new[a].state = job.anns[a].state /\ Primary(new[a]) = primary
    BY <1>0, <1>3, <2>2, PromotionSound
  <2> HIDE DEF new
  <2>4. CASE Answered(new) /\ Tell(DOMAIN index \cap asked, Unknown, primary)
    BY <2>2, <2>3, <2>4, AnsweredStands
  <2>5. QED  BY <2>1, <2>4, RaisedStands
<1>4. CASE SubmitFeedback \/ DeleteFeedback
  <2>1. UNCHANGED <<job, told, pc, marking>>  BY <1>0, <1>4, FeedbackType
  <2>2. QED  BY <2>1 DEF AnswersInv, AnswersStand, NothingTold, Present, Settled
<1>5. QED  BY <1>0, <1>1, <1>2, <1>3, <1>4, UserCases

(* What a user was told after the run stands, for any number of users and     *)
(* annotations: AnswersStand.                                                 *)
THEOREM AnsweredEditsStand == Spec => []AnswersStand
<1>1. Init => AnswersStand /\ NothingTold  BY DEF Init, AnswersStand, NothingTold
<1>2. AnswersInv /\ StatusInv /\ TypeOK' /\ [Next]_vars => AnswersInv'
  <2> SUFFICES ASSUME AnswersInv, StatusInv, TypeOK', [Next]_vars
               PROVE  AnswersStand' /\ (~Settled' => NothingTold')
    BY DEF AnswersInv
  <2>1. CASE Run \/ Restart \/ StaleRead \/ StaleWrite
    BY <2>1, Unsettled, ToldNothing DEF AnswersInv
  <2>2. CASE User  BY <2>2, UserStands
  <2>3. CASE Poll \/ UNCHANGED vars
    <3>1. UNCHANGED <<job, told, pc, marking>>  BY <2>3 DEF Poll, users, vars
    <3>2. QED  BY <3>1 DEF AnswersInv, AnswersStand, NothingTold, Present, Settled
  <2>4. QED  BY <2>1, <2>2, <2>3 DEF Next
<1>3. AnswersInv => AnswersStand  BY DEF AnswersInv
<1>4. QED  BY <1>1, <1>2, <1>3, ReviewTypeCorrect, Statuses, PTL DEF Spec, AnswersInv

-----------------------------------------------------------------------------
(* The two stores.  The pipeline's copy holds no dismissal; and until the job *)
(* is settled the entries that say "dismissed", and the dismissals in what    *)
(* threads have read, are all of annotations set apart.                       *)
NoneDismissed(anns) == \A a \in In(anns) : anns[a].dismissed = FALSE

InsightsInv ==
  /\ TypeOK
  /\ InsightsMatchJob
  /\ NoneDismissed(mem.anns)
  /\ ~Settled => \A a \in Anns \ apart :
                   /\ entries[a] # "dismissed"
                   /\ \A m \in marking : a \in In(m.anns) => ~m.anns[a].dismissed

\* The stages put fresh annotations into the copy, or what was there.
LEMMA StageMem ==
  ASSUME TypeOK, NEW from, NEW to, NEW new, Stage(from, to, new)
  PROVE  mem'.anns = new /\ job'.anns \in {new, job.anns}
<1>1. mem' = [mem EXCEPT !.anns = new] /\ (job' = mem' \/ job' = job)  BY DEF Stage
<1>2. mem'.anns = new  BY <1>1 DEF TypeOK, JobRecords
<1>3. QED  BY <1>1, <1>2

LEMMA ExtractClean ==
  ASSUME TypeOK, NoneDismissed(mem.anns), NEW to, Extract(to)
  PROVE  NoneDismissed(mem'.anns) /\ job'.anns \in {mem'.anns, job.anns}
<1>1. PICK dropped \in SUBSET In(mem.anns), found \in SUBSET (Anns \ born) :
        \E iri \in [found -> Spotted] :
          Stage("extract", to, [a \in Anns |-> IF a \in found THEN Preliminary(iri[a])
                                              ELSE IF a \in dropped THEN Absent
                                              ELSE mem.anns[a]])
  BY DEF Extract
<1>2. PICK iri \in [found -> Spotted] :
        Stage("extract", to, [a \in Anns |-> IF a \in found THEN Preliminary(iri[a])
                                            ELSE IF a \in dropped THEN Absent
                                            ELSE mem.anns[a]])
  BY <1>1
<1> DEFINE new == [a \in Anns |-> IF a \in found THEN Preliminary(iri[a])
                                  ELSE IF a \in dropped THEN Absent ELSE mem.anns[a]]
<1>3. \A a \in In(new) : \/ new[a].dismissed = FALSE
                         \/ a \in In(mem.anns) /\ new[a] = mem.anns[a]
  BY DEF In, Preliminary
<1>4. mem'.anns = new /\ job'.anns \in {new, job.anns}  BY <1>2, StageMem
<1> HIDE DEF new
<1>5. QED  BY <1>3, <1>4 DEF NoneDismissed

LEMMA ReconcileClean ==
  ASSUME TypeOK, NoneDismissed(mem.anns), Reconcile
  PROVE  NoneDismissed(mem'.anns) /\ job'.anns \in {mem'.anns, job.anns}
<1>1. PICK states \in [In(mem.anns) -> States] :
        Stage("reconcile", "match", [a \in Anns |->
                IF a \in In(mem.anns) THEN [mem.anns[a] EXCEPT !.state = states[a]] ELSE Absent])
  BY DEF Reconcile
<1> DEFINE new == [a \in Anns |->
                IF a \in In(mem.anns) THEN [mem.anns[a] EXCEPT !.state = states[a]] ELSE Absent]
<1>2. \A a \in In(new) : a \in In(mem.anns) /\ a \in Anns  BY DEF In
<1>3. \A a \in In(mem.anns) : mem.anns[a] \in Annotations  BY SoundList DEF TypeOK
<1>4. \A a \in In(new) : new[a].dismissed = mem.anns[a].dismissed
  BY <1>2, <1>3 DEF Annotations
<1>5. mem'.anns = new /\ job'.anns \in {new, job.anns}  BY <1>1, StageMem
<1> HIDE DEF new
<1>6. QED  BY <1>2, <1>4, <1>5 DEF NoneDismissed

LEMMA MatchClean ==
  ASSUME TypeOK, NoneDismissed(mem.anns), MatchSpans
  PROVE  NoneDismissed(mem'.anns) /\ job'.anns \in {mem'.anns, job.anns}
<1> DEFINE rejected == {a \in In(mem.anns) : mem.anns[a].state = "rejected"}
           new(S, r, m) == [a \in Anns |-> IF a \in S THEN Matched(r[a])
                                           ELSE IF a \in rejected \ m THEN mem.anns[a]
                                           ELSE Absent]
<1>1. PICK matched \in SUBSET (In(mem.anns) \cup (Anns \ born)) :
        \E absorbed \in SUBSET matched : \E r \in [matched \ absorbed -> Resolutions] :
          Stage("match", "link", new(matched \ absorbed, r, matched))
  BY DEF MatchSpans
<1>2. PICK absorbed \in SUBSET matched : \E r \in [matched \ absorbed -> Resolutions] :
          Stage("match", "link", new(matched \ absorbed, r, matched))
  BY <1>1
<1>3. PICK r \in [matched \ absorbed -> Resolutions] :
          Stage("match", "link", new(matched \ absorbed, r, matched))
  BY <1>2
<1> DEFINE list == new(matched \ absorbed, r, matched)
<1>4. \A a \in In(list) : \/ list[a].dismissed = FALSE
                          \/ a \in In(mem.anns) /\ list[a] = mem.anns[a]
  BY DEF In, Matched
<1>5. mem'.anns = list /\ job'.anns \in {list, job.anns}  BY <1>3, StageMem
<1> HIDE DEF list
<1>6. QED  BY <1>4, <1>5 DEF NoneDismissed

LEMMA RunClean ==
  ASSUME TypeOK, NoneDismissed(mem.anns), Run \/ Restart
  PROVE  NoneDismissed(mem'.anns) /\ job'.anns \in {mem'.anns, job.anns}
<1>1. CASE \E to \in {"link", "complete"} : Link(to)
  <2>1. PICK to \in {"link", "complete"} : Stage("link", to, mem.anns)
    BY <1>1 DEF Link
  <2>2. QED  BY <2>1, StageMem
<1>2. CASE Complete \/ FailPipeline
  <2>1. PICK status : mem' = [mem EXCEPT !.status = status] /\ job' = mem'
    BY <1>2 DEF Complete, FailPipeline, SaveStatus
  <2>2. mem'.anns = mem.anns  BY <2>1 DEF TypeOK, JobRecords
  <2>3. QED  BY <2>1, <2>2
<1>3. CASE Assess \/ EndRun  BY <1>3 DEF Assess, EndRun
<1>4. CASE Restart  BY <1>4, RestartType DEF Restart
<1>5. CASE \E to \in {"extract", "reconcile"} : Extract(to)  BY <1>5, ExtractClean
<1>6. CASE MatchNothing
  <2>1. Stage("match", "link", mem.anns)  BY <1>6 DEF MatchNothing
  <2>2. QED  BY <2>1, StageMem
<1>7. QED  BY <1>1, <1>2, <1>3, <1>4, <1>5, <1>6, ReconcileClean, MatchClean DEF Run

\* During the run, and at its end, the job's dismissals are of annotations apart.
LEMMA RunInsights ==
  ASSUME InsightsInv, Run \/ Restart
  PROVE  InsightsMatchJob' /\ NoneDismissed(mem'.anns)
<1>1. NoneDismissed(mem'.anns) /\ job'.anns \in {mem'.anns, job.anns}
  BY RunClean DEF InsightsInv
<1>2. /\ entries' = entries /\ apart' = apart
      /\ \A a \in Anns \ apart : entries[a] # "dismissed"
  BY DuringRun DEF InsightsInv, Settled
<1>3. \A a \in Anns \ apart : ~ (a \in Present /\ job.anns[a].dismissed)
  BY <1>2 DEF InsightsInv, InsightsMatchJob
<1>4. \A a \in Anns \ apart : ~ (a \in In(job'.anns) /\ job'.anns[a].dismissed)
  BY <1>1, <1>3 DEF NoneDismissed, Present
<1>5. QED  BY <1>1, <1>2, <1>4 DEF InsightsMatchJob, Present

\* A thread reads dismissals of annotations apart only, and writes no others.
LEMMA StaleInsights ==
  ASSUME InsightsInv, StatusInv, StaleRead \/ StaleWrite, TypeOK'
  PROVE  InsightsInv'
<1>0. TypeOK /\ ~Settled /\ entries' = entries /\ apart' = apart
  BY Unsettled DEF InsightsInv
<1>1. \A a \in Anns \ apart : /\ entries[a] # "dismissed"
                              /\ ~(a \in In(job.anns) /\ job.anns[a].dismissed)
                              /\ \A m \in marking : a \in In(m.anns) => ~m.anns[a].dismissed
  BY <1>0 DEF InsightsInv, InsightsMatchJob, Present
<1>2. CASE StaleRead
  <2> DEFINE m == [job EXCEPT !.status = "failed"]
  <2>1. m.anns = job.anns  BY <1>0 DEF TypeOK, JobRecords
  <2>2. marking' = marking \cup {m} /\ UNCHANGED <<job, mem>>  BY <1>2 DEF StaleRead
  <2> HIDE DEF m
  <2>3. \A a \in Anns \ apart : \A n \in marking' : a \in In(n.anns) => ~n.anns[a].dismissed
    BY <1>1, <2>1, <2>2
  <2>4. QED  BY <1>0, <1>1, <2>2, <2>3 DEF InsightsInv, InsightsMatchJob, Present
<1>3. CASE StaleWrite
  <2>1. PICK m \in marking : job' = m /\ marking' = marking \ {m} /\ mem' = mem
    BY <1>3 DEF StaleWrite
  <2>2. \A a \in Anns \ apart : ~(a \in In(job'.anns) /\ job'.anns[a].dismissed)
    BY <1>1, <2>1
  <2>3. QED  BY <1>0, <1>1, <2>1, <2>2 DEF InsightsInv, InsightsMatchJob, Present
<1>4. QED  BY <1>2, <1>3

\* An answered edit, or a raising one, leaves the dismissals right outside S.
LEMMA AnsweredInsights ==
  ASSUME InsightsInv, NEW new, DOMAIN new \subseteq Present, Answered(new),
         \A a \in DOMAIN new : new[a] \in Annotations /\ new[a].concepts # <<>>,
         apart' \in SUBSET Anns,
         \A a \in Anns \ apart' : \/ /\ a \in DOMAIN new
                                     /\ entries'[a] = "dismissed" <=> new[a].dismissed
                                  \/ /\ entries'[a] = entries[a] /\ a \notin apart
                                     /\ a \in DOMAIN new => new[a].dismissed = job.anns[a].dismissed
  PROVE  InsightsMatchJob'
<1>1. /\ Present' = Present
      /\ \A a \in DOMAIN new : job'.anns[a].dismissed = new[a].dismissed
      /\ \A a \in Anns \ DOMAIN new : job'.anns[a] = job.anns[a]
  BY AnsweredEffect DEF InsightsInv
<1>2. \A a \in Anns \ apart : entries[a] = "dismissed" <=> (a \in Present /\ job.anns[a].dismissed)
  BY DEF InsightsInv, InsightsMatchJob
<1>3. ASSUME NEW a \in Anns \ apart'
      PROVE  entries'[a] = "dismissed" <=> (a \in Present' /\ job'.anns[a].dismissed)
  <2>1. CASE a \in DOMAIN new /\ (entries'[a] = "dismissed" <=> new[a].dismissed)
    <3>1. a \in Present' /\ job'.anns[a].dismissed = new[a].dismissed  BY <1>1, <2>1
    <3>2. QED  BY <2>1, <3>1, Zenon
  <2>2. CASE /\ entries'[a] = entries[a] /\ a \notin apart
             /\ a \in DOMAIN new => new[a].dismissed = job.anns[a].dismissed
    <3>1. job'.anns[a].dismissed = job.anns[a].dismissed  BY <1>1, <2>2
    <3>2. entries[a] = "dismissed" <=> (a \in Present /\ job.anns[a].dismissed)
      BY <1>2, <2>2
    <3>3. Present' = Present /\ entries'[a] = entries[a]  BY <1>1, <2>2
    <3>4. QED  BY <3>1, <3>2, <3>3, Zenon
  <2>3. QED  BY <1>3, <2>1, <2>2
<1>4. QED  BY <1>3 DEF InsightsMatchJob

LEMMA RaisedInsights ==
  ASSUME InsightsInv, NEW S, NEW v \in Ratings \cup {None}, Raised(S),
         entries' = Put(entries, S, v) \/ entries' = entries
  PROVE  InsightsMatchJob'
<1>1. job' = job /\ apart' = apart \cup S  BY DEF Raised
<1>2. \A a \in Anns \ S : entries'[a] = entries[a]  BY DEF Put
<1>3. QED  BY <1>1, <1>2 DEF InsightsInv, InsightsMatchJob, Present

LEMMA UserInsights ==
  ASSUME InsightsInv, User
  PROVE  /\ InsightsMatchJob'
         /\ ~Settled => /\ apart \subseteq apart'
                        /\ \A a \in (Anns \ apart)' : entries'[a] # "dismissed"
<1>0. TypeOK  BY DEF InsightsInv
<1>1. ASSUME NEW S \in SUBSET Present, Dismiss(S)
      PROVE  /\ InsightsMatchJob'
             /\ ~Settled => /\ apart \subseteq apart'
                            /\ \A a \in (Anns \ apart)' : entries'[a] # "dismissed"
  <2>1. CASE /\ entries' = Put(entries, S, "dismissed")
             /\ Answered(Dismissed(S)) /\ Together(S)
    <3>1. /\ \A a \in Anns \ S : entries'[a] = entries[a]
          /\ \A a \in Anns \cap S : entries'[a] = "dismissed"
      BY <2>1 DEF Put
    <3>2. apart' = IF Settled THEN apart \ S ELSE apart \cup S
      BY <2>1 DEF Together
    <3>3. apart' \in SUBSET Anns  BY <1>0, <3>2, PresentSound DEF TypeOK
    <3>4. InsightsMatchJob'
      BY <1>0, <2>1, <3>1, <3>2, <3>3, DecidedSound, AnsweredInsights
    <3>5. QED  BY <2>1, <3>1, <3>2, <3>4 DEF Answered, InsightsInv
  <2>2. CASE \E first \in SUBSET S : entries' = Put(entries, first, "dismissed") /\ Raised(first)
    <3>1. PICK first \in SUBSET S : entries' = Put(entries, first, "dismissed") /\ Raised(first)
      BY <2>2
    <3>2. InsightsMatchJob'  BY <3>1, RaisedInsights DEF Ratings
    <3>3. QED  BY <3>1, <3>2 DEF Raised, Put, InsightsInv
  <2>3. QED  BY <1>1, <2>1, <2>2 DEF Dismiss
<1>2. CASE RestoreAnnotation
  <2>1. PICK a \in Present :
          /\ entries' = Put(entries, {a}, None)
          /\ (Answered(Restored({a})) /\ Together({a})) \/ Raised({a})
    BY <1>2 DEF RestoreAnnotation
  <2>2. /\ \A b \in Anns \ {a} : entries'[b] = entries[b]
        /\ a \in Anns /\ entries'[a] = None /\ None # "dismissed"
    BY <1>0, <2>1, PresentSound DEF Put, None
  <2>3. CASE Answered(Restored({a})) /\ Together({a})
    <3>1. apart' = IF Settled THEN apart \ {a} ELSE apart \cup {a}
      BY <2>3 DEF Together
    <3>2. apart' \in SUBSET Anns  BY <1>0, <2>2, <3>1 DEF TypeOK
    <3>3. InsightsMatchJob'
      BY <1>0, <2>2, <2>3, <3>1, <3>2, DecidedSound, AnsweredInsights
    <3>4. QED  BY <2>2, <2>3, <3>1, <3>3 DEF Answered, InsightsInv
  <2>4. CASE Raised({a})
    <3>1. InsightsMatchJob'  BY <2>1, <2>4, RaisedInsights
    <3>2. QED  BY <2>2, <2>4, <3>1 DEF Raised, InsightsInv
  <2>5. QED  BY <2>1, <2>3, <2>4
<1>3. ASSUME NEW index, NEW asked, NEW primary, PromotionOf(index, asked, primary)
      PROVE  /\ InsightsMatchJob'
             /\ ~Settled => /\ apart \subseteq apart'
                            /\ \A a \in (Anns \ apart)' : entries'[a] # "dismissed"
  <2> DEFINE new == PromotedAnns(index)
  <2>1. /\ (Answered(new) /\ apart' = apart) \/ Raised({})
        /\ entries' = entries
    BY <1>3, Zenon DEF PromotionOf, Promotion, PromotedAnns
  <2>2. /\ DOMAIN new \subseteq Present
        /\ \A a \in DOMAIN new : /\ new[a] \in Annotations /\ new[a].concepts # <<>>
                                 /\ new[a].dismissed = job.anns[a].dismissed
    BY <1>0, <1>3, PromotionSound DEF PromotionOf
  <2> HIDE DEF new
  <2>3. CASE Answered(new) /\ apart' = apart
    <3>1. apart' \in SUBSET Anns  BY <1>0, <2>3 DEF TypeOK
    <3>2. InsightsMatchJob'  BY <2>1, <2>2, <2>3, <3>1, AnsweredInsights
    <3>3. QED  BY <2>1, <2>3, <3>2 DEF Answered, InsightsInv
  <2>4. CASE Raised({})
    <3>1. InsightsMatchJob'  BY <2>1, <2>4, RaisedInsights
    <3>2. QED  BY <2>1, <2>4, <3>1 DEF Raised, InsightsInv
  <2>5. QED  BY <2>1, <2>3, <2>4
<1>4. CASE SubmitFeedback
  <2>1. UNCHANGED <<job, pc, mem>>  BY <1>0, <1>4, FeedbackType
  <2>2. PICK a \in Present, rating \in Ratings :
          /\ entries' = Put(entries, {a}, rating)
          /\ apart' = IF (rating = "dismissed") # job.anns[a].dismissed
                        THEN apart \cup {a} ELSE apart
    BY <1>4 DEF SubmitFeedback
  <2>3. /\ \A b \in Anns \ {a} : entries'[b] = entries[b]
        /\ a \in Anns /\ entries'[a] = rating /\ apart \subseteq apart'
    BY <1>0, <2>2, PresentSound DEF Put
  <2>4. ASSUME a \notin apart'
        PROVE  (entries'[a] = "dismissed" <=> job.anns[a].dismissed) /\ a \notin apart
    <3>1. ~((rating = "dismissed") # job.anns[a].dismissed)  BY <2>2, <2>4
    <3>2. job.anns[a].dismissed \in BOOLEAN  BY <1>0, PresentSound DEF Annotations
    <3>3. QED  BY <2>3, <2>4, <3>1, <3>2
  <2>5. InsightsMatchJob'
    BY <2>1, <2>3, <2>4 DEF InsightsInv, InsightsMatchJob, Present
  <2>6. ASSUME ~Settled, NEW b \in Anns \ apart'
        PROVE  entries'[b] # "dismissed"
    <3>1. b \notin apart /\ entries[b] # "dismissed"  BY <2>3, <2>6 DEF InsightsInv
    <3>2. ~(b \in Present /\ job.anns[b].dismissed)
      BY <3>1 DEF InsightsInv, InsightsMatchJob
    <3>3. QED  BY <2>3, <2>4, <2>6, <3>1, <3>2
  <2>7. QED  BY <2>3, <2>5, <2>6
<1>5. CASE DeleteFeedback
  <2>1. UNCHANGED <<job, pc, mem>>  BY <1>0, <1>5, FeedbackType
  <2>2. PICK S \in {{a} : a \in Rated} \cup {Rated} :
          entries' = Put(entries, S, None) /\ apart' = apart \cup S
    BY <1>5 DEF DeleteFeedback
  <2>3. \A b \in Anns \ S : entries'[b] = entries[b]  BY <2>2 DEF Put
  <2>4. InsightsMatchJob'
    BY <2>1, <2>2, <2>3 DEF InsightsInv, InsightsMatchJob, Present
  <2>5. QED  BY <2>1, <2>2, <2>3, <2>4 DEF InsightsInv
<1>6. QED  BY <1>0, <1>1, <1>2, <1>3, <1>4, <1>5, UserCases

(* The feedback store and the job agree on what is dismissed, outside the     *)
(* annotations set apart, whatever the stages, edits and raising saves do:    *)
(* InsightsMatchJob.                                                          *)
THEOREM InsightsAgree == Spec => []InsightsMatchJob
<1>1. ASSUME Init, TypeOK  PROVE InsightsInv
  <2>1. /\ job = mem /\ mem.anns = [a \in Anns |-> Absent]
        /\ entries = [a \in Anns |-> "none"]
    BY <1>1 DEF Init, None
  <2>2. In(mem.anns) = {}  BY <2>1 DEF In
  <2>3. marking = {}  BY <1>1 DEF Init
  <2>4. QED  BY <1>1, <2>1, <2>2, <2>3 DEF InsightsInv, InsightsMatchJob, NoneDismissed, Present
<1>2. InsightsInv /\ StatusInv /\ TypeOK' /\ [Next]_vars => InsightsInv'
  <2> SUFFICES ASSUME InsightsInv, StatusInv, TypeOK', [Next]_vars
               PROVE  InsightsInv'
    OBVIOUS
  <2>1. CASE Run \/ Restart
    <3>1. InsightsMatchJob' /\ NoneDismissed(mem'.anns)  BY <2>1, RunInsights
    <3>2. pc # "ended" /\ entries' = entries /\ apart' = apart  BY <2>1, DuringRun
    <3>3. marking' = marking \/ marking' = {}  BY <2>1, RunMarking
    <3>4. QED  BY <3>1, <3>2, <3>3 DEF InsightsInv, Settled
  <2>2. CASE User
    <3>1. /\ InsightsMatchJob'
          /\ ~Settled => /\ apart \subseteq apart'
                         /\ \A a \in (Anns \ apart)' : entries'[a] # "dismissed"
      BY <2>2, UserInsights
    <3>2. UNCHANGED <<pc, mem, marking>>  BY <2>2, UserLeaves DEF InsightsInv
    <3>3. QED  BY <3>1, <3>2 DEF InsightsInv, Settled
  <2>3. CASE StaleRead \/ StaleWrite  BY <2>3, StaleInsights
  <2>4. CASE Poll \/ UNCHANGED vars
    <3>1. UNCHANGED <<job, entries, apart, mem, pc, marking>>  BY <2>4 DEF Poll, users, vars
    <3>2. QED  BY <3>1 DEF InsightsInv, InsightsMatchJob, Present, Settled
  <2>5. QED  BY <2>1, <2>2, <2>3, <2>4 DEF Next
<1>3. InsightsInv => InsightsMatchJob  BY DEF InsightsInv
<1>4. QED  BY <1>1, <1>2, <1>3, ReviewTypeCorrect, Statuses, PTL DEF Spec

-----------------------------------------------------------------------------
(* The stream's last event.  The job's status leaves "enriching" when the     *)
(* copy is saved as completed, after its last change; the writes of the       *)
(* assessment store the same annotations again.  All this of jobs that were   *)
(* never found stale.                                                         *)
Working == pc \notin {"assess", "ended"}

LastShown ==
  follower.phase = "complete" /\ follower.fresh /\ ~used.raced =>
    /\ In(follower.shown) = Present
    /\ \A a \in Present : follower.shown[a].state = job.anns[a].state

FinalInv ==
  /\ TypeOK
  /\ marking = {}
  /\ LastShown
  /\ Working => job.status = "enriching" /\ mem.status = "enriching"
  /\ pc = "assess" => /\ job.status # "enriching" /\ mem.status # "enriching"
                      /\ ~used.raced => job.anns = mem.anns
  /\ follower.phase = "complete" => job.status # "enriching"

LEMMA StageWorks ==
  ASSUME FinalInv, NEW from, NEW to, NEW new, Stage(from, to, new),
         from \in Phases \ {"assess", "ended"}, to \in Phases \ {"assess", "ended"}, TypeOK'
  PROVE  FinalInv'
<1>1. Working /\ Working' /\ follower' = follower /\ marking' = marking
  BY DEF Stage, Working, users
<1>2. mem' = [mem EXCEPT !.anns = new] /\ (job' = mem' \/ job' = job)  BY DEF Stage
<1>3. mem'.status = mem.status  BY <1>2 DEF FinalInv, TypeOK, JobRecords
<1>4. job'.status = "enriching" /\ mem'.status = "enriching" /\ follower'.phase # "complete"
  BY <1>1, <1>2, <1>3 DEF FinalInv
<1>5. QED  BY <1>1, <1>4 DEF FinalInv, LastShown, Working

LEMMA RunFinal ==
  ASSUME FinalInv, Run, TypeOK'
  PROVE  FinalInv'
<1>0. marking' = {}  BY RunMarking DEF FinalInv
<1>1. CASE \E to \in {"extract", "reconcile"} : Extract(to)
  BY <1>1, StageWorks DEF Extract, Phases
<1>2. CASE Reconcile  BY <1>2, StageWorks DEF Reconcile, Phases
<1>3. CASE MatchSpans  BY <1>3, StageWorks DEF MatchSpans, Phases
<1>4. CASE \E to \in {"link", "complete"} : Link(to)
  BY <1>4, StageWorks DEF Link, Phases
<1>5. CASE Complete \/ FailPipeline
  <2>1. PICK status \in {"completed", "failed"}, to \in {"assess", "ended"} :
          /\ Working /\ pc' = to /\ mem' = [mem EXCEPT !.status = status] /\ job' = mem'
          /\ follower' = follower
    BY <1>5 DEF Complete, FailPipeline, SaveStatus, Working, users
  <2>2. mem'.status = status  BY <2>1 DEF FinalInv, TypeOK, JobRecords
  <2>3. follower.phase # "complete"  BY <2>1 DEF FinalInv
  <2>4. QED  BY <1>0, <2>1, <2>2, <2>3 DEF FinalInv, LastShown, Working
<1>6. CASE Assess
  <2>1. pc = "assess" /\ job' = mem /\ UNCHANGED <<mem, pc, follower, used>>
    BY <1>6 DEF Assess, users
  <2>2. ~used.raced => job'.anns = job.anns  BY <2>1 DEF FinalInv
  <2>3. LastShown'  BY <2>1, <2>2 DEF FinalInv, LastShown, Present
  <2>4. QED  BY <1>0, <2>1, <2>3 DEF FinalInv, Working
<1>7. CASE EndRun
  <2>1. pc = "assess" /\ pc' = "ended" /\ UNCHANGED <<mem, job, follower, used>>
    BY <1>7 DEF EndRun, users
  <2>2. QED  BY <1>0, <2>1 DEF FinalInv, LastShown, Present, Working
<1>8. CASE MatchNothing  BY <1>8, StageWorks DEF MatchNothing, Phases
<1>9. QED  BY <1>1, <1>2, <1>3, <1>4, <1>5, <1>6, <1>7, <1>8 DEF Run

LEMMA RestartFinal ==
  ASSUME FinalInv, Restart, TypeOK'
  PROVE  FinalInv'
<1>1. job'.anns = job.anns /\ pc' = "ended" /\ used' = used
  BY RestartType DEF FinalInv, Restart, users
<1>2. job'.status # "enriching"
  <2>1. job' = [job EXCEPT !.status = IF @ = "enriching" THEN "failed" ELSE @]
    BY DEF Restart
  <2>2. QED  BY <2>1 DEF FinalInv, TypeOK, JobRecords
<1>3. follower'.phase = "complete" => follower' = follower
  <2>1. follower' = IF follower.phase = "following"
                    THEN [follower EXCEPT !.phase = "cut off"] ELSE follower
    BY DEF Restart
  <2>2. QED  BY <2>1 DEF FinalInv, TypeOK
<1>4. LastShown'  BY <1>1, <1>3 DEF FinalInv, LastShown, Present
<1>5. marking' = {}  BY RunMarking DEF FinalInv
<1>6. QED  BY <1>1, <1>2, <1>4, <1>5 DEF FinalInv, Working

(* A client whose stream has ended shows what is stored, when nobody has      *)
(* edited the job during the run or since and no thread has found it stale:   *)
(* CompleteIsFinal.                                                           *)
THEOREM LastEventStands == Spec => []CompleteIsFinal
<1> DEFINE Inv == used.marks = 0 => FinalInv
<1>1. ASSUME Init, TypeOK  PROVE Inv
  <2>1. /\ job = mem /\ mem.status = "enriching" /\ pc = "extract"
        /\ follower.phase = "following" /\ marking = {}
    BY <1>1 DEF Init
  <2>2. QED  BY <1>1, <2>1 DEF FinalInv, LastShown, Working
<1>2. Inv /\ TypeOK /\ TypeOK' /\ [Next]_vars => Inv'
  <2> SUFFICES ASSUME Inv, TypeOK, TypeOK', [Next]_vars, used'.marks = 0
               PROVE  FinalInv'
    OBVIOUS
  <2>1. CASE Run \/ Restart
    <3>1. used' = used
      BY <2>1 DEF Run, Restart, Extract, Reconcile, MatchSpans, MatchNothing, Link, Stage,
                  Complete, FailPipeline, SaveStatus, Assess, EndRun, users
    <3>2. FinalInv  BY <3>1
    <3>3. QED  BY <2>1, <3>2, RunFinal, RestartFinal
  <2>2. CASE User
    <3>1. /\ UNCHANGED <<pc, mem, marking>> /\ used'.marks = used.marks
          /\ \/ UNCHANGED <<job, follower>> /\ used'.raced = used.raced
             \/ /\ job'.status = job.status /\ follower'.phase = follower.phase
                /\ follower'.fresh = FALSE /\ (~Settled => used'.raced)
      BY <2>2, UserLeaves
    <3>2. FinalInv  BY <3>1
    <3>3. QED  BY <3>1, <3>2 DEF FinalInv, LastShown, Present, Working, Settled
  <2>3. CASE StaleRead
    <3>1. used' = [used EXCEPT !.marks = @ + 1]  BY <2>3 DEF StaleRead
    <3>2. used.marks \in 0..MaxMarks  BY DEF TypeOK
    <3>3. used'.marks = used.marks + 1  BY <3>1 DEF TypeOK
    <3>4. QED  BY <3>2, <3>3
  <2>4. CASE StaleWrite
    <3>1. used' = used /\ marking # {}  BY <2>4 DEF StaleWrite, users
    <3>2. QED  BY <3>1 DEF FinalInv
  <2>5. CASE Poll
    <3>1. UNCHANGED <<job, mem, pc, used, marking>>  BY <2>5 DEF Poll, users
    <3>2. /\ follower'.phase = IF job.status = "enriching" THEN "following" ELSE "complete"
          /\ follower'.shown = Events(follower.shown)
      BY <2>5 DEF Poll
    <3>3. \A a \in Present : [state |-> job.anns[a].state, primary |-> Primary(job.anns[a])] # Absent
      <4> TAKE a \in Present
      <4>1. job.anns[a] \in Annotations /\ job.anns[a].concepts # <<>>
        BY PresentSound
      <4>2. job.anns[a].state \in States /\ Primary(job.anns[a]) \in Iris
        BY <4>1, PrimaryType DEF Annotations
      <4>3. QED  BY <4>2
    <3>4. /\ In(follower'.shown) = Present
          /\ \A a \in Present : follower'.shown[a].state = job.anns[a].state
      BY <3>2, <3>3 DEF Events, In, Present
    <3>5. LastShown'  BY <3>1, <3>4 DEF LastShown, Present
    <3>6. QED  BY <3>1, <3>2, <3>5 DEF FinalInv, Working
  <2>6. CASE UNCHANGED vars
    BY <2>6 DEF vars, FinalInv, LastShown, Present, Working
  <2>7. QED  BY <2>1, <2>2, <2>3, <2>4, <2>5, <2>6 DEF Next
<1>3. Inv => CompleteIsFinal  BY DEF FinalInv, LastShown, CompleteIsFinal
<1> HIDE DEF Inv
<1>4. QED  BY <1>1, <1>2, <1>3, ReviewTypeCorrect, PTL DEF Spec
=============================================================================
